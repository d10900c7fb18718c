------------------------- MODULE MCNativeSnapshots -------------------------
(* An instance of NativeSnapshots: a Create with a Restore, or with a      *)
(* Delete, next to package attempts and their safety snapshot.             *)
EXTENDS NativeSnapshots

Kinds == [o \in Op |-> CASE o = "c" -> "create"
                         [] o = "r" -> "restore"
                         [] o = "d" -> "delete"]
=============================================================================
