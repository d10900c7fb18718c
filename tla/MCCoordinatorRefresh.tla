------------------------ MODULE MCCoordinatorRefresh ------------------------
(* An instance of CoordinatorRefresh: a cluster of two nodes that both list *)
(* one storage.                                                            *)
EXTENDS CoordinatorRefresh

Everywhere == Node \X Store
=============================================================================
