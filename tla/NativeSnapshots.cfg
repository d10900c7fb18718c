SPECIFICATION FairSpec
CONSTANTS
  Op = {"c", "r", "d"}
  KindOf <- Kinds
  Name = {"created", "preupd"}
  Created = "created"
  Owned = {"preupd"}
  NoName = "-"
  MaxTries = 2
  Packages = {"scan", "update", "health"}
  Together = {{"c", "r"}, {"c", "d"}}
INVARIANTS PackagesKeepOut TruthIsCurrent ResultIsTrue NoStrandedReservation OwnSnapshotKept
PROPERTIES ImplementsOwnership OperationsEnd
