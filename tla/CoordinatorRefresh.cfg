SPECIFICATION FairSpec
CONSTANTS
  Node = {n1, n2}
  Guest = {g1}
  Store = {s1}
  Holds <- Everywhere
  Platform = {"sensor", "button"}
  PackageNode = n1
  NoNode = NoNode
  NoData = NoData
  MaxMoves = 3
INVARIANTS EntitiesFollowData WorkIsListed
PROPERTIES DataIsCurrent LostOnlyWhenAway Recovers
