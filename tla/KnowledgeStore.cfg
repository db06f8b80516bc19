SPECIFICATION Spec
CONSTANTS
  c1 = c1
  c2 = c2
  rb1 = rb1
  rb2 = rb2
  inc1 = inc1
  inc2 = inc2
  old = old
  new = new
  Connections = {c1, c2}
  Loads <- MCLoads
  Keys = {rb1, rb2, inc1, inc2}
  KindOf <- MCKindOf
  Texts = {old, new}
  Absent = Absent
  Files <- MCFiles
  Added <- MCAdded
  Seeds <- MCSeeds
  Queries = {"q"}
  Score <- MCScore
  KMax = 2
  OverFactor = 1
  OverExtra = 1
  NoTx = NoTx
INVARIANTS
  TypeOK
  IndexFollowsDocuments
  ReturnedIsDurable
  SearchFindsTheBest
