SPECIFICATION Spec
CONSTANTS
  t1 = t1
  t2 = t2
  t3 = t3
  r1 = r1
  r2 = r2
  Threads = {t1, t2, t3}
  Faults <- MCFaults
  RunIds = {r1, r2}
  NoManager = NoManager
  NoRun = NoRun
SYMMETRY RegistrySymmetry
INVARIANTS
  AcceptedIsFound
  CatalogIsWhole
VIEW Reachable
