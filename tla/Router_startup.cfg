SPECIFICATION Spec
CONSTANTS
  w1 = w1
  w2 = w2
  Workspaces = {w1, w2}
  Groups = {g1}
  r1 = r1
  r2 = r2
  Readers <- TwoReaders
  Configurations <- Startup
  MaxReplacements = 1
  MaxGeneration = 2
  None = None
SYMMETRY AnyOrder
INVARIANTS
  TypeOK
  SnapshotsAreCurrent
  SteadyGroupIsRouted
