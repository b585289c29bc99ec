SPECIFICATION Spec
CONSTANTS
  a = a
  b = b
  Writers <- TwoWriters
  TTL = 1
  RequestTimeout = 1
  MaxTime = 2
  MaxDeletions = 1
  MaxOthers = 1
  MaxFailures = 1
  Shapes <- SomeShapes
  Clusters <- SomeClusters
  GVR <- Widgets
  Other = Other
  None = None
  Never = Never
SYMMETRY AnyOrder
CHECK_DEADLOCK FALSE
INVARIANTS
  TypeOK
  NamespaceGapIsBounded
PROPERTIES
  PatchesLoseNothing
  StoredWasAdmitted
  PlainWritesFire
