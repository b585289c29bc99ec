SPECIFICATION Spec
CONSTANTS
  Workspaces = {"w1", "w2"}
  Groups = {"g", "h"}
  Publishes <- Own
  Configurations <- Shrinks
  FirstConfiguration <- Both
  Converting = "w1"
  r1 = r1
  r2 = r2
  Requesters <- TwoRequesters
  MaxEdits = 1
  MaxGeneration = 2
  MaxReplacements = 1
  MaxFailures = 1
  None = None
INVARIANTS
  TypeOK
PROPERTY
  AnswersAreCurrent
SYMMETRY AnyOrder
