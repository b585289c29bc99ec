SPECIFICATION FairSpec
CONSTANTS
  Groups = {"g"}
  Versions = {"v1", "v2"}
  Snapshots <- SomeSnapshots
  Asks <- SomeAsks
  Ownerships = {{"g"}, {}}
  Publishers = {p1, p2}
  MaxChanges = 3
  None = None
INVARIANTS
  TypeOK
  SerialPublishWithdraws
  AnswersAreJustified
PROPERTY
  ServedIsListed
