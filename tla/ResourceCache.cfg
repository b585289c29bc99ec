SPECIFICATION FairSpec
CONSTANTS
  Groups = {crd, binding, other}
  Owned = {crd, binding}
  Bound = {binding}
  MaxChanges = 2
  MaxFailures = 1
CHECK_DEADLOCK FALSE
INVARIANT
  TypeOK
  SignalsAreNotLost
PROPERTY
  UnchangedGroupsStay
  StopsWhenCancelled
  Converges
