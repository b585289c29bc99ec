SPECIFICATION Spec
CONSTANTS
  Replicas = {p1}
  v1 = v1
  GroupVersions = {v1}
  Budgets <- NothingHappens
  None = None
PROPERTY
  ServedIsNotWithdrawn
