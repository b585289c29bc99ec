SPECIFICATION MCFairSpec
CONSTANTS
  Replicas = {p1}
  v1 = v1
  GroupVersions = {v1, v2}
  Budgets <- SomeBudgets
  None = None
INVARIANT
  TypeOK
PROPERTIES
  UpdatesOnlyManaged
  RoutedIsNotWithdrawn
  Converges
