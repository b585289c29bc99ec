SPECIFICATION MCFairSpec
CONSTANTS
  Files <- SomeFiles
  Names = {"a", "b"}
  Paths = {"a", "b"}
  Servers = {"s1", "s2"}
  FirstServer = "s1"
  Sources = {1, 2, 3, 4}
  Settings = {"flags", "tuned", "broken"}
  ValidSettings = {"flags", "tuned"}
  Defaults = "flags"
  Unset = Unset
  NoConfig = NoConfig
  NoDigest = NoDigest
  Groups <- SomeGroups
  MaxEdits = 3
  MaxFailures = 2
  MaxRotations = 3
CHECK_DEADLOCK FALSE
INVARIANTS
  TypeOK
  LiveIsRouted
  ClaimsAreSound
PROPERTIES
  KeepsPromise
  FollowsFile
  CredentialsFollow
