-------------------------- MODULE WorkspaceManager --------------------------
(***************************************************************************)
(* The workspaces spillway runs and how they follow the workspaces file    *)
(* (pkg/apiserver/workspacemanager.go, pkg/cmd/server/workspaces.go and    *)
(* options.go, newWorkspace in apiserver.go), with the credentials of each *)
(* (Credentials) and the groups it backs (GroupMatcher).                   *)
(*                                                                         *)
(* One goroutine reads the file, launches what is new, stops what is gone  *)
(* and replaces the router's set; meanwhile the file is edited, launches   *)
(* fail, and each workspace's credentials are reloaded.  A workspace is a  *)
(* number, reused once nothing refers to it any more.                      *)
(***************************************************************************)
EXTENDS GroupMatcher, Credentials

CONSTANTS
  Files,        \* what the workspaces file may hold: sequences of entries
  Names,        \* the names of workspaces
  Settings,     \* values of the per-workspace backend settings
  ValidSettings,
  Defaults,     \* the flags
  Unset,        \* an entry that leaves the flags in force
  NoConfig,
  Groups,       \* groups somebody may ask for
  MaxEdits,     \* bound: changes of the file
  MaxFailures   \* bound: launches and reloads that fail

VARIABLES
  file,        \* the workspaces file as it now reads
  edits,       \* how much of MaxEdits is used up
  failures,    \* how many launches and reloads failed
  config,      \* what each workspace was built from
  live,        \* workspaces whose context is not cancelled
  workspaces,  \* router.workspaces
  published,   \* the set onChange last saw
  built,       \* the workspace launch is building
  starting,    \* start has not returned yet
  pc,          \* where the manager is
  desired, next, keep, changes, at  \* locals of start and reconcile

environment == <<file, edits>>
locals == <<desired, next, keep, changes, at>>
manager == <<failures, config, live, workspaces, published, built,
             starting, pc, locals>>
vars == <<environment, manager, files, credentials>>

-----------------------------------------------------------------------------
(* loadWorkspaces *)

settingsOf(entry) == IF entry.settings = Unset THEN Defaults ELSE entry.settings

\* claimed: no group is named outright by two workspaces.
claimsDiffer(f) ==
  \A i, j \in 1..Len(f) :
    i # j => NamedGroups(f[i].apiGroups) \cap NamedGroups(f[j].apiGroups) = {}

\* A file that cannot be read or parsed is the empty one here: both are
\* refused.
Accepted(f) ==
  /\ Len(f) > 0
  /\ \A i, j \in 1..Len(f) : i # j => f[i].name # f[j].name
  /\ \A i \in 1..Len(f) : /\ ParseGroupMatcher(f[i].apiGroups)
                          /\ settingsOf(f[i]) \in ValidSettings
  /\ claimsDiffer(f)

loadWorkspaces(f) ==
  [i \in 1..Len(f) |-> [name |-> f[i].name, kubeconfig |-> f[i].kubeconfig,
                        groups |-> f[i].apiGroups,
                        settings |-> settingsOf(f[i])]]

Configs == UNION {{loadWorkspaces(f)[i] : i \in 1..Len(f)} : f \in Files}

ASSUME ManagerAssumption ==
  /\ Files \subseteq Seq([name : Names, kubeconfig : Paths,
                          apiGroups : Seq(Patterns(STRING)),
                          settings : Settings \cup {Unset}])
  /\ Defaults \in ValidSettings /\ ValidSettings \subseteq Settings
  /\ Unset \notin Settings
  /\ NoConfig \notin Configs
  /\ Groups \subseteq Seq(STRING)
  /\ MaxEdits \in Nat /\ MaxFailures \in Nat
  /\ Sources \subseteq Nat \ {0}

\* Faulty: a workspace whose settings changed is taken for the same one.
fingerprint_NoSettings(c) == <<c.name, c.kubeconfig, Rendered(c.groups)>>

fingerprint(c) == <<c.name, c.kubeconfig, Rendered(c.groups), c.settings>>

-----------------------------------------------------------------------------
Members(seq) == {seq[i] : i \in 1..Len(seq)}

TypeOK ==
  /\ CredentialsTypeOK
  /\ file \in Files /\ edits \in 0..MaxEdits /\ failures \in 0..MaxFailures
  /\ config \in [Sources -> Configs \cup {NoConfig}]
  /\ live \in SUBSET Sources
  /\ workspaces \in Seq(live) \/ pc = "replace"
  /\ published \in Seq(Sources)
  /\ built \in Sources \cup {0} /\ starting \in BOOLEAN
  /\ pc \in {"down", "idle", "entries", "launch", "replace", "announce"}
  /\ desired \in Seq(Configs) /\ next \in Seq(live)
  /\ keep \in SUBSET Names /\ changes \in Nat /\ at \in 1..(Len(desired) + 1)

Init ==
  /\ CredentialsInit
  /\ file \in Files
  /\ edits \in 0..MaxEdits /\ failures = 0 /\ built = 0 /\ changes = 0 /\ at = 1
  /\ config = [s \in Sources |-> NoConfig]
  /\ live = {} /\ keep = {}
  /\ workspaces = <<>> /\ published = <<>> /\ desired = <<>> /\ next = <<>>
  /\ starting = TRUE
  /\ pc = "down"

\* An operator changes the file.
EditFile(f) ==
  /\ edits < MaxEdits
  /\ f # file
  /\ file' = f
  /\ edits' = edits + 1
  /\ UNCHANGED <<manager, files, credentials>>

-----------------------------------------------------------------------------
(* start and reconcile *)

\* The file is read: by New for start, with no workspace running, and by
\* every tick of run.  One that is refused changes nothing.
Reload ==
  /\ pc \in {"down", "idle"}
  /\ Accepted(file)
  /\ desired' = loadWorkspaces(file)
  /\ next' = <<>> /\ keep' = {} /\ changes' = 0 /\ at' = 1
  /\ pc' = "entries"
  /\ UNCHANGED <<environment, failures, config, live, workspaces, published,
                 built, files, credentials, starting>>

entry == desired[at]
\* byName: the workspace of the current set with the entry's name, if any.
running == {s \in Members(workspaces) : config[s].name = entry.name}
unchanged == \E s \in running : fingerprint(config[s]) = fingerprint(entry)

AppendAll(seq, set) == IF set = {} THEN seq ELSE Append(seq, CHOOSE s \in set : TRUE)

KeepRunning ==
  /\ pc = "entries" /\ at <= Len(desired)
  /\ unchanged
  /\ keep' = keep \cup {entry.name}
  /\ next' = AppendAll(next, running)
  /\ at' = at + 1
  /\ UNCHANGED <<environment, failures, config, live, workspaces, published,
                 built, pc, desired, changes, files, credentials, starting>>

free == {s \in Sources : config[s] = NoConfig}

\* launch, newWorkspace: the kubeconfig is loaded and a transport built.  The
\* new workspace has the least number nothing refers to.
Build ==
  /\ pc = "entries" /\ at <= Len(desired)
  /\ ~unchanged
  /\ \E s \in free :
       /\ \A t \in free : s <= t
       /\ built' = s
       /\ config' = [config EXCEPT ![s] = entry]
       /\ BuildTransport(s, entry.kubeconfig)
  /\ pc' = "launch"
  /\ UNCHANGED <<environment, failures, live, workspaces, published, locals,
                 starting>>

\* The digest is taken, the workspace is read once and watched, and its
\* goroutines start.
Launched ==
  /\ pc = "launch"
  /\ RememberDigest(built, entry.kubeconfig)
  /\ live' = live \cup {built}
  /\ next' = Append(next, built)
  /\ changes' = changes + 1
  /\ at' = at + 1
  /\ built' = 0
  /\ pc' = "entries"
  /\ UNCHANGED <<environment, failures, config, workspaces, published,
                 desired, keep, starting>>

\* Faulty: the old workspace is not kept in the next set.
LaunchFails_Drops ==
  /\ pc = "launch"
  /\ failures < MaxFailures
  /\ ~starting
  /\ failures' = failures + 1
  /\ keep' = keep \cup {config[s].name : s \in running}
  /\ at' = at + 1
  /\ pc' = "entries"
  /\ built' = 0
  /\ config' = [config EXCEPT ![built] = NoConfig]
  /\ Retain(live)
  /\ UNCHANGED <<environment, live, workspaces, published, desired, next,
                 changes, starting>>

\* Faulty: the old workspace is in the next set but not marked as kept.
LaunchFails_Unmarked ==
  /\ pc = "launch"
  /\ failures < MaxFailures
  /\ ~starting
  /\ failures' = failures + 1
  /\ next' = AppendAll(next, running)
  /\ at' = at + 1
  /\ pc' = "entries"
  /\ built' = 0
  /\ config' = [config EXCEPT ![built] = NoConfig]
  /\ Retain(live)
  /\ UNCHANGED <<environment, live, workspaces, published, desired, keep,
                 changes, starting>>

\* Building, reading or watching the workspace fails: the old one, if there
\* is one, keeps serving.
LaunchFails ==
  /\ pc = "launch"
  /\ failures < MaxFailures
  /\ ~starting
  /\ failures' = failures + 1
  /\ keep' = keep \cup {config[s].name : s \in running}
  /\ next' = AppendAll(next, running)
  /\ at' = at + 1
  /\ pc' = "entries"
  /\ built' = 0
  /\ config' = [config EXCEPT ![built] = NoConfig]
  /\ Retain(live)
  /\ UNCHANGED <<environment, live, workspaces, published, desired, changes,
                 starting>>

\* In start a failed launch is fatal: the process ends, with every context it
\* handed out, and is started again.
StartFails ==
  /\ pc = "launch"
  /\ failures < MaxFailures
  /\ starting
  /\ failures' = failures + 1
  /\ live' = {} /\ keep' = {}
  /\ next' = <<>> /\ desired' = <<>>
  /\ config' = [s \in Sources |-> NoConfig]
  /\ changes' = 0 /\ at' = 1 /\ built' = 0
  /\ pc' = "down"
  /\ Retain({})
  /\ UNCHANGED <<environment, workspaces, published, starting>>

\* Every workspace of the current set that is not kept is stopped; one that is
\* not in the next set counts as a change.
StopOld ==
  LET stopped == {s \in Members(workspaces) : config[s].name \notin keep}
      gone == stopped \ Members(next)
  IN /\ pc = "entries" /\ at > Len(desired)
     /\ live' = live \ stopped
     /\ changes' = changes + Cardinality(gone)
     /\ pc' = IF changes' = 0 THEN "idle" ELSE "replace"
     /\ UNCHANGED <<environment, failures, config, workspaces, published,
                    built, desired, next, keep, at, files, credentials,
                    starting>>

\* router.replace; what is no longer reachable is forgotten.
Replace ==
  /\ pc = "replace"
  /\ workspaces' = next
  /\ config' = [s \in Sources |-> IF s \in Members(next) THEN config[s]
                                  ELSE NoConfig]
  /\ Retain(Members(next))
  /\ starting' = FALSE
  /\ pc' = "announce"
  /\ UNCHANGED <<environment, failures, live, published, built, locals>>

OnChange ==
  /\ pc = "announce"
  /\ published' = workspaces
  /\ pc' = "idle"
  /\ UNCHANGED <<environment, failures, config, live, workspaces, built,
                 locals, files, credentials, starting>>

\* credentialSource.run, of every workspace that is not stopped.
ReloadCredentials(s) ==
  /\ s \in live
  /\ \/ ReadDigest(s, config[s].kubeconfig)
     \/ ReplaceTransport(s, config[s].kubeconfig)
  /\ UNCHANGED <<environment, manager>>

ReloadCredentialsFails(s) ==
  /\ s \in live
  /\ failures < MaxFailures
  /\ failures' = failures + 1
  /\ ReloadFails(s)
  /\ UNCHANGED <<environment, config, live, workspaces, published, built, pc,
                 locals, starting>>

-----------------------------------------------------------------------------
Manage ==
  \/ Reload \/ KeepRunning \/ Build \/ Launched \/ LaunchFails \/ StartFails
  \/ StopOld \/ Replace \/ OnChange

Next ==
  \/ Manage
  \/ \E f \in Files : EditFile(f)
  \/ \E p \in Paths, u \in Servers :
       Rotate(p, u) /\ UNCHANGED <<environment, manager>>
  \/ \E s \in Sources : ReloadCredentials(s) \/ ReloadCredentialsFails(s)

Spec == Init /\ [][Next]_vars

\* The manager's ticks and the credentials' ticks come for ever.
Fairness ==
  /\ WF_vars(Manage)
  /\ \A s \in Sources : WF_vars(ReloadCredentials(s))

FairSpec == Spec /\ Fairness

-----------------------------------------------------------------------------
(* Properties *)

\* A configuration as an assignment of configurations to names.
AsAssignment(configs) ==
  [n \in Names |-> LET named == {c \in configs : c.name = n}
                   IN IF named = {} THEN NoConfig
                      ELSE CHOOSE c \in named : TRUE]

serving == AsAssignment({config[s] : s \in Members(workspaces)})

Promise == INSTANCE ServedConfiguration
  WITH wanted <- AsAssignment(Members(desired))

\* The manager implements ServedConfiguration: although it launches, fails,
\* keeps and stops workspaces one by one, the router's set moves in one step,
\* a removed workspace always leaves and a configured one is never lost.
KeepsPromise == Promise!Spec

\* Whenever reconcile is not running, the workspaces whose goroutines run are
\* exactly those requests are routed to and discovery was published for: none
\* is stopped and still served, none was built and forgotten.
LiveIsRouted ==
  pc = "idle" => live = Members(workspaces) /\ published = workspaces

\* groups.go:76 and workspaces.go:68: of what is served, a group of Kubernetes'
\* own is only ever claimed by its name, and as long as no launch has failed
\* no group is named by two.  A workspace that is kept because its replacement
\* failed may name a group that the new configuration has moved elsewhere.
ClaimsAreSound ==
  \A s, t \in Members(workspaces), g \in Groups :
    /\ Matches(config[s].groups, g) /\ Under(g, Reserved) =>
         g \in NamedGroups(config[s].groups)
    /\ failures = 0 /\ s # t =>
         g \notin NamedGroups(config[s].groups) \cap NamedGroups(config[t].groups)

\* README.md:180, "The file is re-read while spillway serves": once the file
\* is left alone and acceptable, every workspace in it ends up served as
\* configured, and no other.
FollowsFile ==
  <>[]Accepted(file) =>
    <>[](serving = AsAssignment(Members(loadWorkspaces(file))))

\* credentials.go:19, a rotated token is picked up: the proxy of a workspace
\* that keeps running ends up with the credentials of its kubeconfig, unless
\* that names another server by now, or was rewritten while the workspace was
\* built.
CredentialsFollow ==
  <>[](\A s \in live \ overtaken :
         LET content == kubeconfig[config[s].kubeconfig]
         IN content.server = current[s].server => current[s] = content)
=============================================================================
