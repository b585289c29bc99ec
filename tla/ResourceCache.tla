---------------------------- MODULE ResourceCache ----------------------------
(***************************************************************************)
(* How one workspace's view of its API surface is kept current:            *)
(* ResourceCache.refresh and Run (pkg/kcp/discovery.go), the informers     *)
(* that signal changes (pkg/kcp/watch.go), and the order in which launch   *)
(* (pkg/apiserver/workspacemanager.go) starts them.                        *)
(*                                                                         *)
(* The workspace's API surface is, per group, the number of the change     *)
(* that made it what it is and whether it is served.  A refresh reads it   *)
(* with one request for the list of groups and their versions and one per  *)
(* version, which is one per served group here.  The surface may change    *)
(* between them: what is then read of a group is a mixture, and bears the  *)
(* number it had when the groups were listed.                              *)
(***************************************************************************)
EXTENDS Integers

CONSTANTS
  Groups,      \* API groups of the workspace
  Owned,       \* the groups the GroupMatcher covers
  Bound,       \* groups that come from APIBindings rather than CRDs
  MaxChanges,  \* bound: changes of the workspace's API surface
  MaxFailures  \* bound: discovery requests that fail

ASSUME ResourceCacheAssumption ==
  /\ Owned \subseteq Groups
  /\ Bound \subseteq Groups
  /\ MaxChanges \in Nat
  /\ MaxFailures \in Nat

VARIABLES
  surface,    \* kcp: what the workspace serves
  changes,    \* kcp: how often it has changed
  failures,   \* kcp: how many requests it has failed
  events,     \* groups with an informer event on its way
  changed,    \* the channel WatchCRDs returns: a signal is pending
  cancelled,  \* ctx.Done()
  pc,         \* where launch or Run is
  launched,   \* launch has started Run
  bindings,   \* watchBindings has found the type and watches it
  todo,       \* groups whose resources the refresh has yet to list
  reading,    \* the snapshot being read
  snapshot,   \* ResourceCache.snapshot
  synced,     \* ResourceCache.synced
  told,       \* history: the change of each group that was signalled last
  failed      \* history: the last refresh failed

kcp == <<surface, changes, failures>>
watch == <<events, changed, told>>
started == <<launched, bindings>>
data == <<todo, reading, snapshot, synced, failed>>
cache == <<pc, started, data>>
vars == <<kcp, watch, cancelled, cache>>

Unserved(n) == [change |-> n, served |-> FALSE]
Surface == [Groups -> [change : 0..MaxChanges, served : BOOLEAN]]
Untouched == [g \in Groups |-> Unserved(0)]

TypeOK ==
  /\ surface \in Surface
  /\ changes \in 0..MaxChanges
  /\ failures \in 0..MaxFailures
  /\ events \in SUBSET Groups
  /\ changed \in BOOLEAN
  /\ cancelled \in BOOLEAN
  /\ pc \in {"groups", "resources", "announce", "watch", "select", "settle",
             "abandoned", "stopped"}
  /\ launched \in BOOLEAN
  /\ bindings \in BOOLEAN
  /\ todo \in SUBSET Owned
  /\ reading \in Surface
  /\ snapshot \in Surface
  /\ synced \in BOOLEAN
  /\ told \in [Groups -> 0..MaxChanges]
  /\ failed \in BOOLEAN

Init ==
  /\ surface \in [Groups -> {[change |-> 0, served |-> b] : b \in BOOLEAN}]
  /\ changes = 0
  /\ failures = 0
  /\ events = {}
  /\ changed = FALSE
  /\ cancelled = FALSE
  /\ pc = "groups"
  /\ launched = FALSE
  /\ bindings = FALSE
  /\ todo = {}
  /\ reading = Untouched
  /\ snapshot = Untouched
  /\ synced = FALSE
  /\ told = [g \in Groups |-> 0]
  /\ failed = FALSE

-----------------------------------------------------------------------------
(* kcp and the informers *)

Watched(g) == launched /\ (g \in Bound => bindings)

\* A group appears, disappears, or serves something else.
SurfaceChanges(g) ==
  /\ changes < MaxChanges
  /\ changes' = changes + 1
  /\ \E b \in BOOLEAN :
       /\ b \/ surface[g].served
       /\ surface' = [surface EXCEPT ![g] = [change |-> changes + 1,
                                             served |-> b]]
  /\ events' = IF Watched(g) THEN events \cup {g} ELSE events
  /\ UNCHANGED <<failures, changed, told, cancelled, cache>>

\* notify: a CRD of a group that is not owned is filtered out, a binding is
\* not; a signal is dropped when one is pending.
Notify(g) ==
  /\ g \in events
  /\ events' = events \ {g}
  /\ changed' = (changed \/ g \in Owned \/ g \in Bound)
  /\ told' = [told EXCEPT ![g] = surface[g].change]
  /\ UNCHANGED <<kcp, cancelled, cache>>

-----------------------------------------------------------------------------
(* ResourceCache.refresh, called by launch and by Run *)

\* Faulty: what has been read so far replaces the snapshot.
refreshFails_Partial ==
  /\ pc' = IF launched THEN "select" ELSE "abandoned"
  /\ failed' = TRUE
  /\ todo' = {}
  /\ reading' = Untouched
  /\ snapshot' = reading
  /\ UNCHANGED <<started, synced>>

\* A refresh that fails leaves the previous snapshot.  launch gives the
\* workspace up; Run waits for the next tick or signal.
refreshFails ==
  /\ pc' = IF launched THEN "select" ELSE "abandoned"
  /\ failed' = TRUE
  /\ todo' = {}
  /\ reading' = Untouched
  /\ UNCHANGED <<started, snapshot, synced>>

\* Faulty: the matcher is not asked.
ServerGroups_Unfiltered ==
  /\ pc = "groups"
  /\ todo' = {g \in Groups : surface[g].served}
  /\ reading' = [g \in Groups |-> Unserved(surface[g].change)]
  /\ pc' = "resources"
  /\ UNCHANGED <<kcp, watch, cancelled, started, snapshot, synced, failed>>

\* client.ServerGroups: the owned groups that are served.
ServerGroups ==
  /\ pc = "groups"
  /\ todo' = {g \in Owned : surface[g].served}
  /\ reading' = [g \in Groups |->
                   IF g \in Owned THEN Unserved(surface[g].change)
                   ELSE Unserved(0)]
  /\ pc' = "resources"
  /\ UNCHANGED <<kcp, watch, cancelled, started, snapshot, synced, failed>>

\* client.ServerResourcesForGroupVersion.
ServerResources(g) ==
  /\ pc = "resources"
  /\ g \in todo
  /\ surface[g].served
  /\ reading' = [reading EXCEPT ![g].served = TRUE]
  /\ todo' = todo \ {g}
  /\ UNCHANGED <<kcp, watch, cancelled, pc, started, snapshot, synced, failed>>

\* A group or a version of it that has gone since the groups were listed is an
\* error.
VersionIsGone(g) ==
  /\ pc = "resources"
  /\ g \in todo
  /\ surface[g].change # reading[g].change
  /\ refreshFails
  /\ UNCHANGED <<kcp, watch, cancelled>>

RequestFails ==
  /\ pc = "groups" \/ (pc = "resources" /\ todo # {})
  /\ failures < MaxFailures
  /\ failures' = failures + 1
  /\ refreshFails
  /\ UNCHANGED <<surface, changes, watch, cancelled>>

\* Faulty: the signals that arrived during the refresh are drained after it.
Store_Drains ==
  /\ pc = "resources"
  /\ todo = {}
  /\ snapshot' = reading
  /\ reading' = Untouched
  /\ synced' = TRUE
  /\ failed' = FALSE
  /\ pc' = IF launched THEN "announce" ELSE "watch"
  /\ changed' = FALSE
  /\ UNCHANGED <<kcp, events, told, cancelled, started, todo>>

\* snapshot.Store, synced.Store, generation.Add; Router has the steps.
Store ==
  /\ pc = "resources"
  /\ todo = {}
  /\ snapshot' = reading
  /\ reading' = Untouched
  /\ synced' = TRUE
  /\ failed' = FALSE
  /\ pc' = IF launched THEN "announce" ELSE "watch"
  /\ UNCHANGED <<kcp, watch, cancelled, started, todo>>

-----------------------------------------------------------------------------
(* launch and Run *)

\* launch starts the informers only after the first refresh.  Their first
\* list reports what exists then; what was deleted before is never reported.
StartWatch ==
  /\ pc = "watch"
  /\ launched' = TRUE
  /\ bindings' \in BOOLEAN
  /\ events' = {g \in Groups : /\ surface[g].served
                               /\ g \in Bound => bindings'}
  /\ pc' = "select"
  /\ UNCHANGED <<kcp, changed, told, cancelled, data>>

\* The informers cannot be set up: launch cancels and gives up.
WatchFails ==
  /\ pc = "watch"
  /\ pc' = "abandoned"
  /\ UNCHANGED <<kcp, watch, cancelled, started, data>>

\* Faulty: the ticker is not served after a refresh that failed.
Tick_UnlessFailed ==
  /\ pc = "select"
  /\ ~failed
  /\ pc' = "groups"
  /\ UNCHANGED <<kcp, watch, cancelled, started, data>>

Tick ==
  /\ pc = "select"
  /\ pc' = "groups"
  /\ UNCHANGED <<kcp, watch, cancelled, started, data>>

TakeSignal ==
  /\ pc = "select"
  /\ changed
  /\ changed' = FALSE
  /\ pc' = "settle"
  /\ UNCHANGED <<kcp, events, told, cancelled, started, data>>

Settled ==
  /\ pc = "settle"
  /\ pc' = "groups"
  /\ UNCHANGED <<kcp, watch, cancelled, started, data>>

\* onChange returns.
Announced ==
  /\ pc = "announce"
  /\ pc' = "select"
  /\ UNCHANGED <<kcp, watch, cancelled, started, data>>

\* workspace.stop cancels the context of a workspace that was launched.  A
\* refresh under way is not interrupted.
Cancel ==
  /\ launched
  /\ ~cancelled
  /\ cancelled' = TRUE
  /\ UNCHANGED <<kcp, watch, cache>>

\* Faulty: only the wait for the rest of a burst ends with the context.
Stop_WhileSettling ==
  /\ pc = "settle"
  /\ cancelled
  /\ pc' = "stopped"
  /\ UNCHANGED <<kcp, watch, cancelled, started, data>>

Stop ==
  /\ pc \in {"select", "settle"}
  /\ cancelled
  /\ pc' = "stopped"
  /\ UNCHANGED <<kcp, watch, cancelled, started, data>>

-----------------------------------------------------------------------------
Refresh ==
  \/ ServerGroups
  \/ \E g \in Groups : ServerResources(g) \/ VersionIsGone(g)
  \/ Store

Run ==
  \/ StartWatch
  \/ Tick
  \/ TakeSignal
  \/ Settled
  \/ Announced
  \/ Stop

Next ==
  \/ \E g \in Groups : SurfaceChanges(g) \/ Notify(g)
  \/ RequestFails
  \/ Refresh
  \/ WatchFails
  \/ Run
  \/ Cancel

Spec == Init /\ [][Next]_vars

\* Requests are answered or fail, the ticker and the settle timer fire, and
\* onChange returns.  Go's select chooses uniformly among the ready cases, so
\* a case that is ready time and again is taken in the end.  Nothing makes
\* kcp change, fail, or the manager stop the workspace.
Fairness ==
  /\ WF_vars(Refresh \/ RequestFails)
  /\ WF_vars(StartWatch \/ Settled \/ Announced)
  /\ SF_vars(Tick)
  /\ SF_vars(Stop)
  /\ \A g \in Groups : WF_vars(Notify(g))

FairSpec == Spec /\ Fairness

-----------------------------------------------------------------------------
(* Properties *)

\* watch.go:100 and 130, "a refresh is already pending; it will see this
\* change too": a change that was signalled is in the snapshot, or a signal
\* is pending, or a refresh is under way that has yet to list the groups or
\* has listed them after it -- unless the last refresh failed, which only the
\* ticker repeats.
SignalsAreNotLost ==
  launched /\ pc # "stopped" =>
    \A g \in Owned :
      \/ snapshot[g].change >= told[g]
      \/ changed
      \/ pc \in {"settle", "groups"}
      \/ pc = "resources" /\ reading[g].change >= told[g]
      \/ failed

\* refresh replaces the snapshot as a whole, only after every request of the
\* round has been answered, and reads the groups one after the other: still,
\* no refresh drops or alters a group the workspace has not touched since it
\* was last read, whatever else changes or fails meanwhile.
UnchangedGroupsStay ==
  [][synced => \A g \in Owned :
       snapshot[g].served /\ surface[g] = snapshot[g]
         => snapshot'[g] = snapshot[g]]_vars

\* Run stops once the workspace is stopped, whatever signals keep arriving.
StopsWhenCancelled == cancelled ~> pc = "stopped"

\* The cache converges on what the workspace serves, whether or not the
\* informers reported it and however many refreshes failed before, unless
\* the launch was given up or the workspace stopped.
Converges ==
  \/ <>(pc \in {"abandoned", "stopped"} \/ cancelled)
  \/ <>[](\A g \in Owned : /\ snapshot[g].served = surface[g].served
                           /\ snapshot[g].served => snapshot[g] = surface[g])
=============================================================================
