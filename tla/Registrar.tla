------------------------------ MODULE Registrar ------------------------------
(***************************************************************************)
(* Keeping the cluster's APIServices in step with what the workspaces      *)
(* serve: apiServiceRegistrar.reconcile (pkg/apiserver/apiservices.go),    *)
(* clusterAPIs.foreign (clusterapis.go), leader election (leader.go) and   *)
(* the start-up hook that wires them (apiserver.go).                       *)
(*                                                                         *)
(* Every replica of spillway has several goroutines that reconcile: the    *)
(* start-up hook once, the workspace's Run loop after every refresh, and   *)
(* the election's OnStartedLeading callback.  Nothing serialises them, and *)
(* each round is a sequence of requests to the cluster's API server, where *)
(* operators write too.                                                    *)
(*                                                                         *)
(* A replica's workspaces are one here.  Its Run loop begins in launch,    *)
(* before manager.start hands the set to the router; with several of them  *)
(* the launches of all the others lie in between.                          *)
(*                                                                         *)
(* An APIService is named after its group version, so it is modelled by    *)
(* it.  Its spec is the Service it points at and the CA bundle it carries. *)
(***************************************************************************)
EXTENDS Integers

CONSTANTS
  Replicas,
  GroupVersions,
  Budgets,  \* bound: how often kcp or the CA bundle may change, operators
            \* write, requests fail, leases get lost
  None

Bounds == [changes : Nat, operator : Nat, failures : Nat, losses : Nat]

ASSUME RegistrarAssumption == Budgets \subseteq Bounds

VARIABLES
  apis,      \* the cluster's APIServices
  served,    \* kcp: the group versions the workspace serves
  bundle,    \* the CA bundle file
  started,   \* how far manager.start is
  view,      \* the workspace's snapshot, in each replica
  enabled,   \* LeaderElectionOptions.Enabled, of every replica
  leading,   \* leadership.leading
  elector,   \* client-go: where LeaderElector.Run is
  callback,  \* client-go: OnStartedLeading has been spawned but has not run
  holder,    \* the Lease
  job,       \* the reconcile rounds
  budget     \* what is left of the bounds

environment == <<served, bundle, budget>>
router == <<started, view>>
election == <<enabled, leading, elector, callback, holder>>
vars == <<apis, environment, router, election, job>>

Kinds == {"hook", "run", "elected"}
Workers == Replicas \X Kinds
replica(w) == w[1]

APIService == [service : {"spillway", "other"}, managed : BOOLEAN, bundle : 0..1]
APIServices == [GroupVersions -> APIService \cup {None}]
NoAPIServices == [gv \in GroupVersions |-> None]

\* The locals of one reconcile round.  todo holds what its loop over the
\* existing APIServices, and missing what its loop over wanted, have yet to
\* visit; fresh holds the listed APIServices whose resourceVersion is still
\* current.  Histories: steady is what the workspace has served all along,
\* routed whether it was in the router when the round began.
Job == [pc : {"idle", "begin", "foreign", "routing", "wanted", "list", "apply"},
        bundle : 0..1, foreign : SUBSET GroupVersions,
        wanted : SUBSET GroupVersions, existing : APIServices,
        todo : SUBSET GroupVersions, missing : SUBSET GroupVersions,
        fresh : SUBSET GroupVersions, steady : SUBSET GroupVersions,
        routed : BOOLEAN]
Idle == [pc |-> "idle", bundle |-> 0, foreign |-> {}, wanted |-> {},
         existing |-> NoAPIServices, todo |-> {}, missing |-> {},
         fresh |-> {}, steady |-> {}, routed |-> FALSE]

TypeOK ==
  /\ apis \in APIServices
  /\ served \in SUBSET GroupVersions
  /\ bundle \in 0..1
  /\ started \in [Replicas -> {"no", "launched", "routed"}]
  /\ view \in [Replicas -> SUBSET GroupVersions]
  /\ enabled \in BOOLEAN
  /\ leading \in [Replicas -> BOOLEAN]
  /\ elector \in [Replicas -> {"contending", "leading", "returned"}]
  /\ callback \in [Replicas -> BOOLEAN]
  /\ holder \in Replicas \cup {None}
  /\ job \in [Workers -> Job]
  /\ budget \in Bounds

\* Faulty: the CA bundle is not written.
desired_NoBundle(b) == [service |-> "spillway", managed |-> TRUE]

\* desired, as the registrar writes it.
desired(b) == [service |-> "spillway", managed |-> TRUE, bundle |-> b]

\* Every replica has just started, on a cluster with no registrations or with
\* the ones an earlier run of spillway left.
Init ==
  /\ served \in SUBSET GroupVersions
  /\ bundle = 0
  /\ apis \in [GroupVersions -> {None, desired(0)}]
  /\ enabled \in BOOLEAN
  /\ started = [p \in Replicas |-> "no"]
  /\ view = [p \in Replicas |-> {}]
  /\ leading = [p \in Replicas |-> FALSE]
  /\ elector = [p \in Replicas |-> "contending"]
  /\ callback = [p \in Replicas |-> FALSE]
  /\ holder = None
  /\ job = [w \in Workers |-> Idle]
  /\ budget \in Budgets

-----------------------------------------------------------------------------
(* What starts a round *)

Starts(w) == job' = [job EXCEPT ![w].pc = "begin"]

\* launch, in manager.start: the workspace is read, and its Run loop begins.
Launch(p) ==
  /\ started[p] = "no"
  /\ started' = [started EXCEPT ![p] = "launched"]
  /\ view' = [view EXCEPT ![p] = served]
  /\ UNCHANGED <<apis, environment, election, job>>

\* The rest of the hook: router.replace, then onChange.
Hook(p) ==
  /\ started[p] = "launched"
  /\ started' = [started EXCEPT ![p] = "routed"]
  /\ Starts(<<p, "hook">>)
  /\ UNCHANGED <<apis, environment, view, election>>

\* ResourceCache.Run: a refresh, then onChange.
Run(p) ==
  /\ started[p] # "no"
  /\ job[<<p, "run">>].pc = "idle"
  /\ view' = [view EXCEPT ![p] = served]
  /\ Starts(<<p, "run">>)
  /\ UNCHANGED <<apis, environment, started, election>>

\* Faulty: the round starts and the flag is left alone.
OnStartedLeading_NoFlag(p) ==
  /\ callback[p]
  /\ callback' = [callback EXCEPT ![p] = FALSE]
  /\ Starts(<<p, "elected">>)
  /\ UNCHANGED <<apis, environment, router, enabled, leading, elector, holder>>

\* OnStartedLeading, a goroutine of its own: the flag, then onElected.
OnStartedLeading(p) ==
  /\ callback[p]
  /\ callback' = [callback EXCEPT ![p] = FALSE]
  /\ leading' = [leading EXCEPT ![p] = TRUE]
  /\ Starts(<<p, "elected">>)
  /\ UNCHANGED <<apis, environment, router, enabled, elector, holder>>

-----------------------------------------------------------------------------
(* client-go's LeaderElector as runLeaderElection uses it *)

\* Run acquires the lease and spawns the callback.
Acquire(p) ==
  /\ enabled
  /\ holder = None
  /\ elector[p] = "contending"
  /\ holder' = p
  /\ elector' = [elector EXCEPT ![p] = "leading"]
  /\ callback' = [callback EXCEPT ![p] = TRUE]
  /\ UNCHANGED <<apis, environment, router, enabled, leading, job>>

\* The lease was not renewed within RenewDeadline: OnStoppedLeading, and Run
\* returns.  runLeaderElection does not call it again.
OnStoppedLeading(p) ==
  /\ elector[p] = "leading"
  /\ budget.losses > 0
  /\ budget' = [budget EXCEPT !.losses = @ - 1]
  /\ elector' = [elector EXCEPT ![p] = "returned"]
  /\ leading' = [leading EXCEPT ![p] = FALSE]
  /\ UNCHANGED <<apis, served, bundle, router, enabled, callback, holder, job>>

\* LeaseDuration is longer than RenewDeadline (LeaderElectionOptions.Validate).
LeaseExpires ==
  /\ holder # None
  /\ elector[holder] = "returned"
  /\ holder' = None
  /\ UNCHANGED <<apis, environment, router, enabled, leading, elector, callback, job>>

-----------------------------------------------------------------------------
(* apiServiceRegistrar.reconcile *)

leads(p) == enabled => leading[p]

Snapshot(p) == IF started[p] = "routed" THEN view[p] ELSE {}

\* The leader check and the CA bundle.  HasSynced asks every workspace in the
\* router, and one is only put there after its first refresh, so it is true,
\* and of a router without workspaces too.
Begin(w) ==
  /\ job[w].pc = "begin"
  /\ job' = [job EXCEPT ![w] =
       IF leads(replica(w))
       THEN [Idle EXCEPT !.pc = "foreign", !.bundle = bundle,
                         !.steady = IF started[replica(w)] = "no" THEN served
                                    ELSE served \cap view[replica(w)],
                         !.routed = started[replica(w)] = "routed"]
       ELSE Idle]
  /\ UNCHANGED <<apis, environment, router, election>>

\* foreign: the cluster's discovery first, then the APIServices that route it.
ReadDiscovery(w) ==
  /\ job[w].pc = "foreign"
  /\ job' = [job EXCEPT
       ![w].pc = "routing",
       ![w].foreign = {gv \in GroupVersions : apis[gv] # None}]
  /\ UNCHANGED <<apis, environment, router, election>>

ours(service) == service # None /\ service.service = "spillway"

ReadRouting(w) ==
  /\ job[w].pc = "routing"
  /\ job' = [job EXCEPT
       ![w].pc = "wanted",
       ![w].foreign = {gv \in @ : ~ours(apis[gv])}]
  /\ UNCHANGED <<apis, environment, router, election>>

ReadSnapshot(w) ==
  /\ job[w].pc = "wanted"
  /\ job' = [job EXCEPT
       ![w].pc = "list",
       ![w].wanted = Snapshot(replica(w)) \ job[w].foreign]
  /\ UNCHANGED <<apis, environment, router, election>>

\* What the loop over the existing APIServices will write: merge finds a
\* difference, or a managed one that points at spillway is not wanted.
needsUpdate(j, gv, current) ==
  /\ gv \in j.wanted
  /\ current.managed
  /\ current # desired(j.bundle)

\* Faulty: an APIService that differs is withdrawn, to be created again.
needsDelete_Different(j, gv, current) ==
  /\ gv \notin j.wanted \/ current # desired(j.bundle)
  /\ current.managed
  /\ ours(current)

needsDelete(j, gv, current) ==
  /\ gv \notin j.wanted
  /\ current.managed
  /\ ours(current)

List(w) ==
  LET j == job[w]
      present == {gv \in GroupVersions : apis[gv] # None}
  IN /\ j.pc = "list"
     /\ job' = [job EXCEPT
          ![w].pc = "apply",
          ![w].existing = apis,
          ![w].fresh = present,
          ![w].todo = {gv \in present : \/ needsUpdate(j, gv, apis[gv])
                                        \/ needsDelete(j, gv, apis[gv])},
          ![w].missing = j.wanted \ present]
     /\ UNCHANGED <<apis, environment, router, election>>

\* A write to gv makes the resourceVersion every round has listed stale.
Outdated(jobs, gv) == [v \in Workers |-> [jobs[v] EXCEPT !.fresh = @ \ {gv}]]

Visited(w, gv) == [job EXCEPT ![w].todo = @ \ {gv}, ![w].missing = @ \ {gv}]

\* Faulty: the write does not depend on the resourceVersion.
Update_Unconditional(w, gv) ==
  LET j == job[w]
  IN /\ j.pc = "apply"
     /\ gv \in j.todo
     /\ needsUpdate(j, gv, j.existing[gv])
     /\ apis' = [apis EXCEPT ![gv] = desired(j.bundle)]
     /\ job' = Outdated(Visited(w, gv), gv)
     /\ UNCHANGED <<environment, router, election>>

\* Update carries the listed resourceVersion; one that is stale is a conflict.
Update(w, gv) ==
  LET j == job[w]
  IN /\ j.pc = "apply"
     /\ gv \in j.todo
     /\ needsUpdate(j, gv, j.existing[gv])
     /\ IF gv \in j.fresh
        THEN /\ apis' = [apis EXCEPT ![gv] = desired(j.bundle)]
             /\ job' = Outdated(Visited(w, gv), gv)
        ELSE job' = Visited(w, gv) /\ UNCHANGED apis
     /\ UNCHANGED <<environment, router, election>>

\* Delete names the APIService and nothing else; NotFound is not an error.
Delete(w, gv) ==
  LET j == job[w]
  IN /\ j.pc = "apply"
     /\ gv \in j.todo
     /\ needsDelete(j, gv, j.existing[gv])
     /\ apis' = [apis EXCEPT ![gv] = None]
     /\ job' = Outdated(Visited(w, gv), gv)
     /\ UNCHANGED <<environment, router, election>>

\* The second loop runs after the first.  AlreadyExists is not an error.
Create(w, gv) ==
  LET j == job[w]
  IN /\ j.pc = "apply"
     /\ j.todo = {}
     /\ gv \in j.missing
     /\ apis' = [apis EXCEPT ![gv] = IF @ = None THEN desired(j.bundle) ELSE @]
     /\ job' = Visited(w, gv)
     /\ UNCHANGED <<environment, router, election>>

Done(w) ==
  /\ job[w].pc = "apply"
  /\ job[w].todo = {} /\ job[w].missing = {}
  /\ job' = [job EXCEPT ![w] = Idle]
  /\ UNCHANGED <<apis, environment, router, election>>

\* A read that fails ends the round, a write that fails is left for the next.
RequestFails(w) ==
  /\ budget.failures > 0
  /\ budget' = [budget EXCEPT !.failures = @ - 1]
  /\ \/ /\ job[w].pc \in {"foreign", "routing", "list"}
        /\ job' = [job EXCEPT ![w] = Idle]
     \/ /\ job[w].pc = "apply"
        /\ \E gv \in IF job[w].todo # {} THEN job[w].todo ELSE job[w].missing :
             job' = Visited(w, gv)
  /\ UNCHANGED <<apis, served, bundle, router, election>>

-----------------------------------------------------------------------------
(* The environment *)

\* Operators declare, relabel and remove APIServices by hand.
OperatorWrites(gv, new) ==
  /\ budget.operator > 0
  /\ budget' = [budget EXCEPT !.operator = @ - 1]
  /\ new # apis[gv]
  /\ apis' = [apis EXCEPT ![gv] = new]
  /\ job' = Outdated(job, gv)
  /\ UNCHANGED <<served, bundle, router, election>>

\* What kcp serves, or the CA bundle, changes.
ServedChanges(gv) ==
  /\ budget.changes > 0
  /\ budget' = [budget EXCEPT !.changes = @ - 1]
  /\ served' = IF gv \in served THEN served \ {gv} ELSE served \cup {gv}
  /\ job' = [w \in Workers |-> [job[w] EXCEPT !.steady = @ \ {gv}]]
  /\ UNCHANGED <<apis, bundle, router, election>>

BundleChanges ==
  /\ budget.changes > 0
  /\ budget' = [budget EXCEPT !.changes = @ - 1]
  /\ bundle' = 1 - bundle
  /\ UNCHANGED <<apis, served, router, election, job>>

-----------------------------------------------------------------------------
Reconcile(w) ==
  \/ Begin(w)
  \/ ReadDiscovery(w)
  \/ ReadRouting(w)
  \/ ReadSnapshot(w)
  \/ List(w)
  \/ \E gv \in GroupVersions : Update(w, gv) \/ Delete(w, gv) \/ Create(w, gv)
  \/ Done(w)

\* What an operator may turn an APIService into.
Declared == {None} \cup [service : {"spillway", "other"}, managed : BOOLEAN,
                         bundle : {0}]

Next ==
  \/ \E p \in Replicas : Launch(p) \/ Hook(p) \/ Run(p) \/ Acquire(p)
                           \/ OnStartedLeading(p) \/ OnStoppedLeading(p)
  \/ LeaseExpires
  \/ \E w \in Workers : Reconcile(w) \/ RequestFails(w)
  \/ \E gv \in GroupVersions, new \in Declared : OperatorWrites(gv, new)
  \/ \E gv \in GroupVersions : ServedChanges(gv)
  \/ BundleChanges

Spec == Init /\ [][Next]_vars

\* Requests are answered, the hook runs, the ticker refreshes time and again,
\* and a lease that is free is taken.  Nothing makes a request fail, a lease
\* get lost, or anyone change anything.
Fairness ==
  /\ \A p \in Replicas :
       /\ WF_vars(Launch(p))
       /\ WF_vars(Hook(p))
       /\ WF_vars(Run(p))
       /\ WF_vars(Acquire(p))
       /\ WF_vars(OnStartedLeading(p))
  /\ WF_vars(LeaseExpires)
  /\ \A w \in Workers : WF_vars(Reconcile(w))

FairSpec == Spec /\ Fairness

-----------------------------------------------------------------------------
(* Properties *)

\* reconcile updates only what carries its label when the write lands, not
\* merely when it was listed: an operator who takes the label off in between
\* keeps the APIService as it is, and one who deletes it is not overruled.
UpdatesOnlyManaged ==
  [][\A w \in Workers, gv \in GroupVersions :
       Update(w, gv) /\ apis'[gv] # apis[gv] =>
         apis[gv] # None /\ apis[gv].managed]_vars

\* Of what the workspace has served since before the round began, and this
\* replica has not read as gone, the round withdraws nothing, unless it takes
\* it for something the cluster serves itself.
Spares(w, gv) == gv \notin job[w].steady \/ gv \in job[w].foreign

\* A round that began with the workspace in the router withdraws nothing that
\* is still served, however rounds, refreshes and failures overlap.
RoutedIsNotWithdrawn ==
  [][\A w \in Workers, gv \in GroupVersions :
       Delete(w, gv) /\ job[w].routed => Spares(w, gv)]_vars

\* apiservices.go:198, acting on a workspace that "has not been read yet"
\* "would withdraw every APIService spillway has": no round does.
ServedIsNotWithdrawn ==
  [][\A w \in Workers, gv \in GroupVersions : Delete(w, gv) => Spares(w, gv)]_vars

\* Every group version the workspace serves has an APIService, spillway's own
\* carry the current bundle, and none of spillway's own is left for what the
\* workspace does not serve.
InStep ==
  \A gv \in GroupVersions :
    LET mine == apis[gv] # None /\ apis[gv].managed /\ ours(apis[gv])
    IN IF gv \in served
       THEN apis[gv] # None /\ (mine => apis[gv].bundle = bundle)
       ELSE ~mine

\* The APIServices end up in step, however rounds, failed requests, changes and
\* operators overlap, as long as no replica loses its lease: one that has lost
\* it never contends again (leader.go:140), and when all have, nobody is left
\* to reconcile.
Converges ==
  [](\A p \in Replicas : elector[p] # "returned") => <>[]InStep
=============================================================================
