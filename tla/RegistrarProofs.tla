--------------------------- MODULE RegistrarProofs ---------------------------
(***************************************************************************)
(* Registrar for any number of replicas and group versions: its types,     *)
(* that a conditional update never touches what has lost spillway's label, *)
(* and that a round which began with the workspace routed withdraws        *)
(* nothing that is still served.                                           *)
(*                                                                         *)
(* The inductive invariant says what makes an Update safe although the     *)
(* decision to send it was made on a list that may be old: while a round   *)
(* holds a current resourceVersion of an APIService, the listed copy is    *)
(* the APIService.  A second one says what makes a Delete safe: until the  *)
(* round has read the snapshot, the snapshot holds all that has been       *)
(* served throughout, and afterwards wanted does.                          *)
(***************************************************************************)
EXTENDS Registrar, TLAPS

\* A round whose resourceVersion of gv is still current has listed gv, and gv
\* is as it was listed.
FreshIsCurrent ==
  \A w \in Workers : \A gv \in job[w].fresh :
    /\ job[w].existing[gv] = apis[gv]
    /\ apis[gv] # None

IInv == TypeOK /\ FreshIsCurrent

\* Of a round that began with the workspace in the router: what has been
\* served since is in the snapshot the round is going to read, and then it is
\* wanted, save what the round takes for the cluster's own.
SteadyIsWanted ==
  \A w \in Workers : job[w].routed =>
    /\ job[w].pc \in {"foreign", "routing", "wanted"} =>
         /\ started[replica(w)] = "routed"
         /\ job[w].steady \subseteq served \cap view[replica(w)]
    /\ job[w].pc \in {"list", "apply"} =>
         job[w].steady \ job[w].foreign \subseteq job[w].wanted

\* What SteadyIsWanted reads of a round.
Decided(j) == <<j.pc, j.routed, j.steady, j.foreign, j.wanted>>

\* One round's locals are replaced.
LEMMA ReplaceJob ==
  ASSUME job \in [Workers -> Job], NEW w \in Workers, NEW j \in Job
  PROVE  /\ [job EXCEPT ![w] = j] \in [Workers -> Job]
         /\ [job EXCEPT ![w] = j][w] = j
         /\ \A v \in Workers \ {w} : [job EXCEPT ![w] = j][v] = job[v]
OBVIOUS

\* A round that is at rest is well typed and has listed nothing.
LEMMA IdleIsAJob == Idle \in Job /\ Idle.fresh = {}
<1>1. NoAPIServices \in APIServices
  BY DEF NoAPIServices, APIServices
<1> QED BY <1>1 DEF Idle, Job

\* Moving on to the next APIService (the loops of apiservices.go:238-285)
\* keeps what the round has listed.
LEMMA VisitedKeeps ==
  ASSUME job \in [Workers -> Job], NEW w \in Workers, NEW gv \in GroupVersions
  PROVE  /\ Visited(w, gv) \in [Workers -> Job]
         /\ \A v \in Workers : /\ Visited(w, gv)[v].fresh = job[v].fresh
                               /\ Visited(w, gv)[v].existing = job[v].existing
                               /\ Decided(Visited(w, gv)[v]) = Decided(job[v])
<1> DEFINE j == [job[w] EXCEPT !.todo = @ \ {gv}, !.missing = @ \ {gv}]
<1>1. job[w] \in Job
  OBVIOUS
<1>2. /\ j \in Job /\ j.fresh = job[w].fresh /\ j.existing = job[w].existing
      /\ Decided(j) = Decided(job[w])
  BY <1>1 DEF Job, Decided
<1>3. Visited(w, gv) = [job EXCEPT ![w] = j]
  BY Zenon DEF Visited
<1> HIDE DEF j
<1> QED BY <1>2, <1>3, ReplaceJob

\* A write makes exactly the listed copies of what it wrote stale.
LEMMA OutdatedKeeps ==
  ASSUME NEW jobs \in [Workers -> Job], NEW gv \in GroupVersions
  PROVE  /\ Outdated(jobs, gv) \in [Workers -> Job]
         /\ \A v \in Workers :
              /\ Outdated(jobs, gv)[v].fresh = jobs[v].fresh \ {gv}
              /\ Outdated(jobs, gv)[v].existing = jobs[v].existing
              /\ Decided(Outdated(jobs, gv)[v]) = Decided(jobs[v])
<1>1. \A v \in Workers :
        /\ [jobs[v] EXCEPT !.fresh = @ \ {gv}] \in Job
        /\ [jobs[v] EXCEPT !.fresh = @ \ {gv}].fresh = jobs[v].fresh \ {gv}
        /\ [jobs[v] EXCEPT !.fresh = @ \ {gv}].existing = jobs[v].existing
        /\ Decided([jobs[v] EXCEPT !.fresh = @ \ {gv}]) = Decided(jobs[v])
  BY DEF Job, Decided
<1> QED BY <1>1 DEF Outdated

\* What desired (apiservices.go:332-352) builds is an APIService.
LEMMA DesiredIsAnAPIService ==
  \A b \in 0..1 : desired(b) \in APIService
BY DEF desired, APIService

\* The start-up state.
LEMMA InitInvariant == Init => IInv
<1> SUFFICES ASSUME Init PROVE IInv
  OBVIOUS
<1>1. apis \in APIServices
  <2>1. desired(0) \in APIService
    BY DesiredIsAnAPIService
  <2> QED BY <2>1 DEF Init, APIServices
<1>2. job \in [Workers -> Job] /\ \A w \in Workers : job[w].fresh = {}
  BY IdleIsAJob DEF Init
<1>3. budget \in Bounds
  BY RegistrarAssumption DEF Init, RegistrarAssumption
<1>4. /\ started \in [Replicas -> {"no", "launched", "routed"}]
      /\ enabled \in BOOLEAN
      /\ leading \in [Replicas -> BOOLEAN]
      /\ callback \in [Replicas -> BOOLEAN]
      /\ elector \in [Replicas -> {"contending", "leading", "returned"}]
      /\ view \in [Replicas -> SUBSET GroupVersions]
      /\ holder \in Replicas \cup {None}
      /\ served \in SUBSET GroupVersions
  BY Zenon DEF Init
<1>5. bundle \in 0..1
  BY DEF Init
<1>6. TypeOK
  BY <1>1, <1>2, <1>3, <1>4, <1>5, Zenon DEF TypeOK
<1>7. FreshIsCurrent
  BY <1>2 DEF FreshIsCurrent
<1> QED BY <1>6, <1>7 DEF IInv

-----------------------------------------------------------------------------
(* FreshIsCurrent through a step *)

\* A step that writes no APIService, and in which every round keeps what it
\* has listed or forgets it.
LEMMA NoWriteKeepsFresh ==
  ASSUME FreshIsCurrent, apis' = apis,
         \A v \in Workers : \/ job'[v].fresh = {}
                            \/ /\ job'[v].fresh = job[v].fresh
                               /\ job'[v].existing = job[v].existing
  PROVE  FreshIsCurrent'
BY DEF FreshIsCurrent

\* A step that writes gv alone, and makes every listed copy of it stale.
LEMMA WriteKeepsFresh ==
  ASSUME FreshIsCurrent, job \in [Workers -> Job], NEW gv \in GroupVersions,
         \A x \in GroupVersions \ {gv} : apis'[x] = apis[x],
         \A v \in Workers : /\ job'[v].fresh = job[v].fresh \ {gv}
                            /\ job'[v].existing = job[v].existing
  PROVE  FreshIsCurrent'
<1>1. \A v \in Workers : job[v].fresh \subseteq GroupVersions
  BY DEF Job
<1> QED BY <1>1 DEF FreshIsCurrent

-----------------------------------------------------------------------------
(* The steps *)

\* What starts a round (apiserver.go:226-254, leader.go:123-128) touches no
\* APIService and nothing a round has listed.
LEMMA StartPreserves ==
  ASSUME IInv, NEW p \in Replicas,
         Launch(p) \/ Hook(p) \/ Run(p) \/ OnStartedLeading(p)
  PROVE  IInv'
<1> USE DEF IInv
<1>1. ASSUME NEW w \in Workers, Starts(w)
      PROVE  /\ job' \in [Workers -> Job]
             /\ \A v \in Workers : /\ job'[v].fresh = job[v].fresh
                                   /\ job'[v].existing = job[v].existing
  <2> DEFINE j == [job[w] EXCEPT !.pc = "begin"]
  <2>0. job \in [Workers -> Job]
    BY DEF TypeOK
  <2>1. job[w] \in Job
    BY <2>0
  <2>2. j \in Job /\ j.fresh = job[w].fresh /\ j.existing = job[w].existing
    BY <2>1 DEF Job
  <2>3. job' = [job EXCEPT ![w] = j]
    BY <1>1, Zenon DEF Starts
  <2> HIDE DEF j
  <2> QED BY <2>0, <2>2, <2>3, ReplaceJob
<1>2. <<p, "hook">> \in Workers /\ <<p, "run">> \in Workers
        /\ <<p, "elected">> \in Workers
  BY DEF Workers, Kinds
<1>3. CASE Hook(p)
  <2>1. started' \in [Replicas -> {"no", "launched", "routed"}]
    BY <1>3 DEF Hook, TypeOK
  <2>2. Starts(<<p, "hook">>) /\ UNCHANGED <<apis, environment, view, election>>
    BY <1>3, Zenon DEF Hook
  <2>3. TypeOK'
    BY <1>1, <1>2, <2>1, <2>2, Zenon DEF TypeOK, environment, election
  <2>4. FreshIsCurrent'
    BY <1>1, <1>2, <2>2, NoWriteKeepsFresh
  <2> QED BY <2>3, <2>4
<1>4. CASE Run(p)
  <2>1. view' \in [Replicas -> SUBSET GroupVersions]
    BY <1>4, Zenon DEF Run, TypeOK
  <2>2. /\ Starts(<<p, "run">>)
        /\ UNCHANGED <<apis, environment, started, election>>
    BY <1>4, Zenon DEF Run
  <2>3. TypeOK'
    BY <1>1, <1>2, <2>1, <2>2, Zenon DEF TypeOK, environment, election
  <2>4. FreshIsCurrent'
    BY <1>1, <1>2, <2>2, NoWriteKeepsFresh
  <2> QED BY <2>3, <2>4
<1>5. CASE OnStartedLeading(p)
  <2>1. /\ callback' \in [Replicas -> BOOLEAN]
        /\ leading' \in [Replicas -> BOOLEAN]
    BY <1>5, Zenon DEF OnStartedLeading, TypeOK
  <2>2. /\ Starts(<<p, "elected">>)
        /\ UNCHANGED <<apis, environment, router, enabled, elector, holder>>
    BY <1>5, Zenon DEF OnStartedLeading
  <2>3. TypeOK'
    BY <1>1, <1>2, <2>1, <2>2, Zenon DEF TypeOK, environment, router
  <2>4. FreshIsCurrent'
    BY <1>1, <1>2, <2>2, NoWriteKeepsFresh
  <2> QED BY <2>3, <2>4
<1>6. CASE Launch(p)
  <2>1. started' \in [Replicas -> {"no", "launched", "routed"}]
    BY <1>6 DEF Launch, TypeOK
  <2>2. view' \in [Replicas -> SUBSET GroupVersions]
    BY <1>6, Zenon DEF Launch, TypeOK
  <2>3. UNCHANGED <<apis, environment, election, job>>
    BY <1>6, Zenon DEF Launch
  <2>4. TypeOK'
    BY <2>1, <2>2, <2>3, Zenon DEF TypeOK, environment, election
  <2>5. FreshIsCurrent'
    BY <2>3 DEF FreshIsCurrent
  <2> QED BY <2>4, <2>5
<1> QED BY <1>3, <1>4, <1>5, <1>6

\* The election (leader.go:115-141) moves the lease and the flags alone.
LEMMA ElectionPreserves ==
  ASSUME IInv, NEW p \in Replicas,
         Acquire(p) \/ OnStoppedLeading(p) \/ LeaseExpires
  PROVE  IInv'
<1> USE DEF IInv
<1>1. /\ apis' = apis /\ job' = job
      /\ UNCHANGED <<served, bundle, router, enabled>>
  BY Zenon DEF Acquire, OnStoppedLeading, LeaseExpires, environment
<1>2. FreshIsCurrent'
  BY <1>1 DEF FreshIsCurrent
<1>3. /\ holder' \in Replicas \cup {None}
      /\ callback' \in [Replicas -> BOOLEAN]
      /\ leading' \in [Replicas -> BOOLEAN]
  BY Zenon DEF Acquire, OnStoppedLeading, LeaseExpires, TypeOK
<1>4. elector' \in [Replicas -> {"contending", "leading", "returned"}]
  BY DEF Acquire, OnStoppedLeading, LeaseExpires, TypeOK
<1>5. budget' \in Bounds
  <2>0. budget \in Bounds
    BY DEF TypeOK
  <2>1. CASE OnStoppedLeading(p)
    <3>1. /\ budget' = [budget EXCEPT !.losses = @ - 1]
          /\ budget.losses > 0
      BY <2>1 DEF OnStoppedLeading
    <3> QED BY <2>0, <3>1 DEF Bounds
  <2>2. CASE Acquire(p) \/ LeaseExpires
    BY <2>0, <2>2 DEF Acquire, LeaseExpires, environment
  <2> QED BY <2>1, <2>2
<1>6. TypeOK'
  BY <1>1, <1>3, <1>4, <1>5, Zenon DEF TypeOK, router
<1> QED BY <1>2, <1>6

\* The reads of reconcile and foreign (apiservices.go:191-231,
\* clusterapis.go:43-73), and the end of a round, change the round's locals
\* alone; listing is what makes copies fresh.
LEMMA ReadPreserves ==
  ASSUME IInv, NEW w \in Workers,
         \/ Begin(w) \/ ReadDiscovery(w) \/ ReadRouting(w) \/ ReadSnapshot(w)
         \/ List(w) \/ Done(w)
  PROVE  IInv'
<1> USE DEF IInv
<1>0. /\ apis' = apis
      /\ UNCHANGED <<environment, router, election>>
  BY Zenon DEF Begin, ReadDiscovery, ReadRouting, ReadSnapshot, List, Done
<1>1. job \in [Workers -> Job] /\ job[w] \in Job
  BY DEF TypeOK
<1>2. SUFFICES /\ job' \in [Workers -> Job]
               /\ FreshIsCurrent'
  BY <1>0, Zenon DEF TypeOK, environment, router, election
<1>3. ASSUME NEW j \in Job, job' = [job EXCEPT ![w] = j],
             \/ j.fresh = {}
             \/ j.fresh = job[w].fresh /\ j.existing = job[w].existing
      PROVE  job' \in [Workers -> Job] /\ FreshIsCurrent'
  <2>1. /\ job' \in [Workers -> Job]
        /\ job'[w] = j
        /\ \A v \in Workers \ {w} : job'[v] = job[v]
    BY <1>1, <1>3, ReplaceJob
  <2> QED BY <1>0, <1>3, <2>1, NoWriteKeepsFresh
<1>4. CASE Begin(w)
  <2> DEFINE j == [Idle EXCEPT !.pc = "foreign", !.bundle = bundle,
                               !.steady = IF started[replica(w)] = "no" THEN served
                                          ELSE served \cap view[replica(w)],
                               !.routed = started[replica(w)] = "routed"]
  <2>1. bundle \in 0..1 /\ served \in SUBSET GroupVersions
    BY DEF TypeOK
  <2>2. j \in Job /\ j.fresh = {}
    BY <2>1, IdleIsAJob DEF Job
  <2>3. \/ job' = [job EXCEPT ![w] = j]
        \/ job' = [job EXCEPT ![w] = Idle]
    BY <1>4 DEF Begin
  <2> HIDE DEF j
  <2> QED BY <1>3, <2>2, <2>3, IdleIsAJob
<1>5. CASE ReadDiscovery(w)
  <2> DEFINE j == [job[w] EXCEPT
                     !.pc = "routing",
                     !.foreign = {gv \in GroupVersions : apis[gv] # None}]
  <2>1. /\ j \in Job
        /\ j.fresh = job[w].fresh /\ j.existing = job[w].existing
    BY <1>1 DEF Job
  <2>2. job' = [job EXCEPT ![w] = j]
    BY <1>5, Zenon DEF ReadDiscovery
  <2> HIDE DEF j
  <2> QED BY <1>3, <2>1, <2>2
<1>6. CASE ReadRouting(w)
  <2> DEFINE j == [job[w] EXCEPT
                     !.pc = "wanted",
                     !.foreign = {gv \in @ : ~ours(apis[gv])}]
  <2>1. /\ j \in Job
        /\ j.fresh = job[w].fresh /\ j.existing = job[w].existing
    BY <1>1 DEF Job
  <2>2. job' = [job EXCEPT ![w] = j]
    BY <1>6, Zenon DEF ReadRouting
  <2> HIDE DEF j
  <2> QED BY <1>3, <2>1, <2>2
<1>7. CASE ReadSnapshot(w)
  <2> DEFINE j == [job[w] EXCEPT
                     !.pc = "list",
                     !.wanted = Snapshot(replica(w)) \ job[w].foreign]
  <2>0. Snapshot(replica(w)) \in SUBSET GroupVersions
    BY DEF Snapshot, replica, Workers, TypeOK
  <2>1. /\ j \in Job
        /\ j.fresh = job[w].fresh /\ j.existing = job[w].existing
    BY <1>1, <2>0 DEF Job
  <2>2. job' = [job EXCEPT ![w] = j]
    BY <1>7, Zenon DEF ReadSnapshot
  <2> HIDE DEF j
  <2> QED BY <1>3, <2>1, <2>2
<1>8. CASE List(w)
  <2> DEFINE present == {gv \in GroupVersions : apis[gv] # None}
             todo == {gv \in present : \/ needsUpdate(job[w], gv, apis[gv])
                                       \/ needsDelete(job[w], gv, apis[gv])}
             missing == job[w].wanted \ present
             j == [job[w] EXCEPT !.pc = "apply", !.existing = apis,
                                 !.fresh = present, !.todo = todo,
                                 !.missing = missing]
  <2>1. job' = [job EXCEPT ![w] = j]
    BY <1>8, Zenon DEF List
  <2>2. /\ present \in SUBSET GroupVersions
        /\ todo \in SUBSET GroupVersions
        /\ missing \in SUBSET GroupVersions
    BY <1>1 DEF Job
  <2>3. apis \in APIServices
    BY DEF TypeOK
  <2>4. \A gv \in present : apis[gv] # None
    OBVIOUS
  <2> HIDE DEF todo, missing, present
  <2>5. j \in Job /\ j.fresh = present /\ j.existing = apis
    BY <1>1, <2>2, <2>3 DEF Job
  <2> HIDE DEF j
  <2>6. /\ job' \in [Workers -> Job]
        /\ job'[w] = j
        /\ \A v \in Workers \ {w} : job'[v] = job[v]
    BY <1>1, <2>1, <2>5, ReplaceJob
  <2> QED BY <1>0, <2>4, <2>5, <2>6 DEF FreshIsCurrent
<1>9. CASE Done(w)
  BY <1>3, <1>9, IdleIsAJob DEF Done
<1> QED BY <1>4, <1>5, <1>6, <1>7, <1>8, <1>9

\* The writes of reconcile (apiservices.go:238-285).  Update and Delete make
\* every listed copy stale; Create only writes where there is nothing, of
\* which no round can hold a fresh copy.
LEMMA WritePreserves ==
  ASSUME IInv, NEW w \in Workers, NEW gv \in GroupVersions,
         Update(w, gv) \/ Delete(w, gv) \/ Create(w, gv)
  PROVE  IInv'
<1> USE DEF IInv
<1>0. UNCHANGED <<environment, router, election>>
  BY Zenon DEF Update, Delete, Create
<1>1. /\ job \in [Workers -> Job]
      /\ job[w] \in Job
      /\ apis \in APIServices
  BY DEF TypeOK
<1>2. SUFFICES /\ apis' \in APIServices
               /\ job' \in [Workers -> Job]
               /\ FreshIsCurrent'
  BY <1>0, Zenon DEF TypeOK, environment, router, election
<1>3. /\ Visited(w, gv) \in [Workers -> Job]
      /\ \A v \in Workers : /\ Visited(w, gv)[v].fresh = job[v].fresh
                            /\ Visited(w, gv)[v].existing = job[v].existing
  BY <1>1, VisitedKeeps
<1>4. ASSUME NEW new \in APIService \cup {None},
             apis' = [apis EXCEPT ![gv] = new],
             job' = Outdated(Visited(w, gv), gv)
      PROVE  /\ apis' \in APIServices
             /\ job' \in [Workers -> Job]
             /\ FreshIsCurrent'
  <2>1. /\ job' \in [Workers -> Job]
        /\ \A v \in Workers : /\ job'[v].fresh = job[v].fresh \ {gv}
                              /\ job'[v].existing = job[v].existing
    BY <1>3, <1>4, OutdatedKeeps
  <2>2. /\ apis' \in APIServices
        /\ \A x \in GroupVersions \ {gv} : apis'[x] = apis[x]
    BY <1>1, <1>4 DEF APIServices
  <2> QED BY <1>1, <2>1, <2>2, WriteKeepsFresh
<1>5. ASSUME job' = Visited(w, gv), apis' = apis
      PROVE  /\ apis' \in APIServices
             /\ job' \in [Workers -> Job]
             /\ FreshIsCurrent'
  BY <1>1, <1>3, <1>5, NoWriteKeepsFresh
<1>6. desired(job[w].bundle) \in APIService
  <2>1. job[w].bundle \in 0..1
    BY <1>1 DEF Job
  <2> QED BY <2>1, DesiredIsAnAPIService
<1>7. CASE Update(w, gv)
  <2>1. \/ /\ apis' = [apis EXCEPT ![gv] = desired(job[w].bundle)]
           /\ job' = Outdated(Visited(w, gv), gv)
        \/ job' = Visited(w, gv) /\ apis' = apis
    BY <1>7, Zenon DEF Update
  <2> QED BY <1>4, <1>5, <1>6, <2>1
<1>8. CASE Delete(w, gv)
  <2>1. /\ apis' = [apis EXCEPT ![gv] = None]
        /\ job' = Outdated(Visited(w, gv), gv)
    BY <1>8, Zenon DEF Delete
  <2> QED BY <1>4, <2>1
<1>9. CASE Create(w, gv)
  <2>1. job' = Visited(w, gv)
    BY <1>9, Zenon DEF Create
  <2>2. CASE apis[gv] # None
    <3>1. apis' = apis
      BY <1>1, <1>9, <2>2 DEF Create, APIServices
    <3> QED BY <1>5, <2>1, <3>1
  <2>3. CASE apis[gv] = None
    <3>1. apis' = [apis EXCEPT ![gv] = desired(job[w].bundle)]
      BY <1>1, <1>9, <2>3 DEF Create, APIServices
    <3>2. /\ apis' \in APIServices
          /\ \A x \in GroupVersions \ {gv} : apis'[x] = apis[x]
      BY <1>1, <1>6, <3>1 DEF APIServices
    <3>3. \A v \in Workers : gv \notin job[v].fresh
      BY <2>3 DEF FreshIsCurrent
    <3>4. \A v \in Workers : /\ job'[v].fresh = job[v].fresh \ {gv}
                             /\ job'[v].existing = job[v].existing
      BY <1>3, <2>1, <3>3
    <3> QED BY <1>1, <1>3, <2>1, <3>2, <3>4, WriteKeepsFresh
  <2> QED BY <2>2, <2>3
<1> QED BY <1>7, <1>8, <1>9

\* The environment: requests that fail, operators, kcp and the CA bundle.
LEMMA EnvironmentPreserves ==
  ASSUME IInv,
         \/ \E w \in Workers : RequestFails(w)
         \/ \E gv \in GroupVersions, new \in Declared : OperatorWrites(gv, new)
         \/ \E gv \in GroupVersions : ServedChanges(gv)
         \/ BundleChanges
  PROVE  IInv'
<1> USE DEF IInv
<1>0. /\ job \in [Workers -> Job]
      /\ apis \in APIServices
      /\ budget \in Bounds
  BY DEF TypeOK
<1>1. UNCHANGED <<router, election>>
  BY Zenon DEF RequestFails, OperatorWrites, ServedChanges, BundleChanges
<1>2. SUFFICES /\ apis' \in APIServices
               /\ served' \in SUBSET GroupVersions
               /\ bundle' \in 0..1
               /\ budget' \in Bounds
               /\ job' \in [Workers -> Job]
               /\ FreshIsCurrent'
  BY <1>1, Zenon DEF TypeOK, router, election
<1>3. ASSUME NEW w \in Workers, RequestFails(w)
      PROVE  <1>2!1
  <2>1. budget' \in Bounds
    BY <1>0, <1>3 DEF RequestFails, Bounds
  <2>2. UNCHANGED <<apis, served, bundle>>
    BY <1>3 DEF RequestFails
  <2>3. /\ job' \in [Workers -> Job]
        /\ \A v \in Workers : \/ job'[v].fresh = {}
                              \/ /\ job'[v].fresh = job[v].fresh
                                 /\ job'[v].existing = job[v].existing
    <3>1. CASE job' = [job EXCEPT ![w] = Idle]
      BY <1>0, <3>1, IdleIsAJob, ReplaceJob
    <3>2. CASE \E gv \in GroupVersions : job' = Visited(w, gv)
      BY <1>0, <3>2, VisitedKeeps
    <3>3. job[w].todo \subseteq GroupVersions /\ job[w].missing \subseteq GroupVersions
      BY <1>0 DEF Job
    <3> QED BY <1>3, <3>1, <3>2, <3>3 DEF RequestFails
  <2>4. FreshIsCurrent'
    BY <2>2, <2>3, NoWriteKeepsFresh
  <2> QED BY <1>0, <2>1, <2>2, <2>3, <2>4 DEF TypeOK
<1>4. ASSUME NEW gv \in GroupVersions, NEW new \in Declared,
             OperatorWrites(gv, new)
      PROVE  <1>2!1
  <2>1. budget' \in Bounds
    BY <1>0, <1>4 DEF OperatorWrites, Bounds
  <2>2. UNCHANGED <<served, bundle>>
    BY <1>4 DEF OperatorWrites
  <2>3. new \in APIService \cup {None}
    BY DEF Declared, APIService
  <2>4. /\ apis' \in APIServices
        /\ \A x \in GroupVersions \ {gv} : apis'[x] = apis[x]
    BY <1>0, <1>4, <2>3 DEF OperatorWrites, APIServices
  <2>5. /\ job' \in [Workers -> Job]
        /\ \A v \in Workers : /\ job'[v].fresh = job[v].fresh \ {gv}
                              /\ job'[v].existing = job[v].existing
    BY <1>0, <1>4, OutdatedKeeps DEF OperatorWrites
  <2>6. FreshIsCurrent'
    BY <1>0, <2>4, <2>5, WriteKeepsFresh
  <2> QED BY <2>1, <2>2, <2>4, <2>5, <2>6 DEF TypeOK
<1>5. ASSUME NEW gv \in GroupVersions, ServedChanges(gv)
      PROVE  <1>2!1
  <2>1. budget' \in Bounds
    BY <1>0, <1>5 DEF ServedChanges, Bounds
  <2>2. UNCHANGED <<apis, bundle>> /\ served' \in SUBSET GroupVersions
    BY <1>5 DEF ServedChanges, TypeOK
  <2>3. \A v \in Workers :
          /\ [job[v] EXCEPT !.steady = @ \ {gv}] \in Job
          /\ [job[v] EXCEPT !.steady = @ \ {gv}].fresh = job[v].fresh
          /\ [job[v] EXCEPT !.steady = @ \ {gv}].existing = job[v].existing
    BY <1>0 DEF Job
  <2>4. /\ job' \in [Workers -> Job]
        /\ \A v \in Workers : /\ job'[v].fresh = job[v].fresh
                              /\ job'[v].existing = job[v].existing
    BY <1>5, <2>3 DEF ServedChanges
  <2>5. FreshIsCurrent'
    BY <2>2, <2>4, NoWriteKeepsFresh
  <2> QED BY <1>0, <2>1, <2>2, <2>4, <2>5 DEF TypeOK
<1>6. CASE BundleChanges
  <2>1. budget' \in Bounds
    BY <1>0, <1>6 DEF BundleChanges, Bounds
  <2>2. bundle \in 0..1
    BY DEF TypeOK
  <2>3. UNCHANGED <<apis, served, job>> /\ bundle' \in 0..1
    BY <1>6, <2>2 DEF BundleChanges
  <2>4. FreshIsCurrent'
    BY <2>3 DEF FreshIsCurrent
  <2> QED BY <1>0, <2>1, <2>3, <2>4 DEF TypeOK
<1> QED BY <1>3, <1>4, <1>5, <1>6

\* Every step preserves the invariant.
LEMMA NextInvariant == IInv /\ [Next]_vars => IInv'
<1> SUFFICES ASSUME IInv, [Next]_vars PROVE IInv'
  OBVIOUS
<1>1. CASE Next
  <2>1. ASSUME NEW p \in Replicas,
               \/ Launch(p) \/ Hook(p) \/ Run(p) \/ Acquire(p)
               \/ OnStartedLeading(p) \/ OnStoppedLeading(p)
        PROVE  IInv'
    BY <2>1, StartPreserves, ElectionPreserves
  <2>2. ASSUME LeaseExpires
        PROVE  IInv'
    <3>1. PICK p \in Replicas : holder = p
      BY <2>2 DEF LeaseExpires, IInv, TypeOK
    <3> QED BY <2>2, <3>1, ElectionPreserves
  <2>3. ASSUME NEW w \in Workers, Reconcile(w)
        PROVE  IInv'
    BY <2>3, ReadPreserves, WritePreserves DEF Reconcile
  <2> QED BY <1>1, <2>1, <2>2, <2>3, EnvironmentPreserves DEF Next
<1>2. CASE UNCHANGED vars
  BY <1>2 DEF vars, environment, router, election, IInv, TypeOK, FreshIsCurrent
<1> QED BY <1>1, <1>2

-----------------------------------------------------------------------------
(* SteadyIsWanted through a step *)

\* A step that leaves the router and kcp alone, and in which a round keeps
\* what it has decided, or rests, or is about to begin.
LEMMA RestKeepsSteady ==
  ASSUME SteadyIsWanted, UNCHANGED <<served, started, view>>,
         \A v \in Workers : \/ Decided(job'[v]) = Decided(job[v])
                            \/ job'[v].pc \in {"idle", "begin"}
  PROVE  SteadyIsWanted'
BY DEF SteadyIsWanted, Decided

\* What starts a round: launch reads the workspace before any of the
\* replica's rounds has seen it routed, and Run takes in what kcp serves.
LEMMA StartKeepsSteady ==
  ASSUME TypeOK, SteadyIsWanted, NEW p \in Replicas,
         Launch(p) \/ Hook(p) \/ Run(p) \/ OnStartedLeading(p)
  PROVE  SteadyIsWanted'
<1>1. /\ job \in [Workers -> Job]
      /\ started \in [Replicas -> {"no", "launched", "routed"}]
      /\ view \in [Replicas -> SUBSET GroupVersions]
  BY DEF TypeOK
<1>2. ASSUME NEW w \in Workers, Starts(w)
      PROVE  /\ job'[w].pc = "begin"
             /\ \A v \in Workers \ {w} : job'[v] = job[v]
  <2>1. job[w] \in Job
    BY <1>1
  <2>2. [job[w] EXCEPT !.pc = "begin"].pc = "begin"
    BY <2>1 DEF Job
  <2>3. job' = [job EXCEPT ![w] = [job[w] EXCEPT !.pc = "begin"]]
    BY <1>2, Zenon DEF Starts
  <2> QED BY <1>1, <2>2, <2>3
<1>3. /\ <<p, "hook">> \in Workers /\ <<p, "run">> \in Workers
      /\ <<p, "elected">> \in Workers
      /\ \A w \in Workers : replica(w) \in Replicas
  BY DEF Workers, Kinds, replica
<1>4. CASE Launch(p)
  <2>1. /\ started[p] = "no" /\ job' = job /\ served' = served
        /\ \A q \in Replicas \ {p} : started'[q] = started[q] /\ view'[q] = view[q]
    BY <1>1, <1>4 DEF Launch, environment
  <2> QED BY <1>3, <2>1 DEF SteadyIsWanted
<1>5. CASE Hook(p)
  <2>1. /\ Starts(<<p, "hook">>) /\ UNCHANGED <<served, view>>
        /\ started'[p] = "routed"
        /\ \A q \in Replicas \ {p} : started'[q] = started[q]
    BY <1>1, <1>5 DEF Hook, environment
  <2> QED BY <1>2, <1>3, <2>1 DEF SteadyIsWanted
<1>6. CASE Run(p)
  <2>1. /\ Starts(<<p, "run">>) /\ UNCHANGED <<served, started>>
        /\ view'[p] = served
        /\ \A q \in Replicas \ {p} : view'[q] = view[q]
    BY <1>1, <1>6 DEF Run, environment
  <2> QED BY <1>2, <1>3, <2>1 DEF SteadyIsWanted
<1>7. CASE OnStartedLeading(p)
  <2>1. Starts(<<p, "elected">>) /\ UNCHANGED <<served, started, view>>
    BY <1>7 DEF OnStartedLeading, environment, router
  <2> QED BY <1>2, <1>3, <2>1 DEF SteadyIsWanted
<1> QED BY <1>4, <1>5, <1>6, <1>7

\* reconcile: a round that begins has seen what the router holds, and the
\* snapshot it reads afterwards is still that or newer.
LEMMA ReconcileKeepsSteady ==
  ASSUME TypeOK, SteadyIsWanted, NEW w \in Workers, Reconcile(w)
  PROVE  SteadyIsWanted'
<1>0. job \in [Workers -> Job] /\ job[w] \in Job
  BY DEF TypeOK
<1>1. UNCHANGED <<served, started, view>>
  BY DEF Reconcile, Begin, ReadDiscovery, ReadRouting, ReadSnapshot, List,
         Update, Delete, Create, Done, environment, router
<1>2. ASSUME NEW j \in Job, job' = [job EXCEPT ![w] = j],
             j.routed =>
               /\ j.pc \in {"foreign", "routing", "wanted"} =>
                    /\ started[replica(w)] = "routed"
                    /\ j.steady \subseteq served \cap view[replica(w)]
               /\ j.pc \in {"list", "apply"} =>
                    j.steady \ j.foreign \subseteq j.wanted
      PROVE  SteadyIsWanted'
  <2>1. job'[w] = j /\ \A v \in Workers \ {w} : job'[v] = job[v]
    BY <1>0, <1>2, ReplaceJob
  <2> QED BY <1>1, <1>2, <2>1 DEF SteadyIsWanted
<1>3. Idle \in Job /\ ~Idle.routed
  BY IdleIsAJob DEF Idle
<1>4. CASE Begin(w)
  <2> DEFINE j == [Idle EXCEPT !.pc = "foreign", !.bundle = bundle,
                               !.steady = IF started[replica(w)] = "no" THEN served
                                          ELSE served \cap view[replica(w)],
                               !.routed = started[replica(w)] = "routed"]
  <2>1. bundle \in 0..1 /\ served \in SUBSET GroupVersions
    BY DEF TypeOK
  <2>2. j \in Job
    BY <2>1, <1>3 DEF Job
  <2>3. /\ j.pc = "foreign"
        /\ j.routed => /\ started[replica(w)] = "routed"
                       /\ j.steady = served \cap view[replica(w)]
    BY DEF Idle
  <2>4. \/ job' = [job EXCEPT ![w] = j]
        \/ job' = [job EXCEPT ![w] = Idle]
    BY <1>4 DEF Begin
  <2> HIDE DEF j
  <2> QED BY <1>2, <1>3, <2>2, <2>3, <2>4
<1>5. CASE ReadDiscovery(w)
  <2> DEFINE j == [job[w] EXCEPT
                     !.pc = "routing",
                     !.foreign = {gv \in GroupVersions : apis[gv] # None}]
  <2>1. /\ j \in Job /\ j.pc = "routing"
        /\ j.routed = job[w].routed /\ j.steady = job[w].steady
    BY <1>0 DEF Job
  <2>2. job' = [job EXCEPT ![w] = j] /\ job[w].pc = "foreign"
    BY <1>5, Zenon DEF ReadDiscovery
  <2> HIDE DEF j
  <2> QED BY <1>2, <2>1, <2>2 DEF SteadyIsWanted
<1>6. CASE ReadRouting(w)
  <2> DEFINE j == [job[w] EXCEPT
                     !.pc = "wanted",
                     !.foreign = {gv \in @ : ~ours(apis[gv])}]
  <2>1. /\ j \in Job /\ j.pc = "wanted"
        /\ j.routed = job[w].routed /\ j.steady = job[w].steady
    BY <1>0 DEF Job
  <2>2. job' = [job EXCEPT ![w] = j] /\ job[w].pc = "routing"
    BY <1>6, Zenon DEF ReadRouting
  <2> HIDE DEF j
  <2> QED BY <1>2, <2>1, <2>2 DEF SteadyIsWanted
<1>7. CASE ReadSnapshot(w)
  <2> DEFINE j == [job[w] EXCEPT
                     !.pc = "list",
                     !.wanted = Snapshot(replica(w)) \ job[w].foreign]
  <2>0. Snapshot(replica(w)) \in SUBSET GroupVersions
    BY DEF Snapshot, replica, Workers, TypeOK
  <2>1. /\ j \in Job /\ j.pc = "list"
        /\ j.routed = job[w].routed /\ j.steady = job[w].steady
        /\ j.foreign = job[w].foreign
        /\ j.wanted = Snapshot(replica(w)) \ job[w].foreign
    BY <1>0, <2>0 DEF Job
  <2>2. job' = [job EXCEPT ![w] = j] /\ job[w].pc = "wanted"
    BY <1>7, Zenon DEF ReadSnapshot
  <2> HIDE DEF j
  <2>3. job[w].routed =>
          /\ started[replica(w)] = "routed"
          /\ job[w].steady \subseteq view[replica(w)]
    BY <2>2 DEF SteadyIsWanted
  <2>4. j.routed => j.steady \ j.foreign \subseteq j.wanted
    BY <2>1, <2>3 DEF Snapshot
  <2> QED BY <1>2, <2>1, <2>2, <2>4
<1>8. CASE List(w)
  <2> DEFINE present == {gv \in GroupVersions : apis[gv] # None}
             todo == {gv \in present : \/ needsUpdate(job[w], gv, apis[gv])
                                       \/ needsDelete(job[w], gv, apis[gv])}
             missing == job[w].wanted \ present
             j == [job[w] EXCEPT !.pc = "apply", !.existing = apis,
                                 !.fresh = present, !.todo = todo,
                                 !.missing = missing]
  <2>1. job' = [job EXCEPT ![w] = j] /\ job[w].pc = "list"
    BY <1>8, Zenon DEF List
  <2>2. /\ present \in SUBSET GroupVersions
        /\ todo \in SUBSET GroupVersions
        /\ missing \in SUBSET GroupVersions
    BY <1>0 DEF Job
  <2>3. apis \in APIServices
    BY DEF TypeOK
  <2> HIDE DEF todo, missing, present
  <2>4. /\ j \in Job /\ j.pc = "apply"
        /\ j.routed = job[w].routed /\ j.steady = job[w].steady
        /\ j.foreign = job[w].foreign /\ j.wanted = job[w].wanted
    BY <1>0, <2>2, <2>3 DEF Job
  <2> HIDE DEF j
  <2> QED BY <1>2, <2>1, <2>4 DEF SteadyIsWanted
<1>9. CASE Done(w)
  BY <1>2, <1>3, <1>9 DEF Done
<1>10. ASSUME NEW gv \in GroupVersions,
              Update(w, gv) \/ Delete(w, gv) \/ Create(w, gv)
       PROVE  SteadyIsWanted'
  <2>1. /\ Visited(w, gv) \in [Workers -> Job]
        /\ \A v \in Workers : Decided(Visited(w, gv)[v]) = Decided(job[v])
    BY <1>0, VisitedKeeps
  <2>2. \A v \in Workers :
          Decided(Outdated(Visited(w, gv), gv)[v]) = Decided(job[v])
    BY <2>1, OutdatedKeeps
  <2>3. job' = Visited(w, gv) \/ job' = Outdated(Visited(w, gv), gv)
    BY <1>10, Zenon DEF Update, Delete, Create
  <2> QED BY <1>1, <2>1, <2>2, <2>3, RestKeepsSteady
<1> QED BY <1>4, <1>5, <1>6, <1>7, <1>8, <1>9, <1>10 DEF Reconcile

\* The environment: kcp may stop serving a group version, which a round then
\* no longer has to spare.
LEMMA EnvironmentKeepsSteady ==
  ASSUME TypeOK, SteadyIsWanted,
         \/ \E w \in Workers : RequestFails(w)
         \/ \E gv \in GroupVersions, new \in Declared : OperatorWrites(gv, new)
         \/ \E gv \in GroupVersions : ServedChanges(gv)
         \/ BundleChanges
  PROVE  SteadyIsWanted'
<1>0. job \in [Workers -> Job]
  BY DEF TypeOK
<1>1. ASSUME NEW w \in Workers, RequestFails(w)
      PROVE  SteadyIsWanted'
  <2>1. UNCHANGED <<served, started, view>>
    BY <1>1 DEF RequestFails, router
  <2>2. CASE job' = [job EXCEPT ![w] = Idle]
    <3>1. Idle.pc = "idle"
      BY DEF Idle
    <3>2. job'[w] = Idle /\ \A v \in Workers \ {w} : job'[v] = job[v]
      BY <1>0, <2>2, IdleIsAJob, ReplaceJob
    <3> QED BY <2>1, <3>1, <3>2, RestKeepsSteady
  <2>3. CASE \E gv \in GroupVersions : job' = Visited(w, gv)
    BY <1>0, <2>1, <2>3, VisitedKeeps, RestKeepsSteady
  <2>4. job[w].todo \subseteq GroupVersions /\ job[w].missing \subseteq GroupVersions
    BY <1>0 DEF Job
  <2> QED BY <1>1, <2>2, <2>3, <2>4 DEF RequestFails
<1>2. ASSUME NEW gv \in GroupVersions, NEW new \in Declared,
             OperatorWrites(gv, new)
      PROVE  SteadyIsWanted'
  BY <1>0, <1>2, OutdatedKeeps, RestKeepsSteady DEF OperatorWrites, router
<1>3. ASSUME NEW gv \in GroupVersions, ServedChanges(gv)
      PROVE  SteadyIsWanted'
  <2>1. /\ served \ {gv} \subseteq served'
        /\ UNCHANGED <<started, view>>
        /\ job' = [v \in Workers |-> [job[v] EXCEPT !.steady = @ \ {gv}]]
    BY <1>3 DEF ServedChanges, router
  <2>2. \A v \in Workers :
          LET j == [job[v] EXCEPT !.steady = @ \ {gv}]
          IN /\ j.pc = job[v].pc /\ j.routed = job[v].routed
             /\ j.foreign = job[v].foreign /\ j.wanted = job[v].wanted
             /\ j.steady = job[v].steady \ {gv}
    BY <1>0 DEF Job
  <2>3. \A v \in Workers :
          /\ job'[v].pc = job[v].pc /\ job'[v].routed = job[v].routed
          /\ job'[v].foreign = job[v].foreign /\ job'[v].wanted = job[v].wanted
          /\ job'[v].steady = job[v].steady \ {gv}
    BY <2>1, <2>2
  <2> QED BY <2>1, <2>3 DEF SteadyIsWanted
<1>4. CASE BundleChanges
  BY <1>4, RestKeepsSteady DEF BundleChanges, router
<1> QED BY <1>1, <1>2, <1>3, <1>4

\* Every step preserves it.
LEMMA NextKeepsSteady ==
  TypeOK /\ SteadyIsWanted /\ [Next]_vars => SteadyIsWanted'
<1> SUFFICES ASSUME TypeOK, SteadyIsWanted, [Next]_vars PROVE SteadyIsWanted'
  OBVIOUS
<1>1. CASE Next
  <2>1. ASSUME NEW p \in Replicas,
               Launch(p) \/ Hook(p) \/ Run(p) \/ OnStartedLeading(p)
        PROVE  SteadyIsWanted'
    BY <2>1, StartKeepsSteady
  <2>2. ASSUME NEW p \in Replicas,
               Acquire(p) \/ OnStoppedLeading(p) \/ LeaseExpires
        PROVE  SteadyIsWanted'
    BY <2>2, RestKeepsSteady
    DEF Acquire, OnStoppedLeading, LeaseExpires, environment, router
  <2>3. CASE LeaseExpires
    BY <2>3, RestKeepsSteady DEF LeaseExpires, environment, router
  <2> QED BY <1>1, <2>1, <2>2, <2>3, ReconcileKeepsSteady,
             EnvironmentKeepsSteady DEF Next
<1>2. CASE UNCHANGED vars
  BY <1>2, RestKeepsSteady DEF vars, environment, router
<1> QED BY <1>1, <1>2

-----------------------------------------------------------------------------
\* The inductive invariant holds in every state a replica set can reach.
THEOREM Invariance == Spec => []IInv
BY InitInvariant, NextInvariant, PTL DEF Spec

\* Registrar is well typed for every set of replicas and group versions.
THEOREM TypeCorrect == Spec => []TypeOK
<1>1. IInv => TypeOK
  BY DEF IInv
<1> QED BY <1>1, Invariance, PTL

\* An update of reconcile (apiservices.go:252) lands only on an APIService
\* that carries spillway's label at that moment, whatever operators and other
\* rounds have written since it was listed.
THEOREM UpdatesOnlyManagedHolds == Spec => UpdatesOnlyManaged
<1>1. IInv /\ [Next]_vars =>
        [\A w \in Workers, gv \in GroupVersions :
           Update(w, gv) /\ apis'[gv] # apis[gv] =>
             apis[gv] # None /\ apis[gv].managed]_vars
  <2> SUFFICES ASSUME IInv, NEW w \in Workers, NEW gv \in GroupVersions,
                      Update(w, gv), apis'[gv] # apis[gv]
               PROVE  apis[gv] # None /\ apis[gv].managed
    OBVIOUS
  <2>1. gv \in job[w].fresh /\ job[w].existing[gv].managed
    BY Zenon DEF Update, needsUpdate
  <2>2. job[w].existing[gv] = apis[gv] /\ apis[gv] # None
    BY <2>1 DEF IInv, FreshIsCurrent
  <2> QED BY <2>1, <2>2
<1> QED BY <1>1, Invariance, PTL DEF Spec, UpdatesOnlyManaged

\* A round of reconcile (apiservices.go:191-287) that began after
\* router.replace (workspacemanager.go:74) withdraws no APIService of a group
\* version the workspace has served ever since, unless it takes it for the
\* cluster's own; nor with any number of replicas, lost leases or operators.
THEOREM RoutedIsNotWithdrawnHolds == Spec => RoutedIsNotWithdrawn
<1>1. Init => SteadyIsWanted
  BY DEF Init, SteadyIsWanted, Idle
<1>2. SteadyIsWanted /\ [Next]_vars =>
        [\A w \in Workers, gv \in GroupVersions :
           Delete(w, gv) /\ job[w].routed => Spares(w, gv)]_vars
  <2> SUFFICES ASSUME SteadyIsWanted, NEW w \in Workers, NEW gv \in GroupVersions,
                      Delete(w, gv), job[w].routed
               PROVE  Spares(w, gv)
    OBVIOUS
  <2>1. job[w].pc = "apply" /\ gv \notin job[w].wanted
    BY Zenon DEF Delete, needsDelete
  <2> QED BY <2>1 DEF SteadyIsWanted, Spares
<1> QED BY <1>1, <1>2, NextKeepsSteady, TypeCorrect, PTL
    DEF Spec, RoutedIsNotWithdrawn
=============================================================================
