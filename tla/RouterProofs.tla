---------------------------- MODULE RouterProofs ----------------------------
(***************************************************************************)
(* For any number of workspaces, readers, refreshes and replacements:      *)
(* router.current never returns a set of workspaces older than the one     *)
(* that was in place when it was called, and the merge it caches never     *)
(* goes back.  For any number of workspaces, readers and refreshes of a    *)
(* set that is installed once: what it returns is as new as what every     *)
(* workspace had announced when it was called.                             *)
(*                                                                         *)
(* The argument is the order of the loads and stores.  replace stores the  *)
(* set before it counts the replacement; current loads the count before it *)
(* loads the set it merges.  So every merge, finished or being built, is   *)
(* of a set at least as new as the revision in its label (Labelled), and   *)
(* a reader's label is at least as new as its call (Ordered).              *)
(***************************************************************************)
EXTENDS Router, WellFoundedInduction, TLAPS

\* A snapshot is one refresh ahead of its generation while it is being
\* announced, and workspaces in the router have been read.
Versions ==
  /\ \A w \in Workspaces :
       /\ w \notin storing => snapshot[w].version = generation[w]
       /\ w \in storing => /\ snapshot[w].version = generation[w] + 1
                           /\ 1 <= generation[w]
                           /\ generation[w] < MaxGeneration
  /\ \A w \in Members(workspaces) : 1 <= generation[w]

Ordered ==
  \A r \in Readers :
    /\ begin[r].revision <= revision
    /\ label[r].revision <= revision
    /\ pc[r] \in {"check", "lock", "list", "merge", "done"} =>
         begin[r].revision <= label[r].revision

Labelled ==
  /\ merged # None => merged.revision <= merged.set
  /\ \A r \in Readers :
       /\ pc[r] \in {"list", "merge", "done"} =>
            view[r].revision = label[r].revision
       /\ pc[r] \in {"merge", "done"} => view[r].revision <= view[r].set

IInv == TypeOK /\ Versions /\ Ordered /\ Labelled

\* The bounds as the arithmetic below needs them.
LEMMA Bounds == MaxGeneration \in Nat /\ 1 <= MaxGeneration /\ None \notin Workspaces
  BY RouterAssumption

\* None is no reader and no merge.
LEMMA NoneIsNothing == None \notin Readers /\ None \notin Views
  BY RouterAssumption

\* The members of a sequence of workspaces are workspaces.
LEMMA MembersAreWorkspaces ==
  ASSUME NEW seq \in Seq(Workspaces)
  PROVE  Members(seq) \subseteq Workspaces
  BY DEF Members

\* A router without workspaces and without readers satisfies the invariant.
LEMMA InitInvariant == Init => IInv
<1> SUFFICES ASSUME Init PROVE IInv
  OBVIOUS
<1> USE Bounds DEF Init
<1>1. NothingSeen \in [Workspaces -> Snapshots]
  BY DEF NothingSeen, Snapshots
<1>2. EmptyView \in Views
  BY <1>1 DEF EmptyView, Views
<1>3. NoLabel \in Labels
  BY DEF NoLabel, Labels
<1>4. NothingPublished \in [revision : Nat,
                            generation : [Workspaces -> 0..MaxGeneration]]
  BY DEF NothingPublished
<1>5. /\ snapshot \in [Workspaces -> Snapshots]
      /\ generation \in [Workspaces -> 0..MaxGeneration]
      /\ storing \in SUBSET Workspaces
      /\ workspaces \in Seq(Workspaces)
      /\ revision \in Nat
  BY <1>1
<1>6. /\ merged \in Views \cup {None}
      /\ mu \in Readers \cup {None}
      /\ pc \in [Readers -> {"idle", "sum", "check", "lock", "list",
                             "merge", "done"}]
      /\ list \in [Readers -> Seq(Workspaces)]
      /\ next \in [Readers -> Nat \ {0}]
      /\ label \in [Readers -> Labels]
      /\ view \in [Readers -> Views]
  BY <1>2, <1>3
<1>7. /\ begin \in [Readers -> [revision : Nat,
                                generation : [Workspaces -> 0..MaxGeneration]]]
      /\ steady \in [Readers -> SUBSET (Workspaces \X Groups)]
  BY <1>4
<1>8. TypeOK
  BY <1>5, <1>6, <1>7 DEF TypeOK
<1>9. Versions
  BY DEF Versions, NothingSeen, Members
<1>10. Ordered
  BY DEF Ordered, NothingPublished, NoLabel
<1>11. Labelled
  BY DEF Labelled
<1> QED BY <1>8, <1>9, <1>10, <1>11 DEF IInv

\* ResourceCache.refresh (discovery.go:184-186) preserves the invariant.
LEMMA RefreshPreserves ==
  ASSUME IInv,
         \/ \E w \in Workspaces, groups \in SUBSET Groups :
              StoreSnapshot(w, groups)
         \/ \E w \in Workspaces : AddGeneration(w)
  PROVE  IInv'
<1> USE Bounds DEF IInv
<1>1. ASSUME NEW w \in Workspaces, NEW groups \in SUBSET Groups,
             StoreSnapshot(w, groups)
      PROVE  IInv'
  <2> USE <1>1 DEF StoreSnapshot, routes, reader
  <2>1. w \notin storing /\ generation[w] < MaxGeneration /\ 1 <= generation[w]
    BY DEF Versions
  <2>2. snapshot[w].version + 1 \in 0..MaxGeneration
    BY <2>1 DEF Versions, TypeOK
  <2>3. snapshot' \in [Workspaces -> Snapshots]
    BY <2>2 DEF TypeOK, Snapshots
  <2>4. steady' \in [Readers -> SUBSET (Workspaces \X Groups)]
    BY DEF TypeOK
  <2>5. TypeOK'
    BY <2>3, <2>4 DEF TypeOK
  <2>6. Versions'
    BY <2>1 DEF Versions, TypeOK, Snapshots
  <2>7. Ordered' /\ Labelled'
    BY DEF Ordered, Labelled
  <2> QED BY <2>5, <2>6, <2>7
<1>2. ASSUME NEW w \in Workspaces, AddGeneration(w)
      PROVE  IInv'
  <2> USE <1>2 DEF AddGeneration, routes, reader, history
  <2>1. generation[w] + 1 \in 0..MaxGeneration
    BY DEF Versions, TypeOK
  <2>2. TypeOK'
    BY <2>1 DEF TypeOK
  <2>3. Versions'
    BY <2>1 DEF Versions, TypeOK
  <2>4. Ordered' /\ Labelled'
    BY DEF Ordered, Labelled
  <2> QED BY <2>2, <2>3, <2>4
<1> QED BY <1>1, <1>2

\* router.replace (router.go:78-84) preserves the invariant.
LEMMA ReplacePreserves ==
  ASSUME IInv,
         \/ \E set \in Configurations, groups \in SUBSET Groups :
              StoreWorkspaces(set, groups)
         \/ AddRevision
  PROVE  IInv'
<1> USE Bounds DEF IInv
<1>1. ASSUME NEW set \in Configurations, NEW groups \in SUBSET Groups,
             StoreWorkspaces(set, groups)
      PROVE  IInv'
  <2> USE <1>1 DEF StoreWorkspaces, reader, history
  <2>1. set \in Seq(Workspaces)
    BY RouterAssumption
  <2>2. /\ snapshot' \in [Workspaces -> Snapshots]
        /\ generation' \in [Workspaces -> 0..MaxGeneration]
    BY DEF TypeOK, Snapshots
  <2>3. replacing' \in BOOLEAN
    OBVIOUS
  <2>4. TypeOK'
    BY <2>1, <2>2, <2>3 DEF TypeOK
  <2>5. \A w \in Workspaces : generation[w] = 0 => w \notin storing
    BY DEF Versions
  <2>6. \A w \in Workspaces :
          /\ w \notin storing' => snapshot'[w].version = generation'[w]
          /\ w \in storing' => /\ snapshot'[w].version = generation'[w] + 1
                               /\ 1 <= generation'[w]
                               /\ generation'[w] < MaxGeneration
    BY <2>5 DEF Versions, TypeOK, Snapshots
  <2>7. \A w \in Members(workspaces') : 1 <= generation'[w]
    BY <2>1, MembersAreWorkspaces DEF Versions, TypeOK
  <2>8. Versions'
    BY <2>6, <2>7 DEF Versions, Members
  <2>9. Ordered' /\ Labelled'
    BY DEF Ordered, Labelled
  <2> QED BY <2>4, <2>8, <2>9
<1>2. CASE AddRevision
  <2> USE <1>2 DEF AddRevision, caches, reader, history
  <2>1. TypeOK'
    <3>1. revision' \in Nat
      BY DEF TypeOK
    <3>2. replacing' \in BOOLEAN
      OBVIOUS
    <3> QED BY <3>1, <3>2 DEF TypeOK
  <2>2. Versions'
    BY DEF Versions, Members
  <2>3. Ordered'
    <3>1. \A r \in Readers : /\ begin[r].revision \in Nat
                             /\ label[r].revision \in Nat
      BY DEF TypeOK, Labels
    <3> QED BY <3>1 DEF Ordered, TypeOK
  <2>4. Labelled'
    BY DEF Labelled
  <2> QED BY <2>1, <2>2, <2>3, <2>4
<1> QED BY <1>1, <1>2

\* router.current up to its unlocked check (router.go:191-195) preserves the
\* invariant: the label's revision is loaded after the call began.
LEMMA LabelPreserves ==
  ASSUME IInv, NEW r \in Readers,
         Call(r) \/ SumOne(r) \/ LoadRevision(r) \/ FastPath(r)
  PROVE  IInv'
<1> USE Bounds DEF IInv, Goto, RangeOver, caches, routes
<1>1. CASE Call(r)
  <2> USE <1>1 DEF Call
  <2>1. /\ pc' \in [Readers -> {"idle", "sum", "check", "lock", "list",
                                "merge", "done"}]
        /\ list' \in [Readers -> Seq(Workspaces)]
        /\ next' \in [Readers -> Nat \ {0}]
    BY DEF TypeOK
  <2>2. NothingPublished.generation \in [Workspaces -> 0..MaxGeneration]
    BY DEF NothingPublished
  <2>3. begin' \in [Readers -> [revision : Nat,
                       generation : [Workspaces -> 0..MaxGeneration]]]
    BY <2>2 DEF TypeOK
  <2>4. steady' \in [Readers -> SUBSET (Workspaces \X Groups)]
    BY DEF TypeOK
  <2>5. TypeOK'
    BY <2>1, <2>3, <2>4 DEF TypeOK
  <2>6. Versions'
    BY DEF Versions, Members
  <2>7. Ordered'
    BY DEF Ordered, TypeOK
  <2>8. Labelled'
    BY DEF Labelled, TypeOK
  <2> QED BY <2>5, <2>6, <2>7, <2>8
<1>2. CASE SumOne(r)
  <2> USE <1>2 DEF SumOne, history
  <2>1. list[r][next[r]] \in Workspaces
    BY DEF TypeOK
  <2>2. generation[list[r][next[r]]] \in Nat
    BY <2>1 DEF TypeOK
  <2> DEFINE sum == label[r].generation + generation[list[r][next[r]]]
  <2>a. label[r] \in Labels /\ sum \in Nat
    <3>1. label[r] \in Labels
      BY DEF TypeOK
    <3>2. label[r].generation \in Nat
      BY <3>1 DEF Labels
    <3> QED BY <2>2, <3>1, <3>2
  <2>b. label' = [label EXCEPT ![r] = [label[r] EXCEPT !.generation = sum]]
    BY DEF TypeOK
  <2> HIDE DEF sum
  <2>c. [label[r] EXCEPT !.generation = sum] \in Labels
    BY <2>a DEF Labels
  <2>3. label' \in [Readers -> Labels]
    BY <2>b, <2>c DEF TypeOK
  <2>4. next' \in [Readers -> Nat \ {0}]
    BY DEF TypeOK
  <2>5. TypeOK'
    BY <2>3, <2>4 DEF TypeOK
  <2>6. \A s \in Readers : label'[s].revision = label[s].revision
    BY <2>a, <2>b DEF TypeOK, Labels
  <2>7. Versions'
    BY DEF Versions, Members
  <2>8. Ordered' /\ Labelled'
    BY <2>6 DEF Ordered, Labelled
  <2> QED BY <2>5, <2>7, <2>8
<1>3. CASE LoadRevision(r)
  <2> USE <1>3 DEF LoadRevision, history
  <2>1. /\ label' \in [Readers -> Labels]
        /\ label'[r].revision = revision
        /\ \A s \in Readers \ {r} : label'[s] = label[s]
    BY DEF TypeOK, Labels
  <2>2. /\ pc' \in [Readers -> {"idle", "sum", "check", "lock", "list",
                                "merge", "done"}]
        /\ list' \in [Readers -> Seq(Workspaces)]
        /\ next' \in [Readers -> Nat \ {0}]
    BY DEF TypeOK
  <2>3. TypeOK'
    BY <2>1, <2>2 DEF TypeOK
  <2>4. Versions'
    BY DEF Versions, Members
  <2>5. Ordered'
    BY <2>1 DEF Ordered, TypeOK
  <2>6. Labelled'
    BY <2>1 DEF Labelled, TypeOK
  <2> QED BY <2>3, <2>4, <2>5, <2>6
<1>4. CASE FastPath(r)
  <2> USE <1>4 DEF FastPath, history
  <2>1. CASE labelled(merged, label[r])
    <3>1. /\ merged \in Views
          /\ merged.revision = label[r].revision
          /\ merged.revision <= merged.set
      BY <2>1 DEF labelled, TypeOK, Labelled
    <3>2. /\ pc' = [pc EXCEPT ![r] = "done"]
          /\ view' = [view EXCEPT ![r] = merged]
      BY <2>1
    <3>3. TypeOK'
      BY <3>1, <3>2 DEF TypeOK
    <3>4. Ordered' /\ Labelled'
      BY <3>1, <3>2 DEF Ordered, Labelled, TypeOK
    <3> QED BY <3>3, <3>4 DEF Versions, Members
  <2>2. CASE ~labelled(merged, label[r])
    <3>1. pc' = [pc EXCEPT ![r] = "lock"] /\ UNCHANGED view
      BY <2>2
    <3>2. TypeOK'
      BY <3>1 DEF TypeOK
    <3>3. Ordered' /\ Labelled'
      BY <3>1 DEF Ordered, Labelled, TypeOK
    <3> QED BY <3>2, <3>3 DEF Versions, Members
  <2> QED BY <2>1, <2>2
<1> QED BY <1>1, <1>2, <1>3, <1>4

\* The rest of router.current (router.go:197-238) preserves the invariant:
\* the set that is merged is loaded after the label's revision.
LEMMA MergePreserves ==
  ASSUME IInv, NEW r \in Readers,
         \/ Lock(r) \/ StartMerge(r) \/ MergeOne(r) \/ StoreMerged(r)
         \/ Return(r)
  PROVE  IInv'
<1> USE Bounds DEF IInv, Goto, RangeOver, caches, routes
<1>0. EmptyView \in Views
  BY DEF EmptyView, Views, NothingSeen, Snapshots
<1>1. CASE Lock(r)
  <2> USE <1>1 DEF Lock, history
  <2>1. CASE labelled(merged, label[r])
    <3>1. /\ merged \in Views
          /\ merged.revision = label[r].revision
          /\ merged.revision <= merged.set
      BY <2>1 DEF labelled, TypeOK, Labelled
    <3>2. /\ pc' = [pc EXCEPT ![r] = "done"]
          /\ view' = [view EXCEPT ![r] = merged]
          /\ UNCHANGED mu
      BY <2>1
    <3>3. TypeOK'
      BY <3>1, <3>2 DEF TypeOK
    <3>4. Ordered' /\ Labelled'
      BY <3>1, <3>2 DEF Ordered, Labelled, TypeOK
    <3> QED BY <3>3, <3>4 DEF Versions, Members
  <2>2. CASE ~labelled(merged, label[r])
    <3> DEFINE start == [EmptyView EXCEPT !.generation = label[r].generation,
                                          !.revision = label[r].revision]
    <3>1. /\ pc' = [pc EXCEPT ![r] = "list"]
          /\ view' = [view EXCEPT ![r] = start]
          /\ mu' = r
      BY <2>2
    <3>2. label[r].generation \in Nat /\ label[r].revision \in Nat
      BY DEF TypeOK, Labels
    <3>3. start \in Views /\ start.revision = label[r].revision
      BY <1>0, <3>2 DEF Views
    <3> HIDE DEF start
    <3>4. TypeOK'
      BY <3>1, <3>3 DEF TypeOK
    <3>5. Ordered' /\ Labelled'
      BY <3>1, <3>3 DEF Ordered, Labelled, TypeOK
    <3> QED BY <3>4, <3>5 DEF Versions, Members
  <2> QED BY <2>1, <2>2
<1>2. CASE StartMerge(r)
  <2> USE <1>2 DEF StartMerge, history
  <2> DEFINE set == IF replacing THEN revision + 1 ELSE revision
  <2>1. set \in Nat /\ revision <= set
    BY DEF TypeOK
  <2> HIDE DEF set
  <2>a. view' = [view EXCEPT ![r] = [view[r] EXCEPT !.set = set]]
    BY DEF TypeOK, set
  <2>b. /\ [view[r] EXCEPT !.set = set] \in Views
        /\ [view[r] EXCEPT !.set = set].set = set
        /\ [view[r] EXCEPT !.set = set].revision = view[r].revision
    <3>1. view[r] \in Views
      BY DEF TypeOK
    <3> QED BY <2>1, <3>1 DEF Views
  <2>2. /\ view' \in [Readers -> Views]
        /\ view'[r].set = set
        /\ view'[r].revision = view[r].revision
        /\ \A s \in Readers \ {r} : view'[s] = view[s]
    BY <2>a, <2>b DEF TypeOK
  <2>3. /\ pc' \in [Readers -> {"idle", "sum", "check", "lock", "list",
                                "merge", "done"}]
        /\ list' \in [Readers -> Seq(Workspaces)]
        /\ next' \in [Readers -> Nat \ {0}]
    BY DEF TypeOK
  <2>4. TypeOK'
    BY <2>2, <2>3 DEF TypeOK
  <2>5. Ordered'
    BY DEF Ordered, TypeOK
  <2>6. view'[r].revision <= view'[r].set
    <3>1. view[r].revision = label[r].revision /\ label[r].revision <= revision
      BY DEF Labelled, Ordered
    <3>2. label[r].revision \in Nat /\ revision \in Nat
      BY DEF TypeOK, Labels
    <3> QED BY <2>1, <2>2, <3>1, <3>2
  <2>7. Labelled'
    BY <2>2, <2>6 DEF Labelled, TypeOK
  <2> QED BY <2>4, <2>5, <2>7 DEF Versions, Members
<1>3. CASE MergeOne(r)
  <2> USE <1>3 DEF MergeOne, history
  <2>1. list[r][next[r]] \in Workspaces
    BY DEF TypeOK
  <2> DEFINE w == list[r][next[r]]
             owners == [g \in Groups |->
                          IF view[r].owners[g] = None
                               /\ g \in snapshot[w].groups
                          THEN w ELSE view[r].owners[g]]
             seen == [view[r].seen EXCEPT ![w] = snapshot[w]]
  <2>2. view' = [view EXCEPT ![r] =
                   [view[r] EXCEPT !.seen = seen, !.owners = owners]]
    BY Zenon DEF TypeOK
  <2>3. view[r] \in Views /\ snapshot[w] \in Snapshots
    BY <2>1 DEF TypeOK
  <2>4. seen \in [Workspaces -> Snapshots]
    BY <2>1, <2>3 DEF Views
  <2>5. owners \in [Groups -> Workspaces \cup {None}]
    BY <2>1, <2>3 DEF Views
  <2> HIDE DEF w, seen, owners
  <2>6. /\ view' \in [Readers -> Views]
        /\ \A s \in Readers : /\ view'[s].revision = view[s].revision
                              /\ view'[s].set = view[s].set
    <3> DEFINE next_view == [view[r] EXCEPT !.seen = seen, !.owners = owners]
    <3>1. /\ next_view \in Views
          /\ next_view.revision = view[r].revision
          /\ next_view.set = view[r].set
      BY <2>3, <2>4, <2>5 DEF Views
    <3>2. view' = [view EXCEPT ![r] = next_view]
      BY <2>2
    <3>3. view \in [Readers -> Views]
      BY DEF TypeOK
    <3> HIDE <1>3 DEF next_view, MergeOne
    <3> QED BY <3>1, <3>2, <3>3
  <2>7. next' \in [Readers -> Nat \ {0}]
    BY DEF TypeOK
  <2>8. TypeOK'
    BY <2>6, <2>7 DEF TypeOK
  <2>9. Ordered' /\ Labelled'
    BY <2>6 DEF Ordered, Labelled
  <2> QED BY <2>8, <2>9 DEF Versions, Members
<1>4. CASE StoreMerged(r)
  <2> USE <1>4 DEF StoreMerged, history
  <2>1. /\ merged' \in Views \cup {None}
        /\ mu' \in Readers \cup {None}
        /\ pc' \in [Readers -> {"idle", "sum", "check", "lock", "list",
                                "merge", "done"}]
        /\ list' \in [Readers -> Seq(Workspaces)]
        /\ next' \in [Readers -> Nat \ {0}]
    BY DEF TypeOK
  <2>2. TypeOK'
    BY <2>1 DEF TypeOK
  <2>3. Ordered' /\ Labelled'
    BY DEF Ordered, Labelled, TypeOK
  <2> QED BY <2>2, <2>3 DEF Versions, Members
<1>5. CASE Return(r)
  <2> USE <1>5 DEF Return
  <2>1. NoLabel \in Labels /\ NoLabel.revision = 0
    BY DEF NoLabel, Labels
  <2>2. /\ NothingPublished \in [revision : Nat,
                                generation : [Workspaces -> 0..MaxGeneration]]
        /\ NothingPublished.revision = 0
    BY DEF NothingPublished
  <2>3. /\ pc' \in [Readers -> {"idle", "sum", "check", "lock", "list",
                                "merge", "done"}]
        /\ label' \in [Readers -> Labels]
        /\ view' \in [Readers -> Views]
        /\ begin' \in [Readers -> [revision : Nat,
                          generation : [Workspaces -> 0..MaxGeneration]]]
        /\ steady' \in [Readers -> SUBSET (Workspaces \X Groups)]
    BY <1>0, <2>1, <2>2 DEF TypeOK
  <2>4. TypeOK'
    BY <2>3 DEF TypeOK
  <2>5. Ordered' /\ Labelled'
    BY <2>1, <2>2 DEF Ordered, Labelled, TypeOK
  <2> QED BY <2>4, <2>5 DEF Versions, Members
<1> QED BY <1>1, <1>2, <1>3, <1>4, <1>5

\* Every step of the caches, the manager and the readers preserves it.
LEMMA NextInvariant == IInv /\ [Next]_vars => IInv'
<1> SUFFICES ASSUME IInv, [Next]_vars PROVE IInv'
  OBVIOUS
<1>1. CASE UNCHANGED vars
  BY <1>1 DEF vars, caches, routes, reader, history, IInv, TypeOK, Versions,
              Ordered, Labelled, Members
<1>2. CASE \E r \in Readers : Read(r)
  BY <1>2, LabelPreserves, MergePreserves DEF Read
<1> QED
  BY <1>1, <1>2, RefreshPreserves, ReplacePreserves DEF Next

\* The invariant holds in every reachable state.
THEOREM Invariance == Spec => []IInv
  BY InitInvariant, NextInvariant, PTL DEF Spec

\* The router's and the caches' fields stay within their types; a generation
\* never runs ahead of its snapshot.
THEOREM TypeCorrect == Spec => []TypeOK
  BY Invariance, PTL DEF IInv

\* current never returns a set of workspaces older than the one in place when
\* it was called (router.go:192, 215).
THEOREM SetIsCurrentHolds == Spec => []SetIsCurrent
<1>1. IInv => SetIsCurrent
  <2> SUFFICES ASSUME IInv, NEW r \in Readers, pc[r] = "done"
               PROVE  view[r].set >= begin[r].revision
    BY DEF SetIsCurrent
  <2>1. /\ view[r].revision = label[r].revision
        /\ view[r].revision <= view[r].set
        /\ begin[r].revision <= label[r].revision
    BY DEF IInv, Labelled, Ordered
  <2>2. /\ view[r].set \in Nat
        /\ label[r].revision \in Nat
        /\ begin[r].revision \in Nat
    BY DEF IInv, TypeOK, Views, Labels
  <2> QED BY <2>1, <2>2
<1> QED BY <1>1, Invariance, PTL
-----------------------------------------------------------------------------
(* The cached merge never goes back.                                       *)
(*                                                                         *)
(* merged is only written under the lock, by the reader that holds it, and *)
(* that reader loads the set, and each snapshot, after it took the lock.   *)
(* So what it builds is at least as new as what it replaces: its set, and  *)
(* every snapshot it has read so far.  If the set is the same one, what it *)
(* replaces holds no workspace that is not in its list.                    *)

\* The number of the set that router.workspaces now holds.
SetNumber == IF replacing THEN revision + 1 ELSE revision

Locked == \A r \in Readers : pc[r] \in {"list", "merge"} => mu = r

MergedFits ==
  merged # None =>
    /\ merged.set <= SetNumber
    /\ \A w \in Workspaces : merged.seen[w].version <= snapshot[w].version
    /\ merged.set = SetNumber =>
         \A w \in Workspaces : merged.seen[w].version > 0 => w \in Members(workspaces)

\* A merge that is being built, by itself ...
BuiltFits(r) ==
  /\ pc[r] = "list" => view[r].seen = NothingSeen
  /\ pc[r] = "merge" =>
       /\ view[r].set <= SetNumber
       /\ view[r].set = SetNumber => list[r] = workspaces
       /\ \A w \in Workspaces :
            /\ view[r].seen[w].version <= snapshot[w].version
            /\ view[r].seen[w].version > 0 => w \in Members(list[r])

\* ... and against the one it will replace.
BuiltIsNewer(r) ==
  pc[r] = "merge" /\ merged # None =>
    /\ merged.set <= view[r].set
    /\ \A i \in 1..Len(list[r]) :
         i < next[r] => merged.seen[list[r][i]].version
                          <= view[r].seen[list[r][i]].version
    /\ merged.set = view[r].set =>
         \A w \in Workspaces : merged.seen[w].version > 0 => w \in Members(list[r])

MInv ==
  /\ IInv /\ Locked /\ MergedFits
  /\ \A r \in Readers : BuiltFits(r) /\ BuiltIsNewer(r)

\* The versions that are compared are numbers.
LEMMA VersionsAreNumbers ==
  ASSUME IInv
  PROVE  /\ \A w \in Workspaces : snapshot[w].version \in Nat
         /\ \A r \in Readers : view[r] \in Views
         /\ \A v \in Views : /\ v.set \in Nat /\ v.seen \in [Workspaces -> Snapshots]
                             /\ \A w \in Workspaces : v.seen[w].version \in Nat
         /\ merged # None => merged \in Views
         /\ SetNumber \in Nat
  BY DEF IInv, TypeOK, Views, Snapshots, SetNumber

\* A step of the caches or of replace: no reader moves, no version falls, and
\* a new set has a new number.
LEMMA WorldPreserves ==
  ASSUME MInv, IInv', UNCHANGED <<merged, mu, reader>>,
         \A w \in Workspaces : /\ snapshot'[w].version \in Nat
                               /\ snapshot[w].version <= snapshot'[w].version,
         SetNumber' \in Nat,
         \/ SetNumber' = SetNumber /\ workspaces' = workspaces
         \/ SetNumber < SetNumber'
  PROVE  MInv'
<1> USE DEF MInv, reader
<1>0. /\ \A w \in Workspaces : snapshot[w].version \in Nat
      /\ \A r \in Readers : view[r] \in Views
      /\ \A v \in Views : v.set \in Nat /\ \A w \in Workspaces : v.seen[w].version \in Nat
      /\ merged # None => merged \in Views
      /\ SetNumber \in Nat
  BY VersionsAreNumbers
<1>1. Locked'
  BY DEF Locked
<1>2. MergedFits'
  BY <1>0 DEF MergedFits, Members
<1>3. \A r \in Readers : BuiltFits(r)'
  BY <1>0 DEF BuiltFits, Members
<1>4. \A r \in Readers : BuiltIsNewer(r)'
  BY DEF BuiltIsNewer, Members
<1> QED BY <1>1, <1>2, <1>3, <1>4

\* A step of one reader that leaves merged alone.
LEMMA ReaderPreserves ==
  ASSUME MInv, IInv', NEW r \in Readers, UNCHANGED <<caches, routes, merged>>,
         \A q \in Readers \ {r} : /\ pc'[q] = pc[q] /\ view'[q] = view[q]
                                  /\ list'[q] = list[q] /\ next'[q] = next[q],
         mu' = mu \/ mu = None,
         pc'[r] \in {"list", "merge"} => mu' = r,
         BuiltFits(r)', BuiltIsNewer(r)'
  PROVE  MInv'
<1> USE DEF MInv, caches, routes
<1>1. Locked'
  BY NoneIsNothing DEF Locked
<1>2. MergedFits'
  BY DEF MergedFits, SetNumber, Members
<1>3. \A q \in Readers \ {r} : BuiltFits(q)' /\ BuiltIsNewer(q)'
  BY DEF BuiltFits, BuiltIsNewer, SetNumber, Members
<1> QED BY <1>1, <1>2, <1>3

\* The caches and replace.
LEMMA MergeOutlivesWorld ==
  ASSUME MInv, IInv',
         \/ \E w \in Workspaces, groups \in SUBSET Groups : StoreSnapshot(w, groups)
         \/ \E w \in Workspaces : AddGeneration(w)
         \/ \E set \in Configurations, groups \in SUBSET Groups :
              StoreWorkspaces(set, groups)
         \/ AddRevision
  PROVE  MInv'
<1>0. /\ \A w \in Workspaces : snapshot[w].version \in Nat
      /\ SetNumber \in Nat /\ revision \in Nat
  BY VersionsAreNumbers DEF MInv, IInv, TypeOK
<1>1. UNCHANGED <<merged, mu, reader>>
  BY DEF StoreSnapshot, AddGeneration, StoreWorkspaces, AddRevision
<1>2. ASSUME NEW w \in Workspaces, NEW groups \in SUBSET Groups,
             StoreSnapshot(w, groups)
      PROVE  MInv'
  <2>1. /\ snapshot' = [snapshot EXCEPT ![w] = [version |-> snapshot[w].version + 1,
                                                groups |-> groups]]
        /\ UNCHANGED routes
    BY <1>2 DEF StoreSnapshot
  <2>2. \A x \in Workspaces : /\ snapshot'[x].version \in Nat
                              /\ snapshot[x].version <= snapshot'[x].version
    <3>1. /\ snapshot'[w] = [version |-> snapshot[w].version + 1, groups |-> groups]
          /\ \A x \in Workspaces \ {w} : snapshot'[x] = snapshot[x]
      BY <2>1 DEF MInv, IInv, TypeOK
    <3>2. snapshot'[w].version = snapshot[w].version + 1
      BY <3>1
    <3> QED BY <1>0, <3>1, <3>2
  <2>3. SetNumber' = SetNumber /\ workspaces' = workspaces
    BY <2>1 DEF SetNumber, routes
  <2> QED BY <1>0, <1>1, <2>2, <2>3, WorldPreserves
<1>3. ASSUME NEW w \in Workspaces, AddGeneration(w)
      PROVE  MInv'
  <2>1. UNCHANGED <<snapshot, routes>>
    BY <1>3 DEF AddGeneration
  <2>2. SetNumber' = SetNumber /\ workspaces' = workspaces
    BY <2>1 DEF SetNumber, routes
  <2> QED BY <1>0, <1>1, <2>1, <2>2, WorldPreserves
<1>4. ASSUME NEW set \in Configurations, NEW groups \in SUBSET Groups,
             StoreWorkspaces(set, groups)
      PROVE  MInv'
  <2>1. \A w \in Workspaces : generation[w] = 0 => snapshot[w].version = 0
    BY DEF MInv, IInv, Versions
  <2>2. \A w \in Workspaces :
          \/ snapshot'[w] = snapshot[w]
          \/ snapshot'[w] = [version |-> 1, groups |-> groups] /\ generation[w] = 0
    BY <1>4 DEF StoreWorkspaces
  <2>3. \A w \in Workspaces : /\ snapshot'[w].version \in Nat
                              /\ snapshot[w].version <= snapshot'[w].version
    BY <1>0, <2>1, <2>2
  <2>4. SetNumber' = revision + 1 /\ SetNumber = revision
    BY <1>4 DEF StoreWorkspaces, SetNumber
  <2> QED BY <1>0, <1>1, <2>3, <2>4, WorldPreserves
<1>5. CASE AddRevision
  <2>1. UNCHANGED <<caches, workspaces>> /\ SetNumber' = SetNumber
    BY <1>5 DEF AddRevision, SetNumber
  <2> QED BY <1>0, <1>1, <2>1, WorldPreserves DEF caches
<1> QED BY <1>2, <1>3, <1>4, <1>5

\* The readers.
LEMMA MergeOutlivesReaders ==
  ASSUME MInv, IInv', NEW r \in Readers, Read(r)
  PROVE  MInv'
<1> USE DEF Goto, RangeOver
<1>0. /\ \A w \in Workspaces : snapshot[w].version \in Nat
      /\ \A q \in Readers : view[q] \in Views
      /\ \A v \in Views : v.set \in Nat /\ v.seen \in [Workspaces -> Snapshots]
                           /\ \A w \in Workspaces : v.seen[w].version \in Nat
      /\ merged # None => merged \in Views
      /\ SetNumber \in Nat
  BY VersionsAreNumbers DEF MInv
<1>a. /\ pc \in [Readers -> {"idle", "sum", "check", "lock", "list", "merge", "done"}]
      /\ list \in [Readers -> Seq(Workspaces)] /\ next \in [Readers -> Nat \ {0}]
      /\ view \in [Readers -> Views] /\ workspaces \in Seq(Workspaces)
  BY DEF MInv, IInv, TypeOK
<1>1. CASE \/ Call(r) \/ SumOne(r) \/ LoadRevision(r) \/ FastPath(r) \/ Return(r)
           \/ Lock(r) /\ labelled(merged, label[r])
  <2>1. /\ UNCHANGED <<caches, routes, merged, mu>>
        /\ pc' \in [Readers -> {"idle", "sum", "check", "lock", "done"}]
             \/ pc'[r] \in {"idle", "sum", "check", "lock", "done"}
        /\ \A q \in Readers \ {r} : /\ pc'[q] = pc[q] /\ view'[q] = view[q]
                                    /\ list'[q] = list[q] /\ next'[q] = next[q]
    BY <1>1, <1>a DEF Call, SumOne, LoadRevision, FastPath, Return, Lock
  <2>2. pc'[r] \notin {"list", "merge"}
    BY <1>1, <1>a DEF Call, SumOne, LoadRevision, FastPath, Return, Lock
  <2>3. BuiltFits(r)' /\ BuiltIsNewer(r)'
    BY <2>2 DEF BuiltFits, BuiltIsNewer
  <2> QED BY <2>1, <2>2, <2>3, ReaderPreserves
<1>2. CASE Lock(r) /\ ~labelled(merged, label[r])
  <2> DEFINE start == [EmptyView EXCEPT !.generation = label[r].generation,
                                        !.revision = label[r].revision]
  <2>1. /\ pc' = [pc EXCEPT ![r] = "list"] /\ view' = [view EXCEPT ![r] = start]
        /\ mu = None /\ mu' = r /\ UNCHANGED <<caches, routes, merged, list, next>>
    BY <1>2 DEF Lock
  <2>2. start.seen = NothingSeen
    BY DEF EmptyView
  <2> HIDE DEF start
  <2>3. /\ pc'[r] = "list" /\ view'[r] = start
        /\ \A q \in Readers \ {r} : /\ pc'[q] = pc[q] /\ view'[q] = view[q]
                                    /\ list'[q] = list[q] /\ next'[q] = next[q]
    BY <1>a, <2>1
  <2>4. BuiltFits(r)' /\ BuiltIsNewer(r)'
    BY <2>2, <2>3 DEF BuiltFits, BuiltIsNewer
  <2> QED BY <2>1, <2>3, <2>4, ReaderPreserves
<1>3. CASE StartMerge(r)
  <2> DEFINE started == [view[r] EXCEPT !.set = SetNumber]
  <2>1. /\ pc[r] = "list" /\ pc' = [pc EXCEPT ![r] = "merge"]
        /\ list' = [list EXCEPT ![r] = workspaces] /\ next' = [next EXCEPT ![r] = 1]
        /\ view' = [view EXCEPT ![r] = started]
        /\ UNCHANGED <<caches, routes, merged, mu>>
    BY <1>3, <1>a DEF StartMerge, SetNumber
  <2>2. started.set = SetNumber /\ started.seen = view[r].seen
    BY <1>0 DEF Views
  <2> HIDE DEF started
  <2>3. /\ pc'[r] = "merge" /\ view'[r] = started /\ list'[r] = workspaces
        /\ next'[r] = 1
        /\ \A q \in Readers \ {r} : /\ pc'[q] = pc[q] /\ view'[q] = view[q]
                                    /\ list'[q] = list[q] /\ next'[q] = next[q]
    BY <1>a, <2>1
  <2>4. \A w \in Workspaces : started.seen[w].version = 0
    BY <2>1, <2>2 DEF MInv, BuiltFits, NothingSeen
  <2>5. SetNumber' = SetNumber /\ workspaces' = workspaces /\ snapshot' = snapshot
    BY <2>1 DEF SetNumber, routes, caches
  <2>6. BuiltFits(r)'
    BY <1>0, <2>2, <2>3, <2>4, <2>5 DEF BuiltFits
  <2>7. BuiltIsNewer(r)'
    BY <1>0, <2>1, <2>2, <2>3, <2>5 DEF BuiltIsNewer, MInv, MergedFits, Members
  <2>8. mu' = r
    BY <2>1 DEF MInv, Locked
  <2> QED BY <2>1, <2>3, <2>6, <2>7, <2>8, ReaderPreserves
<1>4. CASE MergeOne(r)
  <2> DEFINE w == list[r][next[r]]
             owners == [g \in Groups |->
                          IF view[r].owners[g] = None
                               /\ g \in snapshot[w].groups
                          THEN w ELSE view[r].owners[g]]
             seen == [view[r].seen EXCEPT ![w] = snapshot[w]]
             grown == [view[r] EXCEPT !.seen = seen, !.owners = owners]
  <2>1. /\ pc[r] = "merge" /\ next[r] <= Len(list[r])
        /\ next' = [next EXCEPT ![r] = next[r] + 1]
        /\ UNCHANGED <<caches, routes, merged, mu, pc, list>>
    BY <1>4 DEF MergeOne
  <2>2. view' = [view EXCEPT ![r] = grown]
    BY <1>4, Zenon DEF MergeOne
  <2>3. w \in Workspaces /\ w \in Members(list[r])
    BY <1>a, <2>1 DEF Members
  <2>4. /\ seen[w] = snapshot[w]
        /\ \A x \in Workspaces \ {w} : seen[x] = view[r].seen[x]
    BY <1>0, <2>3
  <2>5. grown.set = view[r].set /\ grown.seen = seen
    BY <1>0 DEF Views
  <2> HIDE DEF grown, seen, owners
  <2>6. /\ view'[r] = grown /\ next'[r] = next[r] + 1
        /\ \A q \in Readers \ {r} : /\ pc'[q] = pc[q] /\ view'[q] = view[q]
                                    /\ list'[q] = list[q] /\ next'[q] = next[q]
    BY <1>a, <2>1, <2>2
  <2>7. SetNumber' = SetNumber /\ workspaces' = workspaces /\ snapshot' = snapshot
    BY <2>1 DEF SetNumber, routes, caches
  <2>8. \A x \in Workspaces :
          /\ seen[x].version <= snapshot[x].version
          /\ seen[x].version > 0 => x \in Members(list[r])
          /\ view[r].seen[x].version <= seen[x].version
    BY <1>0, <2>1, <2>3, <2>4 DEF MInv, BuiltFits
  <2> HIDE DEF w
  <2>9. BuiltFits(r)'
    BY <2>1, <2>5, <2>6, <2>7, <2>8 DEF MInv, BuiltFits
  <2>10. ASSUME merged # None, NEW i \in 1..Len(list[r]), i < next[r] + 1
         PROVE  merged.seen[list[r][i]].version <= seen[list[r][i]].version
    <3>1. list[r][i] \in Workspaces /\ next[r] \in Nat
      BY <1>a
    <3>2. CASE i < next[r]
      <4>1. merged.seen[list[r][i]].version <= view[r].seen[list[r][i]].version
        BY <2>1, <2>10, <3>2 DEF MInv, BuiltIsNewer
      <4>2. view[r].seen[list[r][i]].version <= seen[list[r][i]].version
        BY <2>8, <3>1
      <4>3. /\ merged.seen[list[r][i]].version \in Nat
            /\ view[r].seen[list[r][i]].version \in Nat
            /\ seen[list[r][i]].version \in Nat
        <5>1. seen[list[r][i]].version \in Nat
          BY <1>0, <2>4, <3>1
        <5> QED BY <1>0, <2>10, <3>1, <5>1
      <4> QED BY <4>1, <4>2, <4>3
    <3>3. CASE i = next[r]
      <4>1. list[r][i] = w
        BY <3>3 DEF w
      <4> QED BY <2>3, <2>4, <2>10, <4>1 DEF MInv, MergedFits
    <3> QED BY <2>10, <3>1, <3>2, <3>3
  <2>11. BuiltIsNewer(r)'
    BY <2>1, <2>5, <2>6, <2>10 DEF MInv, BuiltIsNewer
  <2>12. mu' = r
    BY <2>1 DEF MInv, Locked
  <2> QED BY <2>1, <2>6, <2>9, <2>11, <2>12, ReaderPreserves
<1>5. CASE StoreMerged(r)
  <2>1. /\ pc[r] = "merge" /\ next[r] > Len(list[r])
        /\ merged' = view[r] /\ mu' = None
        /\ pc' = [pc EXCEPT ![r] = "done"]
        /\ list' = [list EXCEPT ![r] = <<>>] /\ next' = [next EXCEPT ![r] = 1]
        /\ UNCHANGED <<caches, routes, label, view, history>>
    BY <1>5 DEF StoreMerged
  <2>2. /\ pc'[r] = "done" /\ \A q \in Readers \ {r} : pc'[q] = pc[q]
    BY <1>a, <2>1
  <2>3. \A q \in Readers : pc'[q] \notin {"list", "merge"}
    BY <2>1, <2>2 DEF MInv, Locked
  <2>4. Locked' /\ \A q \in Readers : BuiltFits(q)' /\ BuiltIsNewer(q)'
    BY <2>3 DEF Locked, BuiltFits, BuiltIsNewer
  <2>5. SetNumber' = SetNumber /\ workspaces' = workspaces /\ snapshot' = snapshot
    BY <2>1 DEF SetNumber, routes, caches
  <2>6. MergedFits'
    BY <2>1, <2>5 DEF MInv, MergedFits, BuiltFits
  <2> QED BY <2>4, <2>6 DEF MInv
<1> QED BY <1>1, <1>2, <1>3, <1>4, <1>5 DEF Read

\* The stronger invariant holds too.
THEOREM MergeInvariance == Spec => []MInv
<1>1. Init => MInv
  <2> SUFFICES ASSUME Init PROVE MInv
    OBVIOUS
  <2>1. IInv
    BY InitInvariant
  <2>2. merged = None /\ \A r \in Readers : pc[r] = "idle"
    BY DEF Init
  <2> QED BY <2>1, <2>2 DEF MInv, Locked, MergedFits, BuiltFits, BuiltIsNewer
<1>2. IInv /\ [Next]_vars => IInv'
  BY NextInvariant
<1>3. MInv /\ IInv' /\ [Next]_vars => MInv'
  <2> SUFFICES ASSUME MInv, IInv', [Next]_vars PROVE MInv'
    OBVIOUS
  <2>1. CASE UNCHANGED vars
    <3>1. UNCHANGED <<caches, routes, merged, mu, reader>>
      BY <2>1 DEF vars
    <3>2. SetNumber' = SetNumber /\ workspaces' = workspaces
      BY <3>1 DEF SetNumber, routes
    <3>3. \A w \in Workspaces : /\ snapshot'[w].version \in Nat
                                /\ snapshot[w].version <= snapshot'[w].version
      BY <3>1, VersionsAreNumbers DEF caches, MInv
    <3>4. SetNumber' \in Nat
      BY <3>2, VersionsAreNumbers DEF MInv
    <3> QED BY <3>1, <3>2, <3>3, <3>4, WorldPreserves
  <2>2. CASE Next
    BY <2>2, MergeOutlivesWorld, MergeOutlivesReaders DEF Next
  <2> QED BY <2>1, <2>2
<1>4. MInv => IInv
  BY DEF MInv
<1> QED BY <1>1, <1>2, <1>3, <1>4, PTL DEF Spec

\* router.go:190-238: a reader that took long never replaces the cached merge
\* by an older one, of an older set or with an older snapshot.
THEOREM MergedNeverGoesBackHolds == Spec => MergedNeverGoesBack
<1> DEFINE Forward ==
      merged # None =>
        /\ merged' # None
        /\ merged'.set >= merged.set
        /\ merged'.set = merged.set =>
             \A w \in Workspaces :
               merged'.seen[w].version >= merged.seen[w].version
<1>1. MInv /\ [Next]_vars => [Forward]_vars
  <2> SUFFICES ASSUME MInv, [Next]_vars, merged # None PROVE Forward
    OBVIOUS
  <2>0. /\ \A v \in Views : v.set \in Nat /\ \A w \in Workspaces : v.seen[w].version \in Nat
        /\ merged \in Views /\ \A r \in Readers : view[r] \in Views
    BY VersionsAreNumbers DEF MInv
  <2>1. CASE merged' = merged
    BY <2>0, <2>1
  <2>2. ASSUME NEW r \in Readers, StoreMerged(r) PROVE Forward
    <3>1. /\ pc[r] = "merge" /\ next[r] > Len(list[r]) /\ merged' = view[r]
      BY <2>2 DEF StoreMerged
    <3>2. Len(list[r]) \in Nat /\ next[r] \in Nat
      BY DEF MInv, IInv, TypeOK
    <3>3. /\ merged.set <= view[r].set
          /\ \A i \in 1..Len(list[r]) : merged.seen[list[r][i]].version
                                          <= view[r].seen[list[r][i]].version
          /\ merged.set = view[r].set =>
               \A w \in Workspaces : merged.seen[w].version > 0 => w \in Members(list[r])
      BY <3>1, <3>2 DEF MInv, BuiltIsNewer
    <3>4. \A w \in Members(list[r]) : merged.seen[w].version <= view[r].seen[w].version
      BY <3>3 DEF Members
    <3>5. view[r] # None /\ view[r].set >= merged.set
      BY <2>0, <3>3, NoneIsNothing
    <3>6. view[r].set = merged.set =>
            \A w \in Workspaces : view[r].seen[w].version >= merged.seen[w].version
      BY <2>0, <3>3, <3>4
    <3> QED BY <3>1, <3>5, <3>6
  <2>3. merged' = merged \/ \E r \in Readers : StoreMerged(r)
    BY DEF vars, Next, StoreSnapshot, AddGeneration, StoreWorkspaces, AddRevision,
           Read, Call, SumOne, LoadRevision, FastPath, Lock, StartMerge, MergeOne,
           Return
  <2> QED BY <2>1, <2>2, <2>3
<1> QED BY <1>1, MergeInvariance, PTL DEF Spec, MergedNeverGoesBack

-----------------------------------------------------------------------------
(* A router whose set of workspaces is installed at most once.             *)
(*                                                                         *)
(* The label of a merge is a sum, read one generation at a time.  Why may  *)
(* the merge be returned to whoever computes the same sum?  Suppose it     *)
(* lacks something of workspace w that reader r may rely on (Missing).     *)
(* Then w had announced more than the merge holds when r was called.  The  *)
(* sum in the label was complete before the merge read any snapshot, and   *)
(* a snapshot is never older than what its generation had announced, so    *)
(* the label is at most the sum of the generations with each cut down to   *)
(* what the merge has seen of it (MergeFits).  No generation falls, so r   *)
(* reads at least as much everywhere, and more at w: its sum is greater    *)
(* (Outgrown).  The invariant says this of partial sums (Least) and of     *)
(* partial merges (Taken).                                                 *)

IsSums(S, q, n) ==
  /\ S \in [0..n -> Nat] /\ S[0] = 0
  /\ \A i \in 1..n : S[i] = S[i - 1] + q[i]
\* The sums of the first elements of q, and of the first n.
Sums(q, n) == CHOOSE S : IsSums(S, q, n)
Total(q, n) == Sums(q, n)[n]

Generations(seq, gen) == [i \in 1..Len(seq) |-> gen[seq[i]]]
\* The generations of a set of workspaces, added up to place k and all of them.
Partial(seq, gen, k) == Sums(Generations(seq, gen), Len(seq))[k]
Whole(seq, gen) == Total(Generations(seq, gen), Len(seq))

\* The generations, no further than merge m has seen them at the places taken.
Capped(seq, gen, m, taken) ==
  [i \in 1..Len(seq) |->
     IF i \in taken /\ m.seen[seq[i]].version < gen[seq[i]]
     THEN m.seen[seq[i]].version ELSE gen[seq[i]]]
Seen(seq, gen, m, taken) == Total(Capped(seq, gen, m, taken), Len(seq))

\* Merge m lacks something of workspace w that a reader may rely on: b is what
\* was published when it began, s what has been served ever since.
Missing(m, w, b, s) ==
  \/ m.seen[w].version < b.generation[w]
  \/ \E g \in Groups : <<w, g>> \in s /\ g \notin m.seen[w].groups

\* Merge m holds snapshots that have been stored, and the groups of those at
\* the places taken, each for the first workspace that serves it.
Holds(m, taken, seq, snap) ==
  /\ \A w \in Workspaces : \/ m.seen[w].version < snap[w].version
                           \/ m.seen[w] = snap[w]
  /\ \A i \in taken : \A g \in m.seen[seq[i]].groups :
       \E j \in 1..i : m.owners[g] = seq[j]
  /\ \A g \in Groups : m.owners[g] # None =>
       \E j \in taken : m.owners[g] = seq[j]

Empty(m) ==
  /\ m.generation = 0 /\ m.seen = NothingSeen
  /\ \A g \in Groups : m.owners[g] = None

Places == 1..Len(workspaces)

\* The places of the set whose snapshots a merge being built holds already.
Taken(r) == {i \in Places : list[r] # workspaces \/ i < next[r]}

\* What reader r's sum will at least come to.
Least(r) ==
  IF pc[r] = "sum"
  THEN label[r].generation
         + (Whole(list[r], generation) - Partial(list[r], generation, next[r] - 1))
  ELSE label[r].generation

\* Whoever may rely on more than m holds computes a greater sum.
Outgrown(m, taken, r) ==
  pc[r] \in {"sum", "check", "lock"} =>
    \A i \in taken :
      Missing(m, workspaces[i], begin[r], steady[r]) => m.generation < Least(r)

MergeFits(m, taken) ==
  /\ m.generation <= Seen(workspaces, generation, m, taken)
  /\ Holds(m, taken, workspaces, snapshot)
  /\ \A r \in Readers : Outgrown(m, taken, r)

\* Before the set is installed.
Blank ==
  /\ workspaces = <<>> /\ snapshot = NothingSeen
  /\ \A w \in Workspaces : generation[w] = 0
  /\ merged # None => Empty(merged)
  /\ \A r \in Readers :
       /\ list[r] = <<>> /\ label[r].generation = 0 /\ steady[r] = {}
       /\ \A w \in Workspaces : begin[r].generation[w] = 0
       /\ Empty(view[r])

Installed ==
  /\ SetNumber \in {1, 2}
  /\ SetNumber = 1 => Blank
  /\ \A i, j \in Places : workspaces[i] = workspaces[j] => i = j
  /\ \A w \in Workspaces : snapshot[w].version = 0 => snapshot[w].groups = {}

Reading(r) ==
  /\ list[r] = workspaces \/ list[r] = <<>>
  /\ \A w \in Workspaces : begin[r].generation[w] <= generation[w]
  /\ \A w \in Workspaces, g \in Groups :
       <<w, g>> \in steady[r] => g \in snapshot[w].groups
  /\ pc[r] = "idle" => label[r] = NoLabel
  /\ pc[r] \in {"sum", "merge"} => next[r] <= Len(list[r]) + 1
  /\ pc[r] = "sum" => label[r].generation <= Partial(list[r], generation, next[r] - 1)
  /\ pc[r] \in {"check", "lock"} => label[r].generation <= Whole(workspaces, generation)

Building(r) ==
  /\ pc[r] = "list" => /\ view[r].generation <= Whole(workspaces, generation)
                       /\ \A g \in Groups : view[r].owners[g] = None
  /\ pc[r] = "merge" => /\ MergeFits(view[r], Taken(r))
                        /\ \A i \in Taken(r) :
                             ~Missing(view[r], workspaces[i], begin[r], steady[r])

Answering(r) ==
  pc[r] = "done" =>
    \A i \in Places :
      /\ ~Missing(view[r], workspaces[i], begin[r], steady[r])
      /\ \A g \in view[r].seen[workspaces[i]].groups :
           \E j \in 1..i : view[r].owners[g] = workspaces[j]

FInv ==
  /\ MInv /\ Installed
  /\ \A r \in Readers : Reading(r) /\ Building(r) /\ Answering(r)
  /\ merged # None => MergeFits(merged, Places)

-----------------------------------------------------------------------------
(* Sums *)

\* Every set of numbers that is not empty has a least one.
LEMMA LeastNumber ==
  ASSUME NEW T, T \subseteq Nat, T # {}
  PROVE  \E n \in T : \A m \in T : n <= m
<1> DEFINE R == OpToRel(<, Nat)
<1>1. IsWellFoundedOn(R, Nat)
  BY NatLessThanWellFounded
<1>2. \A m, n \in Nat : m < n => <<m, n>> \in R
  BY DEF OpToRel
<1> HIDE DEF R
<1>3. PICK n \in T : \A m \in T : ~ (<<m, n>> \in R)
  BY <1>1, WFMin
<1>4. ASSUME NEW m \in T PROVE n <= m
  <2>1. m \in Nat /\ n \in Nat
    OBVIOUS
  <2>2. ~(m < n)
    BY <1>2, <1>3, <2>1
  <2> QED BY ONLY <2>1, <2>2
<1> QED BY <1>3, <1>4

\* A fact about a number that passes from each number to the next, up to n.
LEMMA Upwards ==
  ASSUME NEW n \in Nat, NEW i \in 0..n, NEW T \in SUBSET (i..n), i \notin T,
         \A k \in T : k > i => k - 1 \in T
  PROVE  T = {}
<1> SUFFICES ASSUME T # {} PROVE FALSE
  OBVIOUS
<1>1. T \subseteq Nat
  OBVIOUS
<1>2. PICK k \in T : \A m \in T : k <= m
  BY <1>1, LeastNumber
<1>3. k \in Nat /\ k > i
  BY <1>1
<1>4. k - 1 \in T
  BY <1>3
<1> QED BY <1>2, <1>3, <1>4

\* The sums of a function exist.
LEMMA SumsExist ==
  ASSUME NEW n \in Nat, NEW q \in [1..n -> Nat]
  PROVE  IsSums(Sums(q, n), q, n)
<1> DEFINE Upto(k) == \E S \in [0..n -> Nat] :
                        S[0] = 0 /\ \A i \in 1..k : S[i] = S[i - 1] + q[i]
           T == {k \in 0..n : ~Upto(k)}
<1>1. Upto(0)
  <2>1. [i \in 0..n |-> 0] \in [0..n -> Nat] /\ [i \in 0..n |-> 0][0] = 0
    OBVIOUS
  <2>2. 1..0 = {}
    OBVIOUS
  <2> QED BY <2>1, <2>2
<1>2. ASSUME NEW k \in 1..n, Upto(k - 1) PROVE Upto(k)
  <2>1. PICK S \in [0..n -> Nat] :
          S[0] = 0 /\ \A i \in 1..(k - 1) : S[i] = S[i - 1] + q[i]
    BY <1>2
  <2>2. S[k - 1] \in Nat /\ q[k] \in Nat /\ k # 0 /\ 0 \in 0..n
    OBVIOUS
  <2>3. S[k - 1] + q[k] \in Nat
    BY <2>2
  <2> DEFINE s == S[k - 1] + q[k]
             U == [S EXCEPT ![k] = s]
  <2>4. U \in [0..n -> Nat]
    <3> HIDE DEF s
    <3>1. s \in Nat
      BY <2>3 DEF s
    <3> QED BY <3>1
  <2>5. U[0] = 0
    <3> HIDE DEF s
    <3> QED BY <2>1, <2>2
  <2>6. ASSUME NEW i \in 1..k PROVE U[i] = U[i - 1] + q[i]
    <3>1. CASE i = k
      BY <3>1
    <3>2. CASE i # k
      <4>1. i \in 1..(k - 1) /\ i \in 0..n /\ i - 1 \in 0..n /\ i - 1 # k
        BY <3>2
      <4>2. S[i] = S[i - 1] + q[i]
        BY <2>1, <4>1
      <4>3. U[i] = S[i] /\ U[i - 1] = S[i - 1]
        BY <3>2, <4>1
      <4> QED BY <4>2, <4>3
    <3> QED BY <3>1, <3>2
  <2> HIDE DEF U
  <2> QED BY <2>4, <2>5, <2>6
<1> HIDE DEF Upto
<1>3. T \in SUBSET (0..n) /\ 0 \notin T /\ 0 \in 0..n
  BY <1>1
<1>4. ASSUME NEW k \in T, k > 0 PROVE k - 1 \in T
  <2>1. k \in 1..n /\ ~Upto(k) /\ k - 1 \in 0..n
    BY <1>4
  <2> QED BY <1>2, <2>1
<1>5. n \notin T
  <2> HIDE DEF T
  <2>1. T = {}
    BY <1>3, <1>4, Upwards
  <2> QED BY <2>1
<1>6. Upto(n)
  BY <1>5
<1>7. \E S : IsSums(S, q, n)
  BY <1>6 DEF IsSums, Upto
<1> QED BY <1>7 DEF Sums

\* They are added up from the left.
LEMMA SumsStep ==
  ASSUME NEW n \in Nat, NEW q \in [1..n -> Nat]
  PROVE  /\ Sums(q, n)[0] = 0 /\ Total(q, n) \in Nat
         /\ \A i \in 0..n : Sums(q, n)[i] \in Nat
         /\ \A i \in 1..n : Sums(q, n)[i] = Sums(q, n)[i - 1] + q[i]
<1> DEFINE S == Sums(q, n)
<1>1. /\ S \in [0..n -> Nat] /\ S[0] = 0
      /\ \A i \in 1..n : S[i] = S[i - 1] + q[i]
  BY SumsExist DEF IsSums
<1>2. Total(q, n) = S[n]
  BY DEF Total
<1> HIDE DEF S
<1>3. n \in 0..n
  OBVIOUS
<1>4. \A i \in 0..n : S[i] \in Nat
  BY <1>1
<1>5. Total(q, n) \in Nat
  BY <1>2, <1>3, <1>4
<1> QED BY <1>1, <1>4, <1>5 DEF S

\* Greater elements have greater sums, from any place to any other.
LEMMA SumsGrow ==
  ASSUME NEW n \in Nat, NEW p \in [1..n -> Nat], NEW q \in [1..n -> Nat],
         \A k \in 1..n : p[k] <= q[k],
         NEW i \in 0..n, NEW j \in 0..n, i <= j
  PROVE  Sums(p, n)[j] + Sums(q, n)[i] <= Sums(q, n)[j] + Sums(p, n)[i]
<1> DEFINE P == Sums(p, n)
           Q == Sums(q, n)
           T == {k \in i..n : ~(P[k] + Q[i] <= Q[k] + P[i])}
<1>1. /\ \A k \in 0..n : P[k] \in Nat
      /\ \A k \in 1..n : P[k] = P[k - 1] + p[k]
  BY SumsStep
<1>2. /\ \A k \in 0..n : Q[k] \in Nat
      /\ \A k \in 1..n : Q[k] = Q[k - 1] + q[k]
  BY SumsStep
<1> HIDE DEF P, Q
<1>3. T \in SUBSET (i..n)
  OBVIOUS
<1>4. i \notin T
  BY <1>1, <1>2
<1>5. ASSUME NEW k \in T, k > i PROVE k - 1 \in T
  <2>1. k \in 1..n /\ k \in 0..n /\ k - 1 \in i..n /\ k - 1 \in 0..n
    BY <1>5
  <2>2. ~(P[k] + Q[i] <= Q[k] + P[i])
    OBVIOUS
  <2>3. /\ P[k] = P[k - 1] + p[k] /\ P[k] \in Nat /\ P[k - 1] \in Nat
        /\ P[i] \in Nat /\ p[k] \in Nat
    BY <1>1, <2>1
  <2>4. /\ Q[k] = Q[k - 1] + q[k] /\ Q[k] \in Nat /\ Q[k - 1] \in Nat
        /\ Q[i] \in Nat /\ q[k] \in Nat /\ p[k] <= q[k]
    BY <1>2, <2>1
  <2>5. ~(P[k - 1] + Q[i] <= Q[k - 1] + P[i])
    <3>1. ASSUME NEW a \in Nat, NEW b \in Nat, NEW c \in Nat, NEW d \in Nat,
                 NEW x \in Nat, NEW y \in Nat, x <= y, a + d <= b + c
          PROVE  (a + x) + d <= (b + y) + c
      BY ONLY <3>1
    <3> QED BY ONLY <2>2, <2>3, <2>4, <3>1
  <2> QED BY <2>1, <2>5
<1>6. j \notin T
  <2> HIDE DEF T
  <2>1. T = {}
    BY <1>3, <1>4, <1>5, Upwards
  <2> QED BY <2>1
<1>7. j \in i..n
  OBVIOUS
<1>8. P[j] + Q[i] <= Q[j] + P[i]
  BY <1>6, <1>7
<1> QED BY <1>8 DEF P, Q

\* So do greater functions, and strictly if one element is greater.
LEMMA TotalsGrow ==
  ASSUME NEW n \in Nat, NEW p \in [1..n -> Nat], NEW q \in [1..n -> Nat],
         \A k \in 1..n : p[k] <= q[k]
  PROVE  /\ Total(p, n) <= Total(q, n)
         /\ \A k \in 1..n : p[k] < q[k] => Total(p, n) < Total(q, n)
<1> DEFINE P == Sums(p, n)
           Q == Sums(q, n)
<1>1. /\ \A k \in 0..n : P[k] \in Nat
      /\ \A k \in 1..n : P[k] = P[k - 1] + p[k]
      /\ P[0] = 0 /\ Total(p, n) = P[n]
  BY SumsStep DEF Total
<1>2. /\ \A k \in 0..n : Q[k] \in Nat
      /\ \A k \in 1..n : Q[k] = Q[k - 1] + q[k]
      /\ Q[0] = 0 /\ Total(q, n) = Q[n]
  BY SumsStep DEF Total
<1>3. \A i, j \in 0..n : i <= j => P[j] + Q[i] <= Q[j] + P[i]
  BY SumsGrow
<1> HIDE DEF P, Q
<1>4. Total(p, n) <= Total(q, n)
  <2>1. 0 \in 0..n /\ n \in 0..n /\ 0 <= n
    OBVIOUS
  <2>2. P[n] + 0 <= Q[n] + 0 /\ P[n] \in Nat /\ Q[n] \in Nat
    BY <1>1, <1>2, <1>3, <2>1
  <2> QED BY <1>1, <1>2, <2>2
<1>5. ASSUME NEW k \in 1..n, p[k] < q[k] PROVE Total(p, n) < Total(q, n)
  <2>1. k \in 0..n /\ k - 1 \in 0..n /\ 0 <= k - 1 /\ k <= n /\ 0 \in 0..n /\ n \in 0..n
    OBVIOUS
  <2>2. /\ P[k - 1] + 0 <= Q[k - 1] + 0
        /\ P[n] + Q[k] <= Q[n] + P[k]
    BY <1>1, <1>2, <1>3, <2>1
  <2>3. /\ P[k] = P[k - 1] + p[k] /\ Q[k] = Q[k - 1] + q[k]
        /\ p[k] \in Nat /\ q[k] \in Nat
    BY <1>1, <1>2, <2>1
  <2>4. /\ P[n] \in Nat /\ Q[n] \in Nat /\ P[k - 1] \in Nat /\ Q[k - 1] \in Nat
    BY <1>1, <1>2, <2>1
  <2>5. ASSUME NEW a \in Nat, NEW b \in Nat, NEW x \in Nat, NEW y \in Nat,
               NEW c \in Nat, NEW d \in Nat,
               a <= b, x < y, c + (b + y) <= d + (a + x)
        PROVE  c < d
    BY ONLY <2>5
  <2>6. P[n] < Q[n]
    <3>1. P[k - 1] <= Q[k - 1]
      BY <2>2, <2>4
    <3>2. P[n] + (Q[k - 1] + q[k]) <= Q[n] + (P[k - 1] + p[k])
      BY <2>2, <2>3
    <3> QED BY ONLY <1>5, <2>3, <2>4, <2>5, <3>1, <3>2
  <2> QED BY <1>1, <1>2, <2>6
<1> QED BY <1>4, <1>5

-----------------------------------------------------------------------------
(* The sums of generations *)

\* The generations of a set as a function on its places.
LEMMA GenerationsType ==
  ASSUME NEW seq \in Seq(Workspaces), NEW gen \in [Workspaces -> Nat]
  PROVE  /\ Len(seq) \in Nat
         /\ \A i \in 1..Len(seq) : seq[i] \in Workspaces
         /\ Generations(seq, gen) \in [1..Len(seq) -> Nat]
  BY DEF Generations

\* They are added up one by one.
LEMMA PartialSums ==
  ASSUME NEW seq \in Seq(Workspaces), NEW gen \in [Workspaces -> Nat]
  PROVE  /\ Partial(seq, gen, 0) = 0
         /\ Whole(seq, gen) \in Nat
         /\ Whole(seq, gen) = Partial(seq, gen, Len(seq))
         /\ \A k \in 0..Len(seq) : Partial(seq, gen, k) \in Nat
         /\ \A k \in 1..Len(seq) :
              Partial(seq, gen, k) = Partial(seq, gen, k - 1) + gen[seq[k]]
<1> DEFINE q == Generations(seq, gen)
           n == Len(seq)
<1>1. n \in Nat /\ q \in [1..n -> Nat]
  BY GenerationsType
<1>2. \A i \in 1..n : q[i] = gen[seq[i]]
  BY DEF Generations
<1> HIDE DEF q, n
<1>3. /\ Sums(q, n)[0] = 0 /\ Total(q, n) \in Nat
      /\ \A i \in 0..n : Sums(q, n)[i] \in Nat
      /\ \A i \in 1..n : Sums(q, n)[i] = Sums(q, n)[i - 1] + q[i]
  BY <1>1, SumsStep
<1>4. Total(q, n) = Sums(q, n)[n]
  BY DEF Total
<1> QED BY <1>2, <1>3, <1>4 DEF Partial, Whole, q, n

\* No sum falls when no generation does.
LEMMA PartialGrows ==
  ASSUME NEW seq \in Seq(Workspaces), NEW gen \in [Workspaces -> Nat],
         NEW more \in [Workspaces -> Nat],
         \A w \in Workspaces : gen[w] <= more[w],
         NEW k \in 0..Len(seq)
  PROVE  /\ Partial(seq, gen, k) <= Partial(seq, more, k)
         /\ Whole(seq, gen) <= Whole(seq, more)
         /\ Whole(seq, gen) - Partial(seq, gen, k)
              <= Whole(seq, more) - Partial(seq, more, k)
<1> DEFINE p == Generations(seq, gen)
           q == Generations(seq, more)
           n == Len(seq)
<1>1. n \in Nat /\ p \in [1..n -> Nat] /\ q \in [1..n -> Nat] /\ k \in 0..n
  BY GenerationsType
<1>2. \A i \in 1..n : p[i] <= q[i]
  BY GenerationsType DEF Generations
<1>a. /\ Partial(seq, gen, k) = Sums(p, n)[k] /\ Partial(seq, more, k) = Sums(q, n)[k]
      /\ Whole(seq, gen) = Sums(p, n)[n] /\ Whole(seq, more) = Sums(q, n)[n]
  BY DEF Partial, Whole, Total
<1> HIDE DEF p, q, n
<1>b. 0 \in 0..n /\ n \in 0..n /\ 0 <= k /\ k <= n /\ k \in Nat
  BY <1>1
<1>3. Sums(p, n)[k] + Sums(q, n)[0] <= Sums(q, n)[k] + Sums(p, n)[0]
  BY <1>1, <1>2, <1>b, SumsGrow
<1>4. Sums(p, n)[n] + Sums(q, n)[k] <= Sums(q, n)[n] + Sums(p, n)[k]
  BY <1>1, <1>2, <1>b, SumsGrow
<1>5. /\ Sums(p, n)[0] = 0 /\ Sums(p, n)[k] \in Nat /\ Sums(p, n)[n] \in Nat
  BY <1>1, <1>b, SumsStep
<1>6. /\ Sums(q, n)[0] = 0 /\ Sums(q, n)[k] \in Nat /\ Sums(q, n)[n] \in Nat
  BY <1>1, <1>b, SumsStep
<1>7. Sums(p, n)[k] <= Sums(q, n)[k]
  BY <1>3, <1>5, <1>6
<1> QED BY <1>4, <1>5, <1>6, <1>7, <1>a

\* What a merge has seen, as a function on the places.
LEMMA CappedType ==
  ASSUME NEW seq \in Seq(Workspaces), NEW gen \in [Workspaces -> Nat],
         NEW m \in Views, NEW taken
  PROVE  /\ Capped(seq, gen, m, taken) \in [1..Len(seq) -> Nat]
         /\ \A w \in Workspaces : m.seen[w].version \in Nat
  BY DEF Capped, Views, Snapshots

\* It is no more than what was announced, less if a workspace has moved on,
\* and all of it where nothing is taken.
LEMMA SeenIsLess ==
  ASSUME NEW seq \in Seq(Workspaces), NEW gen \in [Workspaces -> Nat],
         NEW m \in Views, NEW taken
  PROVE  /\ Seen(seq, gen, m, taken) \in Nat
         /\ Seen(seq, gen, m, taken) <= Whole(seq, gen)
         /\ \A i \in taken \cap (1..Len(seq)) : m.seen[seq[i]].version < gen[seq[i]] =>
              Seen(seq, gen, m, taken) < Whole(seq, gen)
         /\ taken = {} => Seen(seq, gen, m, taken) = Whole(seq, gen)
<1> DEFINE p == Capped(seq, gen, m, taken)
           q == Generations(seq, gen)
           n == Len(seq)
<1>1. n \in Nat /\ p \in [1..n -> Nat] /\ q \in [1..n -> Nat]
  BY GenerationsType, CappedType
<1>2. \A i \in 1..n : p[i] <= q[i]
  BY GenerationsType, CappedType DEF Capped, Generations
<1>3. \A i \in taken \cap (1..n) : m.seen[seq[i]].version < gen[seq[i]] => p[i] < q[i]
  BY GenerationsType, CappedType DEF Capped, Generations
<1>4. taken = {} => p = q
  BY DEF Capped, Generations
<1>5. Seen(seq, gen, m, taken) = Total(p, n) /\ Whole(seq, gen) = Total(q, n)
  BY DEF Seen, Whole
<1> HIDE DEF p, q, n
<1>6. /\ Total(p, n) <= Total(q, n)
      /\ \A k \in 1..n : p[k] < q[k] => Total(p, n) < Total(q, n)
  BY <1>1, <1>2, TotalsGrow
<1>7. Total(p, n) \in Nat
  BY <1>1, SumsStep
<1>8. \A i \in taken \cap (1..n) : m.seen[seq[i]].version < gen[seq[i]] =>
        Total(p, n) < Total(q, n)
  BY <1>3, <1>6
<1>9. taken = {} => Total(p, n) = Total(q, n)
  BY <1>4
<1> QED BY <1>5, <1>6, <1>7, <1>8, <1>9 DEF n

\* It grows with the generations.
LEMMA SeenGrows ==
  ASSUME NEW seq \in Seq(Workspaces), NEW gen \in [Workspaces -> Nat],
         NEW more \in [Workspaces -> Nat],
         \A w \in Workspaces : gen[w] <= more[w],
         NEW m \in Views, NEW taken
  PROVE  Seen(seq, gen, m, taken) <= Seen(seq, more, m, taken)
<1> DEFINE p == Capped(seq, gen, m, taken)
           q == Capped(seq, more, m, taken)
           n == Len(seq)
<1>1. n \in Nat /\ p \in [1..n -> Nat] /\ q \in [1..n -> Nat]
  BY GenerationsType, CappedType
<1>2. \A i \in 1..n : p[i] <= q[i]
  <2> TAKE i \in 1..n
  <2>1. seq[i] \in Workspaces
    BY GenerationsType
  <2>2. /\ gen[seq[i]] \in Nat /\ more[seq[i]] \in Nat /\ gen[seq[i]] <= more[seq[i]]
        /\ m.seen[seq[i]].version \in Nat
    BY <2>1, CappedType
  <2> QED BY <2>2 DEF Capped
<1>3. Seen(seq, gen, m, taken) = Total(p, n) /\ Seen(seq, more, m, taken) = Total(q, n)
  BY DEF Seen
<1> HIDE DEF p, q, n
<1> QED BY <1>1, <1>2, <1>3, TotalsGrow

-----------------------------------------------------------------------------
(* The invariant is preserved *)

\* The parts of the state that are compared and added.
LEMMA Shapes ==
  ASSUME IInv
  PROVE  /\ workspaces \in Seq(Workspaces) /\ Len(workspaces) \in Nat
         /\ \A i \in Places : workspaces[i] \in Workspaces
         /\ generation \in [Workspaces -> Nat]
         /\ \A w \in Workspaces :
              /\ snapshot[w] \in Snapshots /\ snapshot[w].version \in Nat
              /\ generation[w] <= snapshot[w].version
              /\ w \notin storing => snapshot[w].version = generation[w]
         /\ \A r \in Readers :
              /\ list[r] \in Seq(Workspaces) /\ Len(list[r]) \in Nat
              /\ next[r] \in Nat \ {0}
              /\ label[r] \in Labels /\ label[r].generation \in Nat
              /\ view[r] \in Views
              /\ begin[r].generation \in [Workspaces -> Nat]
         /\ merged # None => merged \in Views
<1> USE DEF IInv, TypeOK
<1>1. /\ workspaces \in Seq(Workspaces) /\ Len(workspaces) \in Nat
      /\ \A i \in Places : workspaces[i] \in Workspaces
  BY DEF Places
<1>2. generation \in [Workspaces -> Nat]
  BY Bounds
<1>3. \A w \in Workspaces : /\ snapshot[w] \in Snapshots /\ snapshot[w].version \in Nat
  BY Bounds DEF Snapshots
<1>4. \A w \in Workspaces : /\ generation[w] <= snapshot[w].version
                            /\ w \notin storing => snapshot[w].version = generation[w]
  <2> TAKE w \in Workspaces
  <2>1. generation[w] \in Nat /\ snapshot[w].version \in Nat
    BY <1>2, <1>3
  <2>2. CASE w \in storing
    <3>1. snapshot[w].version = generation[w] + 1
      BY <2>2 DEF Versions
    <3> QED BY <2>1, <2>2, <3>1
  <2>3. CASE w \notin storing
    <3>1. snapshot[w].version = generation[w]
      BY <2>3 DEF Versions
    <3> QED BY <2>1, <3>1
  <2> QED BY <2>2, <2>3
<1>5. \A r \in Readers : /\ list[r] \in Seq(Workspaces) /\ Len(list[r]) \in Nat
                         /\ next[r] \in Nat \ {0}
                         /\ label[r] \in Labels /\ view[r] \in Views
  OBVIOUS
<1>6. \A r \in Readers : label[r].generation \in Nat
  BY <1>5 DEF Labels
<1>7. \A r \in Readers : begin[r].generation \in [Workspaces -> Nat]
  BY Bounds
<1>8. merged # None => merged \in Views
  OBVIOUS
<1> QED BY <1>1, <1>2, <1>3, <1>4, <1>5, <1>6, <1>7, <1>8

\* The same, of the state after a step.
LEMMA ShapesNext ==
  ASSUME IInv'
  PROVE  /\ workspaces' \in Seq(Workspaces) /\ Len(workspaces') \in Nat
         /\ \A i \in Places' : workspaces'[i] \in Workspaces
         /\ generation' \in [Workspaces -> Nat]
         /\ \A w \in Workspaces :
              /\ snapshot'[w] \in Snapshots /\ snapshot'[w].version \in Nat
              /\ generation'[w] <= snapshot'[w].version
         /\ \A r \in Readers :
              /\ list'[r] \in Seq(Workspaces) /\ Len(list'[r]) \in Nat
              /\ next'[r] \in Nat \ {0}
              /\ label'[r] \in Labels /\ label'[r].generation \in Nat
              /\ view'[r] \in Views
              /\ begin'[r].generation \in [Workspaces -> Nat]
         /\ merged' # None => merged' \in Views
<1> USE DEF IInv, TypeOK
<1>1. /\ workspaces' \in Seq(Workspaces) /\ Len(workspaces') \in Nat
      /\ \A i \in Places' : workspaces'[i] \in Workspaces
  BY DEF Places
<1>2. generation' \in [Workspaces -> Nat]
  BY Bounds
<1>3. \A w \in Workspaces : /\ snapshot'[w] \in Snapshots /\ snapshot'[w].version \in Nat
  BY Bounds DEF Snapshots
<1>4. \A w \in Workspaces : generation'[w] <= snapshot'[w].version
  BY <1>2, <1>3 DEF Versions
<1>5. \A r \in Readers : /\ list'[r] \in Seq(Workspaces) /\ Len(list'[r]) \in Nat
                         /\ next'[r] \in Nat \ {0}
                         /\ label'[r] \in Labels /\ view'[r] \in Views
  OBVIOUS
<1>6. \A r \in Readers : label'[r].generation \in Nat
  BY <1>5 DEF Labels
<1>7. \A r \in Readers : begin'[r].generation \in [Workspaces -> Nat]
  BY Bounds
<1>8. merged' # None => merged' \in Views
  OBVIOUS
<1> QED BY <1>1, <1>2, <1>3, <1>4, <1>5, <1>6, <1>7, <1>8

\* The parts of a merge.
LEMMA ViewShape ==
  ASSUME NEW m \in Views
  PROVE  /\ m.generation \in Nat /\ m.seen \in [Workspaces -> Snapshots]
         /\ m.owners \in [Groups -> Workspaces \cup {None}]
         /\ \A w \in Workspaces : m.seen[w].version \in Nat
                                  /\ m.seen[w].groups \subseteq Groups
  BY DEF Views, Snapshots

\* The caches move on, nobody else does.
LEMMA CachesPreserve ==
  ASSUME FInv, MInv', UNCHANGED <<workspaces, merged, mu, reader, begin>>,
         SetNumber' = SetNumber,
         SetNumber = 1 => UNCHANGED <<snapshot, generation, steady>>,
         \A w \in Workspaces :
           /\ generation[w] <= generation'[w]
           /\ snapshot[w].version < snapshot'[w].version \/ snapshot'[w] = snapshot[w],
         \A r \in Readers : /\ steady'[r] \subseteq steady[r]
                            /\ \A s \in steady'[r] : s[2] \in snapshot'[s[1]].groups
  PROVE  FInv'
<1> USE DEF reader
<1>1. IInv /\ IInv' /\ MInv /\ Installed
  BY DEF FInv, MInv
<1>2. /\ workspaces \in Seq(Workspaces) /\ Len(workspaces) \in Nat
      /\ generation \in [Workspaces -> Nat] /\ generation' \in [Workspaces -> Nat]
      /\ \A w \in Workspaces : snapshot[w].version \in Nat /\ snapshot'[w].version \in Nat
      /\ \A r \in Readers : /\ list[r] \in Seq(Workspaces) /\ Len(list[r]) \in Nat
                            /\ next[r] \in Nat \ {0} /\ label[r].generation \in Nat
                            /\ view[r] \in Views
                            /\ begin[r].generation \in [Workspaces -> Nat]
      /\ merged # None => merged \in Views
  BY <1>1, Shapes, ShapesNext
<1>3. Installed'
  <2>1. SetNumber' = 1 => Blank'
    <3> SUFFICES ASSUME SetNumber = 1 PROVE Blank'
      OBVIOUS
    <3>1. UNCHANGED <<snapshot, generation, steady>> /\ Blank
      BY <1>1 DEF Installed
    <3> QED BY <3>1 DEF Blank, Empty
  <2>2. \A w \in Workspaces : snapshot'[w].version = 0 => snapshot'[w].groups = {}
    <3> SUFFICES ASSUME NEW w \in Workspaces, snapshot'[w].version = 0
                 PROVE  snapshot'[w].groups = {}
      OBVIOUS
    <3>1. snapshot[w].version \in Nat /\ ~(snapshot[w].version < 0)
      BY <1>2
    <3>2. snapshot'[w] = snapshot[w]
      BY <3>1
    <3> QED BY <1>1, <3>2 DEF Installed
  <2> QED BY <1>1, <2>1, <2>2 DEF Installed, Places
<1>4. \A r \in Readers : pc[r] = "sum" => next[r] - 1 \in 0..Len(list[r])
  BY <1>2 DEF FInv, Reading
<1>5. ASSUME NEW r \in Readers PROVE Least(r) <= Least(r)' /\ Least(r)' \in Int /\ Least(r) \in Int
  <2>1. CASE pc[r] = "sum"
    <3> DEFINE k == next[r] - 1
    <3>1. k \in 0..Len(list[r])
      BY <1>4, <2>1
    <3>2. Whole(list[r], generation) - Partial(list[r], generation, k)
            <= Whole(list[r], generation') - Partial(list[r], generation', k)
      BY <1>2, <3>1, PartialGrows
    <3>3. /\ Whole(list[r], generation) \in Nat /\ Partial(list[r], generation, k) \in Nat
          /\ Whole(list[r], generation') \in Nat /\ Partial(list[r], generation', k) \in Nat
      BY <1>2, <3>1, PartialSums
    <3>4. /\ Least(r) = label[r].generation
                          + (Whole(list[r], generation) - Partial(list[r], generation, k))
          /\ Least(r)' = label[r].generation
                          + (Whole(list[r], generation') - Partial(list[r], generation', k))
      BY <2>1 DEF Least
    <3> HIDE DEF k
    <3> QED BY <1>2, <3>2, <3>3, <3>4
  <2>2. CASE pc[r] # "sum"
    BY <1>2, <2>2 DEF Least
  <2> QED BY <2>1, <2>2
<1>6. ASSUME NEW r \in Readers PROVE Reading(r)'
  <2>1. Reading(r)
    BY DEF FInv
  <2>2. \A w \in Workspaces : begin[r].generation[w] <= generation'[w]
    BY <1>2, <2>1 DEF Reading
  <2>3. \A w \in Workspaces, g \in Groups :
          <<w, g>> \in steady'[r] => g \in snapshot'[w].groups
    OBVIOUS
  <2>4. pc[r] = "sum" => label[r].generation <= Partial(list[r], generation', next[r] - 1)
    <3> SUFFICES ASSUME pc[r] = "sum"
                 PROVE  label[r].generation <= Partial(list[r], generation', next[r] - 1)
      OBVIOUS
    <3> DEFINE k == next[r] - 1
    <3>1. k \in 0..Len(list[r])
      BY <1>4
    <3>2. Partial(list[r], generation, k) <= Partial(list[r], generation', k)
      BY <1>2, <3>1, PartialGrows
    <3>3. Partial(list[r], generation, k) \in Nat /\ Partial(list[r], generation', k) \in Nat
      BY <1>2, <3>1, PartialSums
    <3>4. label[r].generation <= Partial(list[r], generation, k)
      BY <2>1 DEF Reading
    <3> HIDE DEF k
    <3>5. label[r].generation <= Partial(list[r], generation', k)
      BY <1>2, <3>2, <3>3, <3>4
    <3> QED BY <3>5 DEF k
  <2>5. /\ Whole(workspaces, generation) <= Whole(workspaces, generation')
        /\ Whole(workspaces, generation) \in Nat /\ Whole(workspaces, generation') \in Nat
    <3>1. 0 \in 0..Len(workspaces)
      BY <1>2
    <3>2. Whole(workspaces, generation) <= Whole(workspaces, generation')
      BY <1>2, <3>1, PartialGrows
    <3>3. Whole(workspaces, generation) \in Nat
      BY <1>2, PartialSums
    <3>4. Whole(workspaces, generation') \in Nat
      BY <1>2, PartialSums
    <3> QED BY <3>2, <3>3, <3>4
  <2>6. pc[r] \in {"check", "lock"} => label[r].generation <= Whole(workspaces, generation')
    BY <1>2, <2>1, <2>5 DEF Reading
  <2> QED BY <2>1, <2>2, <2>3, <2>4, <2>6 DEF Reading
<1>7. ASSUME NEW m \in Views, NEW taken \in SUBSET Places, MergeFits(m, taken)
      PROVE  MergeFits(m, taken)'
  <2>1. m.generation <= Seen(workspaces, generation', m, taken)
    <3>1. Seen(workspaces, generation, m, taken) <= Seen(workspaces, generation', m, taken)
      BY <1>2, SeenGrows
    <3>2. Seen(workspaces, generation, m, taken) \in Nat
      BY <1>2, SeenIsLess
    <3>3. Seen(workspaces, generation', m, taken) \in Nat
      BY <1>2, SeenIsLess
    <3>4. m.generation \in Nat /\ m.generation <= Seen(workspaces, generation, m, taken)
      BY <1>7, ViewShape DEF MergeFits
    <3> QED BY <3>1, <3>2, <3>3, <3>4
  <2>2. Holds(m, taken, workspaces, snapshot')
    <3>1. Holds(m, taken, workspaces, snapshot)
      BY <1>7 DEF MergeFits
    <3>2. \A w \in Workspaces : m.seen[w].version \in Nat
      BY ViewShape
    <3>3. \A w \in Workspaces : \/ m.seen[w].version < snapshot'[w].version
                                \/ m.seen[w] = snapshot'[w]
      <4> TAKE w \in Workspaces
      <4>1. /\ m.seen[w].version \in Nat /\ snapshot[w].version \in Nat
            /\ snapshot'[w].version \in Nat
        BY <1>2, <3>2
      <4>2. m.seen[w].version < snapshot[w].version \/ m.seen[w] = snapshot[w]
        BY <3>1 DEF Holds
      <4>3. CASE snapshot'[w] = snapshot[w]
        BY <4>2, <4>3
      <4>4. CASE snapshot[w].version < snapshot'[w].version
        <5>1. CASE m.seen[w] = snapshot[w]
          BY <4>4, <5>1
        <5>2. CASE m.seen[w].version < snapshot[w].version
          BY <4>1, <4>4, <5>2
        <5> QED BY <4>2, <5>1, <5>2
      <4> QED BY <4>3, <4>4
    <3> QED BY <3>1, <3>3 DEF Holds
  <2>3. ASSUME NEW r \in Readers PROVE Outgrown(m, taken, r)'
    <3>1. \A i \in taken : Missing(m, workspaces[i], begin[r], steady'[r]) =>
                             Missing(m, workspaces[i], begin[r], steady[r])
      BY DEF Missing
    <3>2. Outgrown(m, taken, r) /\ m.generation \in Nat
      BY <1>7, ViewShape DEF MergeFits
    <3> QED BY <1>5, <3>1, <3>2 DEF Outgrown
  <2> QED BY <2>1, <2>2, <2>3 DEF MergeFits
<1>8. ASSUME NEW r \in Readers, NEW m, NEW i \in Places,
             ~Missing(m, workspaces[i], begin[r], steady[r])
      PROVE  ~Missing(m, workspaces[i], begin[r], steady'[r])
  BY <1>8 DEF Missing
<1>9. ASSUME NEW r \in Readers PROVE Building(r)'
  <2>0. Building(r) /\ Reading(r)' /\ view[r] \in Views
    BY <1>2, <1>6 DEF FInv
  <2>1. CASE pc[r] = "list"
    <3>1. 0 \in 0..Len(workspaces)
      BY <1>2
    <3>2. Whole(workspaces, generation) <= Whole(workspaces, generation')
      BY <1>2, <3>1, PartialGrows
    <3>3. Whole(workspaces, generation) \in Nat
      BY <1>2, PartialSums
    <3>4. Whole(workspaces, generation') \in Nat
      BY <1>2, PartialSums
    <3>5. view[r].generation \in Nat
      BY <2>0, ViewShape
    <3> QED BY <2>0, <2>1, <3>2, <3>3, <3>4, <3>5 DEF Building
  <2>2. CASE pc[r] = "merge"
    <3>1. PICK T \in SUBSET Places : T = Taken(r)
      BY DEF Taken
    <3>2. Taken(r)' = T
      BY <3>1 DEF Taken, Places
    <3>3. PICK m \in Views : m = view[r]
      BY <2>0
    <3>4. /\ MergeFits(m, T)
          /\ \A i \in T : ~Missing(m, workspaces[i], begin[r], steady[r])
      BY <2>0, <2>2, <3>1, <3>3 DEF Building
    <3>5. \A i \in T : ~Missing(m, workspaces[i], begin[r], steady'[r])
      BY <1>8, <3>4
    <3>6. MergeFits(m, T)'
      BY <1>7, <3>4
    <3>7. MergeFits(view[r], Taken(r))'
      BY <3>2, <3>3, <3>6 DEF MergeFits, Outgrown
    <3> QED BY <2>2, <3>2, <3>3, <3>5, <3>7 DEF Building
  <2> QED BY <2>1, <2>2 DEF Building
<1>10. ASSUME NEW r \in Readers PROVE Answering(r)'
  <2> SUFFICES ASSUME pc[r] = "done" PROVE Answering(r)'
    BY DEF Answering
  <2>1. Answering(r)
    BY DEF FInv
  <2>2. \A i \in Places : ~Missing(view[r], workspaces[i], begin[r], steady'[r])
    BY <1>8, <2>1 DEF Answering
  <2> QED BY <2>1, <2>2 DEF Answering, Places
<1>11. merged' # None => MergeFits(merged, Places)'
  <2> SUFFICES ASSUME merged # None PROVE MergeFits(merged, Places)'
    OBVIOUS
  <2>1. PICK m \in Views : m = merged
    BY <1>2
  <2>2. MergeFits(m, Places)
    BY <2>1 DEF FInv
  <2>3. PICK T \in SUBSET Places : T = Places
    OBVIOUS
  <2>4. MergeFits(m, T)'
    BY <1>7, <2>2, <2>3
  <2> QED BY <2>1, <2>3, <2>4 DEF MergeFits, Outgrown, Places
<1> QED BY <1>3, <1>6, <1>9, <1>10, <1>11 DEF FInv

\* A step of reader r: the other readers and what they read stay as they are.
Moves(r) ==
  /\ UNCHANGED <<caches, routes>>
  /\ \A q \in Readers \ {r} :
       /\ pc'[q] = pc[q] /\ list'[q] = list[q] /\ next'[q] = next[q]
       /\ label'[q] = label[q] /\ view'[q] = view[q]
       /\ begin'[q] = begin[q] /\ steady'[q] = steady[q]

\* A merge fits after such a step if r's own sum is still greater.
LEMMA FitsAfterMove ==
  ASSUME NEW r \in Readers, Moves(r), NEW m, NEW T, MergeFits(m, T), Outgrown(m, T, r)'
  PROVE  MergeFits(m, T)'
<1>1. UNCHANGED <<snapshot, generation, workspaces>>
  BY DEF Moves, caches, routes
<1>2. ASSUME NEW q \in Readers \ {r} PROVE Outgrown(m, T, q)'
  <2>1. Outgrown(m, T, q)
    BY DEF MergeFits
  <2>2. /\ pc'[q] = pc[q] /\ list'[q] = list[q] /\ next'[q] = next[q]
        /\ label'[q] = label[q] /\ begin'[q] = begin[q] /\ steady'[q] = steady[q]
    BY DEF Moves
  <2>3. Least(q)' = Least(q)
    BY <1>1, <2>2 DEF Least
  <2> QED BY <1>1, <2>1, <2>2, <2>3 DEF Outgrown
<1>3. \A q \in Readers : Outgrown(m, T, q)'
  BY <1>2
<1> QED BY <1>1, <1>3 DEF MergeFits

\* A step of reader r that leaves merged alone.
LEMMA MovePreserves ==
  ASSUME FInv, MInv', NEW r \in Readers, Moves(r), merged' = merged,
         \A m \in Views, T \in SUBSET Places : MergeFits(m, T) => Outgrown(m, T, r)',
         Reading(r)', Building(r)', Answering(r)',
         SetNumber = 1 =>
           /\ list'[r] = <<>> /\ label'[r].generation = 0 /\ steady'[r] = {}
           /\ \A w \in Workspaces : begin'[r].generation[w] = 0
           /\ Empty(view'[r])
  PROVE  FInv'
<1>1. UNCHANGED <<snapshot, generation, workspaces, replacing, revision>>
  BY DEF Moves, caches, routes
<1>2. IInv /\ MInv /\ Installed
  BY DEF FInv, MInv
<1>3. /\ \A q \in Readers : view[q] \in Views
      /\ merged # None => merged \in Views
  BY <1>2, Shapes
<1>4. SetNumber' = SetNumber
  BY <1>1 DEF SetNumber
<1>5. Installed'
  <2>1. ASSUME SetNumber = 1 PROVE Blank'
    <3>1. Blank
      BY <1>2, <2>1 DEF Installed
    <3>2. \A q \in Readers :
            /\ list'[q] = <<>> /\ label'[q].generation = 0 /\ steady'[q] = {}
            /\ \A w \in Workspaces : begin'[q].generation[w] = 0
            /\ Empty(view'[q])
      BY <2>1, <3>1 DEF Blank, Moves
    <3> QED BY <1>1, <3>1, <3>2 DEF Blank, Empty
  <2> QED BY <1>1, <1>2, <1>4, <2>1 DEF Installed, Places
<1>6. ASSUME NEW m \in Views, NEW T \in SUBSET Places, MergeFits(m, T)
      PROVE  MergeFits(m, T)'
  <2>1. Outgrown(m, T, r)'
    BY <1>6
  <2> QED BY <1>6, <2>1, FitsAfterMove
<1>7. ASSUME NEW q \in Readers \ {r} PROVE Reading(q)' /\ Building(q)' /\ Answering(q)'
  <2>1. /\ pc'[q] = pc[q] /\ list'[q] = list[q] /\ next'[q] = next[q]
        /\ label'[q] = label[q] /\ view'[q] = view[q]
        /\ begin'[q] = begin[q] /\ steady'[q] = steady[q]
    BY DEF Moves
  <2>2. Reading(q) /\ Building(q) /\ Answering(q)
    BY DEF FInv
  <2>3. Reading(q)'
    BY <1>1, <2>1, <2>2 DEF Reading
  <2>4. Answering(q)'
    BY <1>1, <2>1, <2>2 DEF Answering, Places
  <2>5. CASE pc[q] = "merge"
    <3>1. PICK T \in SUBSET Places : T = Taken(q)
      BY DEF Taken
    <3>2. Taken(q)' = T
      BY <1>1, <2>1, <3>1 DEF Taken, Places
    <3>3. PICK m \in Views : m = view[q]
      BY <1>3
    <3>4. /\ MergeFits(m, T)
          /\ \A i \in T : ~Missing(m, workspaces[i], begin[q], steady[q])
      BY <2>2, <2>5, <3>1, <3>3 DEF Building
    <3>5. MergeFits(m, T)'
      BY <1>6, <3>4
    <3>6. MergeFits(view[q], Taken(q))'
      BY <2>1, <3>2, <3>3, <3>5 DEF MergeFits, Outgrown
    <3> QED BY <1>1, <2>1, <2>3, <2>4, <2>5, <3>2, <3>3, <3>4, <3>6 DEF Building
  <2>6. CASE pc[q] # "merge"
    <3>1. Building(q)'
      BY <1>1, <2>1, <2>2, <2>6 DEF Building
    <3> QED BY <2>3, <2>4, <3>1
  <2> QED BY <2>5, <2>6
<1>8. merged' # None => MergeFits(merged, Places)'
  <2> SUFFICES ASSUME merged # None PROVE MergeFits(merged, Places)'
    OBVIOUS
  <2>1. PICK m \in Views : m = merged
    BY <1>3
  <2>2. PICK T \in SUBSET Places : T = Places
    OBVIOUS
  <2>3. MergeFits(m, T)
    BY <2>1, <2>2 DEF FInv
  <2>4. MergeFits(m, T)'
    BY <1>6, <2>3
  <2>5. merged' = m /\ Places' = T
    BY <1>1, <2>1, <2>2 DEF Places
  <2> QED BY <2>4, <2>5 DEF MergeFits, Outgrown
<1>9. \A q \in Readers : Reading(q)' /\ Building(q)' /\ Answering(q)'
  BY <1>7
<1> QED BY <1>5, <1>8, <1>9 DEF FInv

\* The caches and the second store of replace.
LEMMA FreshOutlivesCaches ==
  ASSUME FInv, MInv',
         \/ \E w \in Workspaces, groups \in SUBSET Groups : StoreSnapshot(w, groups)
         \/ \E w \in Workspaces : AddGeneration(w)
         \/ AddRevision
  PROVE  FInv'
<1>1. IInv /\ MInv /\ Installed
  BY DEF FInv, MInv
<1>2. /\ generation \in [Workspaces -> Nat]
      /\ \A w \in Workspaces : snapshot[w].version \in Nat
  BY <1>1, Shapes
<1>a. /\ snapshot \in [Workspaces -> Snapshots]
      /\ steady \in [Readers -> SUBSET (Workspaces \X Groups)]
  BY <1>1 DEF IInv, TypeOK
<1>b. \A r \in Readers : \A s \in steady[r] :
        s \in Workspaces \X Groups /\ s[2] \in snapshot[s[1]].groups
  <2> SUFFICES ASSUME NEW r \in Readers, NEW s \in steady[r]
               PROVE  s \in Workspaces \X Groups /\ s[2] \in snapshot[s[1]].groups
    OBVIOUS
  <2>1. s \in Workspaces \X Groups
    BY <1>a
  <2>2. PICK w \in Workspaces, g \in Groups : s = <<w, g>>
    BY <2>1
  <2>3. g \in snapshot[w].groups
    BY <2>2 DEF FInv, Reading
  <2> QED BY <2>1, <2>2, <2>3
<1>3. SetNumber = 1 => Members(workspaces) = {} /\ \A w \in Workspaces : generation[w] = 0
  BY <1>1 DEF Installed, Blank, Members
<1>4. ASSUME NEW w \in Workspaces, NEW groups \in SUBSET Groups, StoreSnapshot(w, groups)
      PROVE  FInv'
  <2>1. /\ snapshot' = [snapshot EXCEPT ![w] = [version |-> snapshot[w].version + 1,
                                                groups |-> groups]]
        /\ steady' = [r \in Readers |-> {s \in steady[r] : s[1] = w => s[2] \in groups}]
        /\ w \in Members(workspaces)
        /\ UNCHANGED <<generation, routes, merged, mu, reader, begin>>
    BY <1>4 DEF StoreSnapshot
  <2>2. UNCHANGED workspaces /\ SetNumber' = SetNumber
    BY <2>1 DEF SetNumber, routes
  <2>3. SetNumber # 1
    BY <1>3, <2>1
  <2>4. /\ snapshot'[w] = [version |-> snapshot[w].version + 1, groups |-> groups]
        /\ \A x \in Workspaces \ {w} : snapshot'[x] = snapshot[x]
    BY <1>a, <2>1
  <2>5. snapshot'[w].version = snapshot[w].version + 1 /\ snapshot'[w].groups = groups
    BY <2>4
  <2>6. \A x \in Workspaces :
          /\ generation[x] <= generation'[x]
          /\ snapshot[x].version < snapshot'[x].version \/ snapshot'[x] = snapshot[x]
    BY <1>2, <2>1, <2>4, <2>5
  <2>7. ASSUME NEW r \in Readers
        PROVE  /\ steady'[r] \subseteq steady[r]
               /\ \A s \in steady'[r] : s[2] \in snapshot'[s[1]].groups
    <3>1. steady'[r] = {s \in steady[r] : s[1] = w => s[2] \in groups}
      BY <2>1
    <3>2. ASSUME NEW s \in steady'[r] PROVE s[2] \in snapshot'[s[1]].groups
      <4>1. s \in steady[r] /\ (s[1] = w => s[2] \in groups)
        BY <3>1
      <4>2. s \in Workspaces \X Groups /\ s[2] \in snapshot[s[1]].groups
        BY <1>b, <4>1
      <4>3. s[1] \in Workspaces
        BY <4>2
      <4> QED BY <2>4, <2>5, <4>1, <4>2, <4>3
    <3> QED BY <3>1, <3>2
  <2> QED BY <2>1, <2>2, <2>3, <2>6, <2>7, CachesPreserve
<1>5. ASSUME NEW w \in Workspaces, AddGeneration(w)
      PROVE  FInv'
  <2>1. /\ w \in storing /\ generation' = [generation EXCEPT ![w] = generation[w] + 1]
        /\ UNCHANGED <<snapshot, routes, merged, mu, reader, history>>
    BY <1>5 DEF AddGeneration
  <2>2. UNCHANGED <<workspaces, begin, steady>> /\ SetNumber' = SetNumber
    BY <2>1 DEF SetNumber, routes, history
  <2>3. SetNumber # 1
    <3>1. 1 <= generation[w]
      BY <1>1, <2>1 DEF IInv, Versions
    <3> QED BY <1>3, <3>1
  <2>4. \A x \in Workspaces : generation[x] <= generation'[x]
    BY <1>2, <2>1
  <2> QED BY <1>b, <2>1, <2>2, <2>3, <2>4, CachesPreserve
<1>6. CASE AddRevision
  <2>1. UNCHANGED <<caches, workspaces, merged, mu, reader, history>> /\ SetNumber' = SetNumber
    BY <1>6 DEF AddRevision, SetNumber
  <2>2. UNCHANGED <<snapshot, generation, begin, steady>>
    BY <2>1 DEF caches, history
  <2>3. \A x \in Workspaces : generation[x] <= generation'[x]
    BY <1>2, <2>2
  <2> QED BY <1>b, <2>1, <2>2, <2>3, CachesPreserve
<1> QED BY <1>4, <1>5, <1>6

\* The set is installed: whoever reads began with nothing.
LEMMA FreshOutlivesInstall ==
  ASSUME FInv, MInv', MaxReplacements <= 1,
         NEW set \in Configurations, NEW groups \in SUBSET Groups,
         StoreWorkspaces(set, groups)
  PROVE  FInv'
<1>1. IInv /\ IInv' /\ MInv /\ Installed
  BY DEF FInv, MInv
<1>2. /\ ~replacing /\ revision <= MaxReplacements /\ workspaces' = set /\ replacing'
      /\ UNCHANGED <<storing, revision, merged, mu, reader, history>>
  BY DEF StoreWorkspaces
<1>a. UNCHANGED <<merged, pc, list, next, label, view, begin, steady>>
  BY <1>2 DEF reader, history
<1>3. SetNumber = 1 /\ SetNumber' = 2
  <2>1. SetNumber = revision /\ SetNumber' = revision + 1 /\ revision \in Nat
    BY <1>1, <1>2 DEF SetNumber, IInv, TypeOK
  <2>2. revision \in {1, 2} /\ MaxReplacements \in Nat
    BY <1>1, <2>1, RouterAssumption DEF Installed
  <2>3. revision = 1
    BY <1>2, <2>1, <2>2
  <2> QED BY <2>1, <2>3
<1>4. Blank
  BY <1>1, <1>3 DEF Installed
<1>5. /\ workspaces' \in Seq(Workspaces) /\ generation' \in [Workspaces -> Nat]
      /\ \A w \in Workspaces : snapshot'[w].version \in Nat
      /\ \A r \in Readers : next'[r] \in Nat \ {0} /\ view'[r] \in Views
      /\ merged' # None => merged' \in Views
  BY <1>1, ShapesNext
<1>6. \A w \in Workspaces : snapshot[w] = [version |-> 0, groups |-> {}]
  BY <1>4 DEF Blank, NothingSeen
<1>7. \A w \in Workspaces : snapshot'[w] = snapshot[w] \/ snapshot'[w].version = 1
  BY DEF StoreWorkspaces
<1>8. Installed'
  <2>1. \A i, j \in Places' : workspaces'[i] = workspaces'[j] => i = j
    BY <1>2, RouterAssumption DEF Places
  <2>2. \A w \in Workspaces : snapshot'[w].version = 0 => snapshot'[w].groups = {}
    BY <1>6, <1>7
  <2> QED BY <1>3, <2>1, <2>2 DEF Installed
<1>9. /\ merged' # None => Empty(merged')
      /\ \A r \in Readers :
           /\ list'[r] = <<>> /\ label'[r].generation = 0 /\ steady'[r] = {}
           /\ \A w \in Workspaces : begin'[r].generation[w] = 0
           /\ Empty(view'[r])
  BY <1>4, <1>a DEF Blank
<1>10. Whole(workspaces', generation') \in Nat
  BY <1>5, PartialSums
<1>11. ASSUME NEW m, Empty(m), NEW r \in Readers, NEW w \in Workspaces
       PROVE  ~Missing(m, w, begin'[r], steady'[r])
  <2>1. m.seen[w].version = 0
    BY <1>11 DEF Empty, NothingSeen
  <2>2. begin'[r].generation[w] = 0 /\ steady'[r] = {}
    BY <1>9
  <2>3. ~(m.seen[w].version < begin'[r].generation[w])
    BY <2>1, <2>2
  <2>4. ~\E g \in Groups : <<w, g>> \in steady'[r] /\ g \notin m.seen[w].groups
    BY <2>2
  <2> QED BY <2>3, <2>4 DEF Missing
<1>12. ASSUME NEW m \in Views, Empty(m), NEW T \in SUBSET (Places')
       PROVE  MergeFits(m, T)'
  <2>1. m.generation <= Seen(workspaces', generation', m, T)
    <3>1. Seen(workspaces', generation', m, T) \in Nat
      BY <1>5, SeenIsLess
    <3> QED BY <1>12, <3>1 DEF Empty
  <2>2. \A w \in Workspaces : m.seen[w] = [version |-> 0, groups |-> {}]
    BY <1>12 DEF Empty, NothingSeen
  <2>3. \A w \in Workspaces : m.seen[w].version = 0 /\ m.seen[w].groups = {}
    BY <2>2
  <2>4. \A i \in T : workspaces'[i] \in Workspaces
    BY <1>5 DEF Places
  <2>5. Holds(m, T, workspaces', snapshot')
    <3>1. \A w \in Workspaces : \/ m.seen[w].version < snapshot'[w].version
                                \/ m.seen[w] = snapshot'[w]
      BY <1>6, <1>7, <2>2, <2>3
    <3>2. \A i \in T : m.seen[workspaces'[i]].groups = {}
      BY <2>3, <2>4
    <3>3. \A g \in Groups : m.owners[g] = None
      BY <1>12 DEF Empty
    <3> QED BY <3>1, <3>2, <3>3 DEF Holds
  <2>6. \A r \in Readers : Outgrown(m, T, r)'
    BY <1>11, <1>12, <2>4 DEF Outgrown
  <2> QED BY <2>1, <2>5, <2>6 DEF MergeFits
<1>13. ASSUME NEW r \in Readers PROVE Reading(r)' /\ Building(r)' /\ Answering(r)'
  <2>1. Reading(r) /\ list[r] = <<>> /\ list'[r] = <<>> /\ label'[r].generation = 0
    BY <1>4, <1>9 DEF FInv, Blank
  <2>2. Empty(view'[r]) /\ view'[r] \in Views
    BY <1>5, <1>9
  <2>3. Reading(r)'
    <3>1. pc'[r] = "sum" =>
            label'[r].generation <= Partial(list'[r], generation', next'[r] - 1)
      <4> SUFFICES ASSUME pc'[r] = "sum"
                   PROVE  0 <= Partial(<<>>, generation', next'[r] - 1)
        BY <2>1
      <4>1. Len(<<>>) = 0 /\ <<>> \in Seq(Workspaces)
        OBVIOUS
      <4>2. next'[r] <= Len(<<>>) + 1
        BY <1>a, <2>1 DEF Reading
      <4>3. next'[r] - 1 = 0
        BY <1>5, <4>1, <4>2
      <4>4. Partial(<<>>, generation', 0) = 0
        BY <1>5, <4>1, PartialSums
      <4> QED BY <4>3, <4>4
    <3>2. pc'[r] \in {"check", "lock"} =>
            label'[r].generation <= Whole(workspaces', generation')
      BY <1>10, <2>1
    <3>3. \A w \in Workspaces : begin'[r].generation[w] <= generation'[w]
      BY <1>5, <1>9
    <3>4. \A w \in Workspaces, g \in Groups :
            <<w, g>> \in steady'[r] => g \in snapshot'[w].groups
      BY <1>9
    <3>5. /\ pc'[r] = "idle" => label'[r] = NoLabel
          /\ pc'[r] \in {"sum", "merge"} => next'[r] <= Len(list'[r]) + 1
      BY <1>a, <2>1 DEF Reading
    <3> QED BY <2>1, <3>1, <3>2, <3>3, <3>4, <3>5 DEF Reading
  <2>4. PICK m \in Views : m = view'[r]
    BY <2>2
  <2>5. PICK T \in SUBSET (Places') : T = Taken(r)'
    BY DEF Taken
  <2>6. \A i \in Places' : workspaces'[i] \in Workspaces
    BY <1>5 DEF Places
  <2>7. Building(r)'
    <3>1. view'[r].generation <= Whole(workspaces', generation')
          /\ \A g \in Groups : view'[r].owners[g] = None
      BY <1>10, <2>2 DEF Empty
    <3>2. MergeFits(m, T)'
      BY <1>12, <2>2, <2>4
    <3>3. MergeFits(view[r], Taken(r))'
      BY <2>4, <2>5, <3>2 DEF MergeFits, Outgrown
    <3>4. \A i \in Taken(r)' : ~Missing(view'[r], workspaces'[i], begin'[r], steady'[r])
      BY <1>11, <2>2, <2>4, <2>5, <2>6
    <3> QED BY <3>1, <3>3, <3>4 DEF Building
  <2>8. Answering(r)'
    <3>1. \A i \in Places' : ~Missing(m, workspaces'[i], begin'[r], steady'[r])
      BY <1>11, <2>2, <2>4, <2>6
    <3>2. \A i \in Places' : m.seen[workspaces'[i]].groups = {}
      BY <2>2, <2>4, <2>6 DEF Empty, NothingSeen
    <3> QED BY <2>4, <3>1, <3>2 DEF Answering
  <2> QED BY <2>3, <2>7, <2>8
<1>14. merged' # None => MergeFits(merged, Places)'
  <2> SUFFICES ASSUME merged' # None PROVE MergeFits(merged, Places)'
    OBVIOUS
  <2>1. PICK m \in Views : m = merged'
    BY <1>5
  <2>2. PICK T \in SUBSET (Places') : T = Places'
    OBVIOUS
  <2>3. MergeFits(m, T)'
    BY <1>9, <1>12, <2>1
  <2> QED BY <2>1, <2>2, <2>3 DEF MergeFits, Outgrown
<1> QED BY <1>8, <1>13, <1>14 DEF FInv

\* The steps that compute the label.  A caller that may rely on more than a
\* merge holds sees a generation beyond that merge, and sums up to more.
LEMMA FreshOutlivesLabel ==
  ASSUME FInv, MInv', NEW r \in Readers,
         Call(r) \/ SumOne(r) \/ LoadRevision(r)
  PROVE  FInv'
<1> USE DEF Goto, RangeOver
<1>1. IInv /\ IInv' /\ MInv /\ Installed /\ Reading(r)
  BY DEF FInv, MInv
<1>2. /\ workspaces \in Seq(Workspaces) /\ Len(workspaces) \in Nat
      /\ \A i \in Places : workspaces[i] \in Workspaces
      /\ generation \in [Workspaces -> Nat]
      /\ \A w \in Workspaces : /\ snapshot[w].version \in Nat
                               /\ w \notin storing => snapshot[w].version = generation[w]
      /\ list[r] \in Seq(Workspaces) /\ Len(list[r]) \in Nat
      /\ next[r] \in Nat \ {0} /\ label[r] \in Labels /\ label[r].generation \in Nat
  BY <1>1, Shapes
<1>a. /\ pc \in [Readers -> {"idle", "sum", "check", "lock", "list", "merge", "done"}]
      /\ list \in [Readers -> Seq(Workspaces)] /\ next \in [Readers -> Nat \ {0}]
      /\ label \in [Readers -> Labels]
      /\ begin \in [Readers -> [revision : Nat, generation : [Workspaces -> 0..MaxGeneration]]]
      /\ steady \in [Readers -> SUBSET (Workspaces \X Groups)]
  BY <1>1 DEF IInv, TypeOK
<1>b. SetNumber = 1 => Blank
  BY <1>1 DEF Installed
<1>3. CASE Call(r)
  <2> DEFINE b == [revision |-> revision,
                   generation |-> IF replacing THEN NothingPublished.generation
                                  ELSE generation]
             s == {x \in Workspaces \X Groups : /\ x[1] \in Members(workspaces) \ storing
                                                /\ x[2] \in snapshot[x[1]].groups}
  <2>1. /\ pc[r] = "idle" /\ pc' = [pc EXCEPT ![r] = "sum"]
        /\ list' = [list EXCEPT ![r] = workspaces] /\ next' = [next EXCEPT ![r] = 1]
        /\ begin' = [begin EXCEPT ![r] = b] /\ steady' = [steady EXCEPT ![r] = s]
        /\ UNCHANGED <<caches, routes, merged, mu, label, view>>
    BY <1>3 DEF Call
  <2>2. /\ pc'[r] = "sum" /\ list'[r] = workspaces /\ next'[r] = 1
        /\ begin'[r] = b /\ steady'[r] = s /\ label'[r] = NoLabel
    BY <1>1, <1>a, <2>1 DEF Reading
  <2>3. Moves(r)
    BY <1>a, <2>1 DEF Moves
  <2>4. UNCHANGED <<snapshot, generation, workspaces>>
    BY <2>1 DEF caches, routes
  <2>5. \A w \in Workspaces : b.generation[w] <= generation[w] /\ b.generation[w] \in Nat
    BY <1>2 DEF NothingPublished
  <2>6. \A w \in Workspaces, g \in Groups :
          <<w, g>> \in s => w \notin storing /\ g \in snapshot[w].groups
    OBVIOUS
  <2>7. SetNumber = 1 => s = {} /\ \A w \in Workspaces : b.generation[w] = 0
    <3> SUFFICES ASSUME SetNumber = 1
                 PROVE  s = {} /\ \A w \in Workspaces : b.generation[w] = 0
      OBVIOUS
    <3>1. workspaces = <<>> /\ \A w \in Workspaces : generation[w] = 0
      BY <1>b DEF Blank
    <3>2. Members(workspaces) = {}
      BY <3>1 DEF Members
    <3> QED BY <3>1, <3>2 DEF NothingPublished
  <2> HIDE DEF b, s
  <2>8. /\ Partial(workspaces, generation, 0) = 0
        /\ Whole(workspaces, generation) \in Nat
    BY <1>2, PartialSums
  <2>9. Least(r)' = Whole(workspaces, generation)
    <3>1. label'[r].generation = 0
      BY <2>2 DEF NoLabel
    <3> QED BY <2>2, <2>4, <2>8, <3>1 DEF Least
  <2>10. Reading(r)'
    BY <2>2, <2>4, <2>5, <2>6, <2>8, <1>2 DEF Reading, NoLabel
  <2>11. Building(r)' /\ Answering(r)'
    BY <2>2 DEF Building, Answering
  <2>12. ASSUME NEW m \in Views, NEW T \in SUBSET Places, MergeFits(m, T)
         PROVE  Outgrown(m, T, r)'
    <3> SUFFICES ASSUME NEW i \in T, Missing(m, workspaces[i], b, s)
                 PROVE  m.generation < Whole(workspaces, generation)
      BY <2>2, <2>4, <2>9 DEF Outgrown
    <3> DEFINE w == workspaces[i]
    <3>1. w \in Workspaces /\ i \in Places
      BY <1>2
    <3>2. m.generation \in Nat /\ m.seen[w].version \in Nat
      BY <3>1, ViewShape
    <3>3. m.seen[w].version < generation[w]
      <4>1. CASE m.seen[w].version < b.generation[w]
        BY <1>2, <2>5, <3>1, <3>2, <4>1
      <4>2. ASSUME NEW g \in Groups, <<w, g>> \in s, g \notin m.seen[w].groups
            PROVE  m.seen[w].version < generation[w]
        <5>1. w \notin storing /\ g \in snapshot[w].groups
          BY <2>6, <3>1, <4>2
        <5>2. m.seen[w].version < snapshot[w].version \/ m.seen[w] = snapshot[w]
          BY <2>12, <3>1 DEF MergeFits, Holds
        <5>3. m.seen[w] # snapshot[w]
          BY <4>2, <5>1
        <5> QED BY <1>2, <3>1, <5>1, <5>2, <5>3
      <4> QED BY <4>1, <4>2 DEF Missing
    <3>4. i \in T \cap (1..Len(workspaces))
      BY <3>1 DEF Places
    <3>5. Seen(workspaces, generation, m, T) < Whole(workspaces, generation)
      BY <1>2, <3>3, <3>4, SeenIsLess
    <3>6. Seen(workspaces, generation, m, T) \in Nat
      BY <1>2, SeenIsLess
    <3>7. m.generation <= Seen(workspaces, generation, m, T)
      BY <2>12 DEF MergeFits
    <3> QED BY <2>8, <3>2, <3>5, <3>6, <3>7
  <2>13. SetNumber = 1 =>
           /\ list'[r] = <<>> /\ label'[r].generation = 0 /\ steady'[r] = {}
           /\ \A w \in Workspaces : begin'[r].generation[w] = 0
           /\ Empty(view'[r])
    BY <1>b, <2>1, <2>2, <2>7 DEF Blank, NoLabel
  <2>14. merged' = merged
    BY <2>1
  <2> QED BY <2>3, <2>10, <2>11, <2>12, <2>13, <2>14, MovePreserves
<1>4. CASE SumOne(r)
  <2> DEFINE k == next[r]
             w == list[r][k]
             l == [label[r] EXCEPT !.generation = label[r].generation + generation[w]]
  <2>1. /\ pc[r] = "sum" /\ k <= Len(list[r])
        /\ label' = [label EXCEPT ![r] = l]
        /\ next' = [next EXCEPT ![r] = k + 1]
        /\ UNCHANGED <<caches, routes, merged, mu, pc, list, view, history>>
    BY <1>4, <1>a DEF SumOne
  <2>2. l.generation = label[r].generation + generation[w]
    BY <1>2 DEF Labels
  <2> HIDE DEF l
  <2>3. /\ pc'[r] = "sum" /\ list'[r] = list[r] /\ next'[r] = k + 1 /\ label'[r] = l
        /\ begin'[r] = begin[r] /\ steady'[r] = steady[r] /\ view'[r] = view[r]
    BY <1>a, <2>1 DEF history
  <2>4. Moves(r)
    BY <1>a, <2>1 DEF Moves, history
  <2>5. UNCHANGED <<snapshot, generation, workspaces>>
    BY <2>1 DEF caches, routes
  <2>6. k \in 1..Len(list[r]) /\ k - 1 \in 0..Len(list[r]) /\ k \in 0..Len(list[r])
        /\ (k + 1) - 1 = k
    BY <1>2, <2>1
  <2>7. /\ Partial(list[r], generation, k) = Partial(list[r], generation, k - 1) + generation[w]
        /\ Partial(list[r], generation, k) \in Nat
        /\ Partial(list[r], generation, k - 1) \in Nat
        /\ Whole(list[r], generation) \in Nat
    BY <1>2, <2>6, PartialSums
  <2>8. w \in Workspaces /\ generation[w] \in Nat
    BY <1>2, <2>6
  <2>9. Least(r)' = Least(r)
    <3>1. Least(r)' = l.generation
            + (Whole(list[r], generation) - Partial(list[r], generation, k))
      BY <2>3, <2>5, <2>6 DEF Least
    <3>2. Least(r) = label[r].generation
            + (Whole(list[r], generation) - Partial(list[r], generation, k - 1))
      BY <2>1 DEF Least
    <3> HIDE DEF k, w
    <3> QED BY <1>2, <2>2, <2>7, <2>8, <3>1, <3>2
  <2>10. Reading(r)'
    <3>1. label[r].generation <= Partial(list[r], generation, k - 1)
      BY <1>1, <2>1 DEF Reading
    <3>2. l.generation <= Partial(list[r], generation, k)
      <4> HIDE DEF k, w
      <4> QED BY <1>2, <2>2, <2>7, <2>8, <3>1
    <3>3. next'[r] <= Len(list[r]) + 1
      BY <1>2, <2>3, <2>6
    <3>4. label'[r].generation <= Partial(list'[r], generation', next'[r] - 1)
      BY <2>3, <2>5, <2>6, <3>2
    <3> HIDE DEF k, w
    <3> QED BY <1>1, <2>3, <2>5, <3>3, <3>4 DEF Reading
  <2>11. Building(r)' /\ Answering(r)'
    BY <2>3 DEF Building, Answering
  <2>12. ASSUME NEW m \in Views, NEW T \in SUBSET Places, MergeFits(m, T)
         PROVE  Outgrown(m, T, r)'
    BY <2>1, <2>3, <2>5, <2>9, <2>12 DEF MergeFits, Outgrown
  <2>13. SetNumber # 1
    <3>1. Len(<<>>) = 0
      OBVIOUS
    <3> QED BY <1>b, <2>6, <3>1 DEF Blank
  <2>14. merged' = merged
    BY <2>1
  <2> QED BY <2>4, <2>10, <2>11, <2>12, <2>13, <2>14, MovePreserves
<1>5. CASE LoadRevision(r)
  <2> DEFINE l == [label[r] EXCEPT !.revision = revision]
  <2>1. /\ pc[r] = "sum" /\ next[r] > Len(list[r])
        /\ label' = [label EXCEPT ![r] = l]
        /\ pc' = [pc EXCEPT ![r] = "check"]
        /\ list' = [list EXCEPT ![r] = <<>>] /\ next' = [next EXCEPT ![r] = 1]
        /\ UNCHANGED <<caches, routes, merged, mu, view, history>>
    BY <1>5, <1>a DEF LoadRevision
  <2>2. l.generation = label[r].generation
    BY <1>2 DEF Labels
  <2> HIDE DEF l
  <2>3. /\ pc'[r] = "check" /\ list'[r] = <<>> /\ next'[r] = 1 /\ label'[r] = l
        /\ begin'[r] = begin[r] /\ steady'[r] = steady[r] /\ view'[r] = view[r]
    BY <1>a, <2>1 DEF history
  <2>4. Moves(r)
    BY <1>a, <2>1 DEF Moves, history
  <2>5. UNCHANGED <<snapshot, generation, workspaces>>
    BY <2>1 DEF caches, routes
  <2>6. next[r] - 1 = Len(list[r])
    BY <1>1, <1>2, <2>1 DEF Reading
  <2>7. /\ Whole(list[r], generation) = Partial(list[r], generation, Len(list[r]))
        /\ Whole(list[r], generation) \in Nat
    BY <1>2, PartialSums
  <2>8. Least(r)' = Least(r)
    <3>1. Least(r)' = label[r].generation
      BY <2>2, <2>3 DEF Least
    <3>2. Least(r) = label[r].generation
            + (Whole(list[r], generation) - Whole(list[r], generation))
      BY <2>1, <2>6, <2>7 DEF Least
    <3> QED BY <1>2, <2>7, <3>1, <3>2
  <2>9. Reading(r)'
    <3>1. label[r].generation <= Whole(list[r], generation)
      BY <1>1, <2>1, <2>6, <2>7 DEF Reading
    <3>2. Whole(list[r], generation) <= Whole(workspaces, generation)
      <4>1. Whole(workspaces, generation) \in Nat
        BY <1>2, PartialSums
      <4>2. CASE list[r] = workspaces
        BY <4>1, <4>2
      <4>3. CASE list[r] = <<>>
        <5>1. Len(list[r]) = 0
          BY <4>3
        <5>2. Partial(list[r], generation, 0) = 0
          BY <1>2, PartialSums
        <5> QED BY <2>7, <4>1, <5>1, <5>2
      <4> QED BY <1>1, <4>2, <4>3 DEF Reading
    <3>3. Whole(workspaces, generation) \in Nat
      BY <1>2, PartialSums
    <3>4. label'[r].generation <= Whole(workspaces', generation')
      BY <1>2, <2>2, <2>3, <2>5, <2>7, <3>1, <3>2, <3>3
    <3> QED BY <1>1, <2>3, <2>5, <3>4 DEF Reading
  <2>10. Building(r)' /\ Answering(r)'
    BY <2>3 DEF Building, Answering
  <2>11. ASSUME NEW m \in Views, NEW T \in SUBSET Places, MergeFits(m, T)
         PROVE  Outgrown(m, T, r)'
    BY <2>1, <2>3, <2>5, <2>8, <2>11 DEF MergeFits, Outgrown
  <2>12. SetNumber = 1 =>
           /\ list'[r] = <<>> /\ label'[r].generation = 0 /\ steady'[r] = {}
           /\ \A w \in Workspaces : begin'[r].generation[w] = 0
           /\ Empty(view'[r])
    BY <1>b, <2>2, <2>3 DEF Blank
  <2>13. merged' = merged
    BY <2>1
  <2> QED BY <2>4, <2>9, <2>10, <2>11, <2>12, <2>13, MovePreserves
<1> QED BY <1>3, <1>4, <1>5

\* The two checks of the label, and the return.  A cached merge with the
\* caller's own sum lacks nothing the caller may rely on.
LEMMA FreshOutlivesChecks ==
  ASSUME FInv, MInv', NEW r \in Readers, FastPath(r) \/ Lock(r) \/ Return(r)
  PROVE  FInv'
<1> USE DEF Goto
<1>1. IInv /\ IInv' /\ MInv /\ Installed /\ Reading(r)
  BY DEF FInv, MInv
<1>2. /\ \A i \in Places : workspaces[i] \in Workspaces
      /\ workspaces \in Seq(Workspaces) /\ generation \in [Workspaces -> Nat]
      /\ label[r] \in Labels /\ label[r].generation \in Nat
      /\ merged # None => merged \in Views
  BY <1>1, Shapes
<1>a. /\ pc \in [Readers -> {"idle", "sum", "check", "lock", "list", "merge", "done"}]
      /\ label \in [Readers -> Labels] /\ view \in [Readers -> Views]
      /\ begin \in [Readers -> [revision : Nat, generation : [Workspaces -> 0..MaxGeneration]]]
      /\ steady \in [Readers -> SUBSET (Workspaces \X Groups)]
  BY <1>1 DEF IInv, TypeOK
<1>b. SetNumber = 1 => Blank
  BY <1>1 DEF Installed
<1>3. CASE /\ pc[r] \in {"check", "lock"} /\ labelled(merged, label[r])
           /\ pc' = [pc EXCEPT ![r] = "done"] /\ view' = [view EXCEPT ![r] = merged]
           /\ UNCHANGED <<caches, routes, merged, list, next, label, history>>
  <2>1. /\ pc'[r] = "done" /\ view'[r] = merged /\ list'[r] = list[r]
        /\ label'[r] = label[r] /\ begin'[r] = begin[r] /\ steady'[r] = steady[r]
    BY <1>3, <1>a DEF history
  <2>2. Moves(r)
    BY <1>3, <1>a DEF Moves, history
  <2>3. UNCHANGED <<snapshot, generation, workspaces>>
    BY <1>3 DEF caches, routes
  <2>4. /\ merged # None /\ merged \in Views /\ MergeFits(merged, Places)
        /\ merged.generation = label[r].generation
    BY <1>2, <1>3 DEF labelled, FInv
  <2>5. ASSUME NEW i \in Places PROVE ~Missing(merged, workspaces[i], begin[r], steady[r])
    <3>1. Missing(merged, workspaces[i], begin[r], steady[r]) => merged.generation < Least(r)
      BY <1>3, <2>4 DEF MergeFits, Outgrown
    <3>2. Least(r) = label[r].generation
      BY <1>3 DEF Least
    <3> QED BY <1>2, <2>4, <3>1, <3>2
  <2>6. Answering(r)'
    BY <2>1, <2>3, <2>4, <2>5 DEF Answering, Places, MergeFits, Holds
  <2>7. Reading(r)'
    BY <1>1, <2>1, <2>3 DEF Reading
  <2>8. Building(r)'
    BY <2>1 DEF Building
  <2>9. \A m \in Views, T \in SUBSET Places : MergeFits(m, T) => Outgrown(m, T, r)'
    BY <2>1 DEF Outgrown
  <2>10. SetNumber = 1 =>
           /\ list'[r] = <<>> /\ label'[r].generation = 0 /\ steady'[r] = {}
           /\ \A w \in Workspaces : begin'[r].generation[w] = 0
           /\ Empty(view'[r])
    BY <1>b, <2>1, <2>4 DEF Blank
  <2>11. merged' = merged
    BY <1>3
  <2> QED BY <2>2, <2>6, <2>7, <2>8, <2>9, <2>10, <2>11, MovePreserves
<1>4. CASE FastPath(r) /\ ~labelled(merged, label[r])
  <2>1. /\ pc[r] = "check" /\ pc' = [pc EXCEPT ![r] = "lock"]
        /\ UNCHANGED <<caches, routes, merged, view, list, next, label, history>>
    BY <1>4 DEF FastPath
  <2>2. /\ pc'[r] = "lock" /\ view'[r] = view[r] /\ list'[r] = list[r] /\ merged' = merged
        /\ label'[r] = label[r] /\ begin'[r] = begin[r] /\ steady'[r] = steady[r]
    BY <1>a, <2>1 DEF history
  <2>3. Moves(r)
    BY <1>a, <2>1 DEF Moves, history
  <2>4. UNCHANGED <<snapshot, generation, workspaces>>
    BY <2>1 DEF caches, routes
  <2>5. Least(r)' = Least(r)
    BY <2>1, <2>2 DEF Least
  <2>6. Reading(r)'
    BY <1>1, <2>1, <2>2, <2>4 DEF Reading
  <2>7. Building(r)' /\ Answering(r)'
    BY <2>2 DEF Building, Answering
  <2>8. ASSUME NEW m \in Views, NEW T \in SUBSET Places, MergeFits(m, T)
        PROVE  Outgrown(m, T, r)'
    BY <2>1, <2>2, <2>4, <2>5, <2>8 DEF MergeFits, Outgrown
  <2>9. SetNumber = 1 =>
          /\ list'[r] = <<>> /\ label'[r].generation = 0 /\ steady'[r] = {}
          /\ \A w \in Workspaces : begin'[r].generation[w] = 0
          /\ Empty(view'[r])
    BY <1>b, <2>2 DEF Blank
  <2> QED BY <2>2, <2>3, <2>6, <2>7, <2>8, <2>9, MovePreserves
<1>5. CASE Lock(r) /\ ~labelled(merged, label[r])
  <2> DEFINE v == [EmptyView EXCEPT !.generation = label[r].generation,
                                    !.revision = label[r].revision]
  <2>1. /\ pc[r] = "lock" /\ pc' = [pc EXCEPT ![r] = "list"]
        /\ view' = [view EXCEPT ![r] = v]
        /\ UNCHANGED <<caches, routes, merged, list, next, label, history>>
    BY <1>5 DEF Lock
  <2>2. /\ v.generation = label[r].generation /\ v.seen = NothingSeen
        /\ \A g \in Groups : v.owners[g] = None
    BY DEF EmptyView
  <2> HIDE DEF v
  <2>3. /\ pc'[r] = "list" /\ view'[r] = v /\ list'[r] = list[r] /\ merged' = merged
        /\ label'[r] = label[r] /\ begin'[r] = begin[r] /\ steady'[r] = steady[r]
    BY <1>a, <2>1 DEF history
  <2>4. Moves(r)
    BY <1>a, <2>1 DEF Moves, history
  <2>5. UNCHANGED <<snapshot, generation, workspaces>>
    BY <2>1 DEF caches, routes
  <2>6. Reading(r)'
    BY <1>1, <2>1, <2>3, <2>5 DEF Reading
  <2>7. Building(r)'
    BY <1>1, <2>1, <2>2, <2>3, <2>5 DEF Building, Reading
  <2>8. Answering(r)' /\ \A m \in Views, T \in SUBSET Places :
                           MergeFits(m, T) => Outgrown(m, T, r)'
    BY <2>3 DEF Answering, Outgrown
  <2>9. SetNumber = 1 =>
          /\ list'[r] = <<>> /\ label'[r].generation = 0 /\ steady'[r] = {}
          /\ \A w \in Workspaces : begin'[r].generation[w] = 0
          /\ Empty(view'[r])
    BY <1>b, <2>2, <2>3 DEF Blank, Empty
  <2> QED BY <2>3, <2>4, <2>6, <2>7, <2>8, <2>9, MovePreserves
<1>6. CASE Return(r)
  <2>1. /\ pc[r] = "done" /\ pc' = [pc EXCEPT ![r] = "idle"]
        /\ label' = [label EXCEPT ![r] = NoLabel]
        /\ view' = [view EXCEPT ![r] = EmptyView]
        /\ begin' = [begin EXCEPT ![r] = NothingPublished]
        /\ steady' = [steady EXCEPT ![r] = {}]
        /\ UNCHANGED <<caches, routes, merged, mu, list, next>>
    BY <1>6 DEF Return
  <2>2. /\ pc'[r] = "idle" /\ view'[r] = EmptyView /\ list'[r] = list[r] /\ merged' = merged
        /\ label'[r] = NoLabel /\ begin'[r] = NothingPublished /\ steady'[r] = {}
    BY <1>a, <2>1
  <2>3. Moves(r)
    BY <1>a, <2>1 DEF Moves
  <2>4. UNCHANGED <<snapshot, generation, workspaces>>
    BY <2>1 DEF caches, routes
  <2>5. \A w \in Workspaces : begin'[r].generation[w] = 0 /\ generation[w] \in Nat
    BY <1>2, <2>2 DEF NothingPublished
  <2>6. Reading(r)'
    BY <1>1, <2>2, <2>4, <2>5 DEF Reading
  <2>7. Building(r)' /\ Answering(r)'
    BY <2>2 DEF Building, Answering
  <2>8. \A m \in Views, T \in SUBSET Places : MergeFits(m, T) => Outgrown(m, T, r)'
    BY <2>2 DEF Outgrown
  <2>9. SetNumber = 1 =>
          /\ list'[r] = <<>> /\ label'[r].generation = 0 /\ steady'[r] = {}
          /\ \A w \in Workspaces : begin'[r].generation[w] = 0
          /\ Empty(view'[r])
    <3>1. EmptyView.generation = 0 /\ EmptyView.seen = NothingSeen
          /\ \A g \in Groups : EmptyView.owners[g] = None
      BY DEF EmptyView
    <3>2. Empty(EmptyView)
      BY <3>1 DEF Empty
    <3>3. NoLabel.generation = 0
      BY DEF NoLabel
    <3> QED BY <1>b, <2>2, <2>5, <3>2, <3>3 DEF Blank
  <2> QED BY <2>2, <2>3, <2>6, <2>7, <2>8, <2>9, MovePreserves
<1>7. CASE FastPath(r) /\ labelled(merged, label[r])
  <2>1. /\ pc[r] \in {"check", "lock"} /\ labelled(merged, label[r])
        /\ pc' = [pc EXCEPT ![r] = "done"] /\ view' = [view EXCEPT ![r] = merged]
        /\ UNCHANGED <<caches, routes, merged, list, next, label, history>>
    BY <1>7 DEF FastPath
  <2> QED BY <1>3, <2>1
<1>8. CASE Lock(r) /\ labelled(merged, label[r])
  <2>1. /\ pc[r] \in {"check", "lock"} /\ labelled(merged, label[r])
        /\ pc' = [pc EXCEPT ![r] = "done"] /\ view' = [view EXCEPT ![r] = merged]
        /\ UNCHANGED <<caches, routes, merged, list, next, label, history>>
    BY <1>8 DEF Lock
  <2> QED BY <1>3, <2>1
<1> QED BY <1>4, <1>5, <1>6, <1>7, <1>8

\* The loop that merges.
LEMMA FreshOutlivesMerging ==
  ASSUME FInv, MInv', NEW r \in Readers, StartMerge(r) \/ MergeOne(r)
  PROVE  FInv'
<1> USE DEF Goto, RangeOver
<1>1. IInv /\ IInv' /\ MInv /\ Installed /\ Reading(r) /\ Building(r)
  BY DEF FInv, MInv
<1>2. /\ workspaces \in Seq(Workspaces) /\ Len(workspaces) \in Nat
      /\ \A i \in Places : workspaces[i] \in Workspaces
      /\ generation \in [Workspaces -> Nat]
      /\ \A w \in Workspaces : /\ snapshot[w] \in Snapshots /\ snapshot[w].version \in Nat
                               /\ generation[w] <= snapshot[w].version
      /\ next[r] \in Nat \ {0} /\ view[r] \in Views
      /\ begin[r].generation \in [Workspaces -> Nat]
  BY <1>1, Shapes
<1>a. /\ pc \in [Readers -> {"idle", "sum", "check", "lock", "list", "merge", "done"}]
      /\ list \in [Readers -> Seq(Workspaces)] /\ next \in [Readers -> Nat \ {0}]
      /\ view \in [Readers -> Views]
  BY <1>1 DEF IInv, TypeOK
<1>b. SetNumber = 1 => Blank
  BY <1>1 DEF Installed
<1>c. view'[r] \in Views
  BY <1>1, ShapesNext
<1>3. CASE StartMerge(r)
  <2> DEFINE v == [view[r] EXCEPT !.set = SetNumber]
  <2>1. /\ pc[r] = "list" /\ pc' = [pc EXCEPT ![r] = "merge"]
        /\ list' = [list EXCEPT ![r] = workspaces] /\ next' = [next EXCEPT ![r] = 1]
        /\ view' = [view EXCEPT ![r] = v]
        /\ UNCHANGED <<caches, routes, merged, mu, label, history>>
    BY <1>3, <1>a DEF StartMerge, SetNumber
  <2>2. v.generation = view[r].generation /\ v.seen = view[r].seen /\ v.owners = view[r].owners
    BY <1>2 DEF Views
  <2> HIDE DEF v
  <2>3. /\ pc'[r] = "merge" /\ view'[r] = v /\ list'[r] = workspaces /\ next'[r] = 1
        /\ merged' = merged
        /\ label'[r] = label[r] /\ begin'[r] = begin[r] /\ steady'[r] = steady[r]
    BY <1>a, <2>1 DEF history
  <2>4. Moves(r)
    BY <1>a, <2>1 DEF Moves, history
  <2>5. UNCHANGED <<snapshot, generation, workspaces>>
    BY <2>1 DEF caches, routes
  <2>6. Taken(r)' = {}
    BY <2>3, <2>5 DEF Taken, Places
  <2>7. Reading(r)'
    BY <1>1, <1>2, <2>1, <2>3, <2>5 DEF Reading
  <2>8. /\ v.generation <= Whole(workspaces, generation) /\ v.seen = NothingSeen
        /\ \A g \in Groups : v.owners[g] = None
    BY <1>1, <2>1, <2>2 DEF Building, MInv, BuiltFits
  <2>9. PICK m \in Views : m = v
    BY <1>c, <2>3
  <2>10. MergeFits(m, {})'
    <3>1. m.generation <= Seen(workspaces, generation, m, {})
      BY <1>2, <2>8, <2>9, SeenIsLess
    <3>2. \A w \in Workspaces : \/ m.seen[w].version < snapshot[w].version
                                \/ m.seen[w] = snapshot[w]
      <4> TAKE w \in Workspaces
      <4>1. m.seen[w] = [version |-> 0, groups |-> {}]
        BY <2>8, <2>9 DEF NothingSeen
      <4>2. CASE snapshot[w].version = 0
        <5>1. snapshot[w].groups = {}
          BY <1>1, <4>2 DEF Installed
        <5>2. snapshot[w] = [version |-> snapshot[w].version, groups |-> snapshot[w].groups]
          BY <1>2 DEF Snapshots
        <5> QED BY <4>1, <4>2, <5>1, <5>2
      <4>3. CASE snapshot[w].version # 0
        <5>1. m.seen[w].version = 0
          BY <4>1
        <5> QED BY <1>2, <4>3, <5>1
      <4> QED BY <4>2, <4>3
    <3>3. Holds(m, {}, workspaces, snapshot)
      BY <2>8, <2>9, <3>2 DEF Holds
    <3> QED BY <2>5, <3>1, <3>3 DEF MergeFits, Outgrown
  <2>11. MergeFits(view[r], Taken(r))'
    BY <2>3, <2>6, <2>9, <2>10 DEF MergeFits, Outgrown
  <2>12. Building(r)' /\ Answering(r)'
    BY <2>3, <2>6, <2>11 DEF Building, Answering
  <2>13. \A q \in Views, T \in SUBSET Places : MergeFits(q, T) => Outgrown(q, T, r)'
    BY <2>3 DEF Outgrown
  <2>14. SetNumber = 1 =>
           /\ list'[r] = <<>> /\ label'[r].generation = 0 /\ steady'[r] = {}
           /\ \A w \in Workspaces : begin'[r].generation[w] = 0
           /\ Empty(view'[r])
    BY <1>b, <2>2, <2>3 DEF Blank, Empty
  <2> QED BY <2>3, <2>4, <2>7, <2>12, <2>13, <2>14, MovePreserves
<1>4. CASE MergeOne(r)
  <2> DEFINE k == next[r]
             w == workspaces[k]
             m == view[r]
             owners == [g \in Groups |->
                          IF m.owners[g] = None /\ g \in snapshot[w].groups
                          THEN w ELSE m.owners[g]]
             seen == [m.seen EXCEPT ![w] = snapshot[w]]
             grown == [m EXCEPT !.seen = seen, !.owners = owners]
  <2>1. /\ pc[r] = "merge" /\ k <= Len(list[r])
        /\ next' = [next EXCEPT ![r] = k + 1]
        /\ UNCHANGED <<caches, routes, merged, mu, pc, list, label, history>>
    BY <1>4 DEF MergeOne
  <2>2. list[r] = workspaces /\ k \in Places
    <3>1. list[r] # <<>>
      <4>1. Len(<<>>) = 0
        OBVIOUS
      <4> QED BY <1>2, <2>1, <4>1
    <3> QED BY <1>1, <1>2, <2>1, <3>1 DEF Reading, Places
  <2>3. view' = [view EXCEPT ![r] = grown]
    BY <1>4, <2>2, Zenon DEF MergeOne
  <2>4. w \in Workspaces /\ w # None
    BY <1>2, <2>2, RouterAssumption
  <2>5. /\ m.seen \in [Workspaces -> Snapshots] /\ m.generation \in Nat
        /\ m.owners \in [Groups -> Workspaces \cup {None}]
        /\ \A x \in Workspaces : m.seen[x].version \in Nat /\ m.seen[x].groups \subseteq Groups
    BY <1>2, ViewShape
  <2>6. /\ seen[w] = snapshot[w]
        /\ \A x \in Workspaces \ {w} : seen[x] = m.seen[x]
    BY <2>4, <2>5
  <2>7. grown.generation = m.generation /\ grown.seen = seen /\ grown.owners = owners
    BY <1>2 DEF Views
  <2>8. \A g \in Groups :
          /\ m.owners[g] # None => owners[g] = m.owners[g]
          /\ m.owners[g] = None /\ g \in snapshot[w].groups => owners[g] = w
          /\ m.owners[g] = None /\ g \notin snapshot[w].groups => owners[g] = None
    OBVIOUS
  <2> HIDE DEF grown, seen, owners
  <2>9. /\ pc'[r] = "merge" /\ view'[r] = grown /\ list'[r] = workspaces
        /\ next'[r] = k + 1 /\ merged' = merged
        /\ label'[r] = label[r] /\ begin'[r] = begin[r] /\ steady'[r] = steady[r]
    BY <1>a, <2>1, <2>2, <2>3 DEF history
  <2>10. Moves(r)
    BY <1>a, <2>1, <2>3 DEF Moves, history
  <2>11. UNCHANGED <<snapshot, generation, workspaces>>
    BY <2>1 DEF caches, routes
  <2>12. Reading(r)'
    <3>1. next'[r] <= Len(workspaces) + 1
      BY <1>2, <2>1, <2>2, <2>9
    <3> QED BY <1>1, <2>9, <2>11, <3>1 DEF Reading
  <2>13. PICK T \in SUBSET Places : T = Taken(r)
    BY DEF Taken
  <2>14. /\ k \notin T /\ Taken(r)' = T \cup {k}
         /\ \A i \in Places : i \in T <=> i < k
    BY <1>2, <2>2, <2>9, <2>11, <2>13 DEF Taken, Places
  <2>15. /\ MergeFits(m, T) /\ \A i \in T : ~Missing(m, workspaces[i], begin[r], steady[r])
    BY <1>1, <2>1, <2>13 DEF Building
  <2>16. \A i \in T : workspaces[i] \in Workspaces \ {w}
    BY <1>1, <1>2, <2>2, <2>14 DEF Installed
  <2>17. \A i \in T : grown.seen[workspaces[i]] = m.seen[workspaces[i]]
    BY <2>6, <2>7, <2>16
  <2>18. grown.seen[w] = snapshot[w]
    BY <2>6, <2>7
  <2>19. ASSUME NEW q \in Readers PROVE ~Missing(grown, w, begin[q], steady[q])
    <3>1. /\ Reading(q) /\ begin[q].generation[w] \in Nat /\ generation[w] \in Nat
          /\ snapshot[w].version \in Nat
      BY <1>1, <1>2, <2>4, Shapes DEF FInv
    <3>2. ~(snapshot[w].version < begin[q].generation[w])
      BY <1>2, <2>4, <3>1 DEF Reading
    <3>3. \A g \in Groups : <<w, g>> \in steady[q] => g \in snapshot[w].groups
      BY <2>4, <3>1 DEF Reading
    <3> QED BY <2>18, <3>2, <3>3 DEF Missing
  <2>20. \A q \in Readers, i \in T :
           Missing(grown, workspaces[i], begin[q], steady[q])
             <=> Missing(m, workspaces[i], begin[q], steady[q])
    BY <2>17 DEF Missing
  <2>21. Capped(workspaces, generation, grown, T \cup {k})
           = Capped(workspaces, generation, m, T)
    <3>1. ASSUME NEW i \in 1..Len(workspaces)
          PROVE  (IF i \in T \cup {k} /\ grown.seen[workspaces[i]].version
                                           < generation[workspaces[i]]
                  THEN grown.seen[workspaces[i]].version ELSE generation[workspaces[i]])
                 = (IF i \in T /\ m.seen[workspaces[i]].version < generation[workspaces[i]]
                    THEN m.seen[workspaces[i]].version ELSE generation[workspaces[i]])
      <4>1. CASE i \in T
        BY <2>17, <4>1
      <4>2. CASE i = k
        <5>1. ~(grown.seen[workspaces[i]].version < generation[workspaces[i]])
          <6>1. workspaces[i] = w
            BY <4>2
          <6>2. generation[w] <= snapshot[w].version /\ generation[w] \in Nat
                /\ snapshot[w].version \in Nat
            BY <1>2, <2>4
          <6> HIDE DEF w
          <6> QED BY <2>18, <6>1, <6>2
        <5> QED BY <2>14, <4>2, <5>1
      <4>3. CASE i \notin T /\ i # k
        BY <4>3
      <4> QED BY <4>1, <4>2, <4>3
    <3> HIDE DEF w, k, m
    <3> QED BY <3>1 DEF Capped
  <2>22. Holds(grown, T \cup {k}, workspaces, snapshot)
    <3>0. Holds(m, T, workspaces, snapshot)
      BY <2>15 DEF MergeFits
    <3>1. \A x \in Workspaces : \/ grown.seen[x].version < snapshot[x].version
                                \/ grown.seen[x] = snapshot[x]
      BY <2>6, <2>7, <3>0 DEF Holds
    <3>2. ASSUME NEW i \in T, NEW g \in grown.seen[workspaces[i]].groups
          PROVE  \E j \in 1..i : grown.owners[g] = workspaces[j]
      <4>1. g \in m.seen[workspaces[i]].groups /\ g \in Groups
        BY <2>5, <2>16, <2>17
      <4>2. PICK j \in 1..i : m.owners[g] = workspaces[j]
        BY <3>0, <4>1 DEF Holds
      <4>3. i \in Places /\ j \in Places
        BY <1>2 DEF Places
      <4>4. workspaces[j] # None
        BY <1>2, <4>3, RouterAssumption
      <4>5. owners[g] = workspaces[j]
        BY <2>8, <4>1, <4>2, <4>4
      <4> QED BY <2>7, <4>5
    <3>3. ASSUME NEW g \in snapshot[w].groups
          PROVE  \E j \in 1..k : grown.owners[g] = workspaces[j]
      <4>1. g \in Groups
        BY <1>2, <2>4 DEF Snapshots
      <4>2. CASE m.owners[g] = None
        <5>1. owners[g] = workspaces[k]
          BY <2>8, <4>1, <4>2
        <5>2. k \in 1..k
          BY <1>2, <2>2 DEF Places
        <5> HIDE DEF w, k
        <5> QED BY <2>7, <5>1, <5>2
      <4>3. CASE m.owners[g] # None
        <5>1. PICK j \in T : m.owners[g] = workspaces[j]
          BY <3>0, <4>1, <4>3 DEF Holds
        <5>2. j \in 1..k
          BY <1>2, <2>2, <2>14 DEF Places
        <5>3. owners[g] = workspaces[j]
          BY <2>8, <4>1, <4>3, <5>1
        <5> QED BY <2>7, <5>2, <5>3
      <4> QED BY <4>2, <4>3
    <3>4. ASSUME NEW g \in Groups, owners[g] # None
          PROVE  \E j \in T \cup {k} : owners[g] = workspaces[j]
      <4>1. CASE m.owners[g] = None
        BY <2>8, <3>4, <4>1
      <4>2. CASE m.owners[g] # None
        BY <2>8, <3>0, <4>2 DEF Holds
      <4> QED BY <4>1, <4>2
    <3>5. ASSUME NEW i \in T \cup {k}, NEW g \in grown.seen[workspaces[i]].groups
          PROVE  \E j \in 1..i : grown.owners[g] = workspaces[j]
      <4>1. CASE i \in T
        BY <3>2, <4>1
      <4>2. CASE i = k
        <5>1. g \in snapshot[w].groups
          BY <2>18, <4>2
        <5> QED BY <3>3, <4>2, <5>1
      <4> QED BY <4>1, <4>2
    <3> HIDE DEF w, k, m
    <3> QED BY <2>7, <3>1, <3>4, <3>5 DEF Holds
  <2>23. ASSUME NEW q \in Readers PROVE Outgrown(grown, T \cup {k}, q)
    <3>1. Outgrown(m, T, q)
      BY <2>15 DEF MergeFits
    <3> QED BY <2>7, <2>19, <2>20, <3>1 DEF Outgrown
  <2>24. PICK n \in Views : n = grown
    BY <1>c, <2>9
  <2>25. PICK U \in SUBSET Places : U = T \cup {k}
    BY <2>2
  <2>26. MergeFits(n, U)
    <3>1. Seen(workspaces, generation, grown, T \cup {k}) = Seen(workspaces, generation, m, T)
      BY <2>21 DEF Seen
    <3>2. m.generation <= Seen(workspaces, generation, m, T)
      BY <2>15 DEF MergeFits
    <3> QED BY <2>7, <2>22, <2>23, <2>24, <2>25, <3>1, <3>2 DEF MergeFits
  <2>27. \A q \in Views, S \in SUBSET Places : MergeFits(q, S) => Outgrown(q, S, r)'
    BY <2>9 DEF Outgrown
  <2>28. MergeFits(n, U)'
    BY <2>10, <2>26, <2>27, FitsAfterMove
  <2>29. Taken(r)' = U /\ view'[r] = n
    BY <2>9, <2>14, <2>24, <2>25
  <2>30. MergeFits(view[r], Taken(r))'
    BY <2>28, <2>29 DEF MergeFits, Outgrown
  <2>31. \A i \in U : ~Missing(n, workspaces[i], begin[r], steady[r])
    BY <2>15, <2>19, <2>20, <2>24, <2>25
  <2>32. Building(r)' /\ Answering(r)'
    BY <2>9, <2>11, <2>29, <2>30, <2>31 DEF Building, Answering
  <2>33. SetNumber # 1
    <3>1. Len(<<>>) = 0
      OBVIOUS
    <3> QED BY <1>b, <2>2, <3>1 DEF Blank, Places
  <2>34. merged' = merged
    BY <2>9
  <2> QED BY <2>10, <2>12, <2>27, <2>32, <2>33, <2>34, MovePreserves
<1> QED BY <1>3, <1>4

\* The merge that is stored holds every place of the set.
LEMMA FreshOutlivesStore ==
  ASSUME FInv, MInv', NEW r \in Readers, StoreMerged(r)
  PROVE  FInv'
<1> USE DEF Goto, RangeOver
<1>1. IInv /\ IInv' /\ MInv /\ Installed /\ Reading(r) /\ Building(r)
  BY DEF FInv, MInv
<1>2. /\ workspaces \in Seq(Workspaces) /\ Len(workspaces) \in Nat
      /\ next[r] \in Nat \ {0} /\ \A q \in Readers : view[q] \in Views
  BY <1>1, Shapes
<1>a. /\ pc \in [Readers -> {"idle", "sum", "check", "lock", "list", "merge", "done"}]
      /\ list \in [Readers -> Seq(Workspaces)] /\ next \in [Readers -> Nat \ {0}]
  BY <1>1 DEF IInv, TypeOK
<1>3. /\ pc[r] = "merge" /\ next[r] > Len(list[r]) /\ merged' = view[r]
      /\ pc' = [pc EXCEPT ![r] = "done"]
      /\ list' = [list EXCEPT ![r] = <<>>] /\ next' = [next EXCEPT ![r] = 1]
      /\ UNCHANGED <<caches, routes, label, view, history>>
  BY DEF StoreMerged
<1>4. /\ pc'[r] = "done" /\ list'[r] = <<>> /\ label'[r] = label[r]
      /\ view'[r] = view[r] /\ begin'[r] = begin[r] /\ steady'[r] = steady[r]
  BY <1>3, <1>a DEF history
<1>5. Moves(r)
  BY <1>3, <1>a DEF Moves, history
<1>6. UNCHANGED <<snapshot, generation, workspaces, replacing, revision>>
  BY <1>3 DEF caches, routes
<1>7. PICK T \in SUBSET Places : T = Places
  OBVIOUS
<1>8. Taken(r) = T
  BY <1>2, <1>3, <1>7 DEF Taken, Places
<1>9. PICK m \in Views : m = view[r]
  BY <1>2
<1>10. MergeFits(m, T) /\ \A i \in T : ~Missing(m, workspaces[i], begin[r], steady[r])
  BY <1>1, <1>3, <1>8, <1>9 DEF Building
<1>11. Outgrown(m, T, r)'
  BY <1>4 DEF Outgrown
<1>12. MergeFits(m, T)'
  BY <1>5, <1>10, <1>11, FitsAfterMove
<1>13. MergeFits(merged, Places)'
  <2>1. merged' = m /\ Places' = T
    BY <1>3, <1>6, <1>7, <1>9 DEF Places
  <2> QED BY <1>12, <2>1 DEF MergeFits, Outgrown
<1>14. Reading(r)'
  BY <1>1, <1>4, <1>6 DEF Reading
<1>15. Building(r)' /\ Answering(r)'
  BY <1>4, <1>6, <1>7, <1>9, <1>10 DEF Building, Answering, Places, MergeFits, Holds
<1>16. ASSUME NEW q \in Readers \ {r} PROVE Reading(q)' /\ Building(q)' /\ Answering(q)'
  <2>1. /\ pc'[q] = pc[q] /\ list'[q] = list[q] /\ next'[q] = next[q]
        /\ label'[q] = label[q] /\ view'[q] = view[q]
        /\ begin'[q] = begin[q] /\ steady'[q] = steady[q]
    BY <1>5 DEF Moves
  <2>2. Reading(q) /\ Building(q) /\ Answering(q)
    BY DEF FInv
  <2>3. Reading(q)'
    BY <1>6, <2>1, <2>2 DEF Reading
  <2>4. Answering(q)'
    BY <1>6, <2>1, <2>2 DEF Answering, Places
  <2>5. pc[q] \notin {"list", "merge"}
    BY <1>1, <1>3 DEF MInv, Locked
  <2>6. Building(q)'
    BY <2>1, <2>5 DEF Building
  <2> QED BY <2>3, <2>4, <2>6
<1>17. Installed'
  <2>1. SetNumber' = SetNumber
    BY <1>6 DEF SetNumber
  <2>2. ASSUME SetNumber = 1 PROVE Blank'
    <3>1. Blank
      BY <1>1, <2>2 DEF Installed
    <3>2. \A q \in Readers :
            /\ list'[q] = <<>> /\ label'[q].generation = 0 /\ steady'[q] = {}
            /\ \A w \in Workspaces : begin'[q].generation[w] = 0
            /\ Empty(view'[q])
      BY <1>4, <1>5, <3>1 DEF Blank, Moves
    <3>3. Empty(merged')
      BY <1>3, <3>1 DEF Blank
    <3> QED BY <1>6, <3>1, <3>2, <3>3 DEF Blank, Empty
  <2> QED BY <1>1, <1>6, <2>1, <2>2 DEF Installed, Places
<1>18. \A q \in Readers : Reading(q)' /\ Building(q)' /\ Answering(q)'
  BY <1>14, <1>15, <1>16
<1> QED BY <1>13, <1>17, <1>18 DEF FInv

\* A new router has merged nothing.
LEMMA InitFresh == Init => FInv
<1> SUFFICES ASSUME Init PROVE FInv
  OBVIOUS
<1>1. MInv
  <2>1. IInv
    BY InitInvariant
  <2>2. merged = None /\ \A r \in Readers : pc[r] = "idle"
    BY DEF Init
  <2> QED BY <2>1, <2>2 DEF MInv, Locked, MergedFits, BuiltFits, BuiltIsNewer
<1>2. /\ merged = None
      /\ \A r \in Readers : /\ pc[r] = "idle" /\ list[r] = <<>> /\ label[r] = NoLabel
                            /\ steady[r] = {} /\ view[r] = EmptyView
                            /\ begin[r] = NothingPublished
  BY DEF Init
<1>3. Empty(EmptyView)
  <2>1. EmptyView.generation = 0 /\ EmptyView.seen = NothingSeen
        /\ \A g \in Groups : EmptyView.owners[g] = None
    BY DEF EmptyView
  <2> QED BY <2>1 DEF Empty
<1>4. \A w \in Workspaces : NothingPublished.generation[w] = 0
  BY DEF NothingPublished
<1>5. Blank
  BY <1>2, <1>3, <1>4 DEF Init, Blank, NoLabel
<1>6. Installed
  <2>1. SetNumber = 1
    BY DEF Init, SetNumber
  <2>2. Places = {}
    BY DEF Init, Places
  <2>3. \A w \in Workspaces : snapshot[w].groups = {}
    BY DEF Init, NothingSeen
  <2> QED BY <1>5, <2>1, <2>2, <2>3 DEF Installed
<1>7. ASSUME NEW r \in Readers PROVE Reading(r)
  <2>1. \A w \in Workspaces : generation[w] = 0
    BY DEF Init
  <2> QED BY <1>2, <1>4, <2>1 DEF Reading
<1>8. \A r \in Readers : Building(r) /\ Answering(r)
  BY <1>2 DEF Building, Answering
<1> QED BY <1>1, <1>2, <1>6, <1>7, <1>8 DEF FInv

\* The invariant of a router whose set is installed at most once.
THEOREM Freshness ==
  ASSUME MaxReplacements <= 1
  PROVE  Spec => []FInv
<1>1. FInv /\ MInv' /\ [Next]_vars => FInv'
  <2> SUFFICES ASSUME FInv, MInv', [Next]_vars PROVE FInv'
    OBVIOUS
  <2>1. CASE UNCHANGED vars
    <3>1. UNCHANGED <<workspaces, merged, mu, reader, begin, snapshot, generation, steady,
                      replacing, revision>>
      BY <2>1 DEF vars, caches, routes, history
    <3>2. SetNumber' = SetNumber
      BY <3>1 DEF SetNumber
    <3>3. /\ \A w \in Workspaces : generation[w] <= generation'[w]
          /\ \A r \in Readers : \A s \in steady'[r] : s[2] \in snapshot'[s[1]].groups
      <4>1. generation \in [Workspaces -> Nat]
        BY Shapes DEF FInv, MInv
      <4>2. steady \in [Readers -> SUBSET (Workspaces \X Groups)]
        BY DEF FInv, MInv, IInv, TypeOK
      <4>3. \A r \in Readers : \A w \in Workspaces, g \in Groups :
              <<w, g>> \in steady[r] => g \in snapshot[w].groups
        BY DEF FInv, Reading
      <4> QED BY <3>1, <4>1, <4>2, <4>3
    <3> QED BY <3>1, <3>2, <3>3, CachesPreserve
  <2>2. ASSUME NEW r \in Readers, Read(r) PROVE FInv'
    BY <2>2, FreshOutlivesLabel, FreshOutlivesChecks, FreshOutlivesMerging,
       FreshOutlivesStore DEF Read
  <2>3. CASE Next
    BY <2>2, <2>3, FreshOutlivesCaches, FreshOutlivesInstall DEF Next
  <2> QED BY <2>1, <2>3
<1>2. Init => FInv
  BY InitFresh
<1>3. Spec => []MInv
  BY MergeInvariance
<1> QED BY <1>1, <1>2, <1>3, PTL DEF Spec

\* router.go:190, "rebuilding it if any workspace has moved on", when the set
\* of workspaces is installed once: what current returns is at least as new,
\* for every workspace, as what was announced when it was called, although
\* its label is only a sum and is read piece by piece.
THEOREM SnapshotsAreCurrentHolds ==
  ASSUME MaxReplacements <= 1
  PROVE  Spec => []SnapshotsAreCurrent
<1>1. FInv => SnapshotsAreCurrent
  <2> SUFFICES ASSUME FInv, NEW r \in Readers, pc[r] = "done",
                      NEW w \in Members(workspaces)
               PROVE  view[r].seen[w].version >= begin[r].generation[w]
    BY DEF SnapshotsAreCurrent
  <2>1. IInv
    BY DEF FInv, MInv
  <2>2. PICK i \in Places : w = workspaces[i]
    BY DEF Members, Places
  <2>3. w \in Workspaces /\ view[r] \in Views /\ begin[r].generation \in [Workspaces -> Nat]
    BY <2>1, <2>2, Shapes
  <2>4. view[r].seen[w].version \in Nat /\ begin[r].generation[w] \in Nat
    BY <2>3, ViewShape
  <2>5. ~Missing(view[r], w, begin[r], steady[r])
    BY <2>2 DEF FInv, Answering
  <2>6. ~(view[r].seen[w].version < begin[r].generation[w])
    BY <2>5 DEF Missing
  <2> QED BY <2>4, <2>6
<1> QED BY <1>1, Freshness, PTL

\* router.go:215-237, for the same router: a group some workspace serves
\* throughout a call of current is routed, to it or to one before it.
THEOREM SteadyGroupIsRoutedHolds ==
  ASSUME MaxReplacements <= 1
  PROVE  Spec => []SteadyGroupIsRouted
<1>1. FInv => SteadyGroupIsRouted
  <2> SUFFICES ASSUME FInv, NEW r \in Readers, pc[r] = "done",
                      NEW i \in Places, NEW g \in Groups,
                      <<workspaces[i], g>> \in steady[r]
               PROVE  \E j \in 1..i : view[r].owners[g] = workspaces[j]
    BY DEF SteadyGroupIsRouted, Places
  <2>1. /\ ~Missing(view[r], workspaces[i], begin[r], steady[r])
        /\ \A h \in view[r].seen[workspaces[i]].groups :
             \E j \in 1..i : view[r].owners[h] = workspaces[j]
    BY DEF FInv, Answering
  <2>2. g \in view[r].seen[workspaces[i]].groups
    BY <2>1 DEF Missing
  <2> QED BY <2>1, <2>2
<1> QED BY <1>1, Freshness, PTL
=============================================================================
