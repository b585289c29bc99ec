------------------------------- MODULE Router -------------------------------
(***************************************************************************)
(* The merged view of all workspaces (pkg/apiserver/router.go) and the     *)
(* per-workspace caches it is built from (the stores of ResourceCache in   *)
(* pkg/kcp/discovery.go).                                                  *)
(*                                                                         *)
(* router.current answers from a cached merge when the cache's label, the  *)
(* sum of the workspaces' generations and the number of replacements of    *)
(* the set, is the label the caller has just computed.  The label is read  *)
(* without a lock, one atomic load at a time, while refreshes and          *)
(* replacements go on, so every load is a step of its own here.            *)
(*                                                                         *)
(* A snapshot is abstracted to the number of the refresh that made it and  *)
(* the groups it serves; the resources of a group travel with the group.   *)
(***************************************************************************)
EXTENDS Integers, Sequences

CONSTANTS
  Workspaces,       \* workspace instances; one that is replaced never returns
  Groups,
  Readers,          \* goroutines that call router.current
  Configurations,   \* the sequences of workspaces replace may be given
  MaxReplacements,  \* bound: calls of replace after newRouter(nil)
  MaxGeneration,    \* bound: refreshes of one workspace
  None

VARIABLES
  snapshot,    \* ResourceCache.snapshot
  generation,  \* ResourceCache.generation
  storing,     \* workspaces between snapshot.Store and generation.Add
  workspaces,  \* router.workspaces
  revision,    \* router.revision
  replacing,   \* replace is between its two stores
  merged,      \* router.merged
  mu,          \* holder of router.mu
  pc,          \* where each reader is in current
  list,        \* the set of workspaces the reader's loop runs over
  next,        \* the reader's position in it
  label,       \* generation and revision as the reader computed them
  view,        \* the merge being built, then the one returned
  begin,       \* history: what was published when the reader's call began
  steady       \* history: <<w, g>> that w has served ever since then

caches == <<snapshot, generation, storing>>
routes == <<workspaces, revision, replacing>>
reader == <<pc, list, next, label, view>>
history == <<begin, steady>>
vars == <<caches, routes, merged, mu, reader, history>>

Snapshots == [version : 0..MaxGeneration, groups : SUBSET Groups]
NothingSeen == [w \in Workspaces |-> [version |-> 0, groups |-> {}]]
NothingPublished == [revision |-> 0, generation |-> [w \in Workspaces |-> 0]]
Labels == [generation : Nat, revision : Nat]
NoLabel == [generation |-> 0, revision |-> 0]

\* mergedSnapshot, and which replacement of the set it was built from.
EmptyView == [generation |-> 0, revision |-> 0, set |-> 0,
              seen |-> NothingSeen, owners |-> [g \in Groups |-> None]]
Views == [generation : Nat, revision : Nat, set : Nat,
          seen : [Workspaces -> Snapshots],
          owners : [Groups -> Workspaces \cup {None}]]

ASSUME RouterAssumption ==
  /\ MaxReplacements \in Nat
  /\ MaxGeneration \in Nat \ {0}
  /\ Configurations \subseteq Seq(Workspaces)
  /\ \A set \in Configurations : \A i, j \in 1..Len(set) :
       set[i] = set[j] => i = j
  /\ None \notin Workspaces /\ None \notin Readers /\ None \notin Views

Members(seq) == {seq[i] : i \in 1..Len(seq)}

TypeOK ==
  /\ snapshot \in [Workspaces -> Snapshots]
  /\ generation \in [Workspaces -> 0..MaxGeneration]
  /\ storing \in SUBSET Workspaces
  /\ workspaces \in Seq(Workspaces)
  /\ revision \in Nat
  /\ replacing \in BOOLEAN
  /\ merged \in Views \cup {None}
  /\ mu \in Readers \cup {None}
  /\ pc \in [Readers -> {"idle", "sum", "check", "lock", "list",
                         "merge", "done"}]
  /\ list \in [Readers -> Seq(Workspaces)]
  /\ next \in [Readers -> Nat \ {0}]
  /\ label \in [Readers -> Labels]
  /\ view \in [Readers -> Views]
  /\ begin \in [Readers -> [revision : Nat,
                            generation : [Workspaces -> 0..MaxGeneration]]]
  /\ steady \in [Readers -> SUBSET (Workspaces \X Groups)]

\* newRouter(nil): replace has run once, with no workspaces.
Init ==
  /\ snapshot = NothingSeen
  /\ generation = [w \in Workspaces |-> 0]
  /\ storing = {}
  /\ workspaces = <<>>
  /\ revision = 1
  /\ replacing = FALSE
  /\ merged = None
  /\ mu = None
  /\ pc = [r \in Readers |-> "idle"]
  /\ list = [r \in Readers |-> <<>>]
  /\ next = [r \in Readers |-> 1]
  /\ label = [r \in Readers |-> NoLabel]
  /\ view = [r \in Readers |-> EmptyView]
  /\ begin = [r \in Readers |-> NothingPublished]
  /\ steady = [r \in Readers |-> {}]

-----------------------------------------------------------------------------
(* ResourceCache.refresh, once kcp has answered: the snapshot is stored    *)
(* before the generation that announces it.                                *)

StoreSnapshot(w, groups) ==
  /\ w \in Members(workspaces)
  /\ w \notin storing
  /\ generation[w] < MaxGeneration
  /\ snapshot' = [snapshot EXCEPT ![w] =
                    [version |-> @.version + 1, groups |-> groups]]
  /\ storing' = storing \cup {w}
  /\ steady' = [r \in Readers |-> {s \in steady[r] :
                                     s[1] = w => s[2] \in groups}]
  /\ UNCHANGED <<generation, routes, merged, mu, reader, begin>>

\* Faulty: one refresh is announced twice.
AddGeneration_Twice(w) ==
  /\ w \in storing
  /\ generation' = [generation EXCEPT ![w] = @ + 2]
  /\ storing' = storing \ {w}
  /\ UNCHANGED <<snapshot, routes, merged, mu, reader, history>>

AddGeneration(w) ==
  /\ w \in storing
  /\ generation' = [generation EXCEPT ![w] = @ + 1]
  /\ storing' = storing \ {w}
  /\ UNCHANGED <<snapshot, routes, merged, mu, reader, history>>

-----------------------------------------------------------------------------
(* router.replace.  The manager hands it workspaces that still run and     *)
(* workspaces that launch has built and read once.                         *)

StoreWorkspaces(next_set, groups) ==
  LET launched == {w \in Members(next_set) : generation[w] = 0}
  IN /\ ~replacing
     /\ revision <= MaxReplacements
     /\ next_set # workspaces
     /\ \A w \in Members(next_set) \ launched : w \in Members(workspaces)
     /\ workspaces' = next_set
     /\ replacing' = TRUE
     /\ snapshot' = [w \in Workspaces |->
                       IF w \in launched THEN [version |-> 1, groups |-> groups]
                       ELSE snapshot[w]]
     /\ generation' = [w \in Workspaces |->
                         IF w \in launched THEN 1 ELSE generation[w]]
     /\ UNCHANGED <<storing, revision, merged, mu, reader, history>>

AddRevision ==
  /\ replacing
  /\ revision' = revision + 1
  /\ replacing' = FALSE
  /\ UNCHANGED <<caches, workspaces, merged, mu, reader, history>>

-----------------------------------------------------------------------------
(* router.current *)

Goto(r, there) == pc' = [pc EXCEPT ![r] = there]

RangeOver(r, seq) ==
  /\ list' = [list EXCEPT ![r] = seq]
  /\ next' = [next EXCEPT ![r] = 1]

\* Generation(): load the set, then add up the generations one by one.
Call(r) ==
  /\ pc[r] = "idle"
  /\ Goto(r, "sum")
  /\ RangeOver(r, workspaces)
  /\ begin' = [begin EXCEPT ![r] =
       [revision |-> revision,
        generation |-> IF replacing THEN NothingPublished.generation
                       ELSE generation]]
  /\ steady' = [steady EXCEPT ![r] =
       {s \in Workspaces \X Groups : /\ s[1] \in Members(workspaces) \ storing
                                     /\ s[2] \in snapshot[s[1]].groups}]
  /\ UNCHANGED <<caches, routes, merged, mu, label, view>>

SumOne(r) ==
  /\ pc[r] = "sum"
  /\ next[r] <= Len(list[r])
  /\ label' = [label EXCEPT ![r].generation = @ + generation[list[r][next[r]]]]
  /\ next' = [next EXCEPT ![r] = @ + 1]
  /\ UNCHANGED <<caches, routes, merged, mu, pc, list, view, history>>

\* The revision is loaded after the sum is complete.
LoadRevision(r) ==
  /\ pc[r] = "sum"
  /\ next[r] > Len(list[r])
  /\ label' = [label EXCEPT ![r].revision = revision]
  /\ Goto(r, "check")
  /\ RangeOver(r, <<>>)
  /\ UNCHANGED <<caches, routes, merged, mu, view, history>>

\* Faulty: the key is the sum alone, or the revision alone.
labelled_SumOnly(m, l) == m # None /\ m.generation = l.generation
labelled_RevisionOnly(m, l) == m # None /\ m.revision = l.revision

labelled(m, l) ==
  /\ m # None
  /\ m.generation = l.generation
  /\ m.revision = l.revision

\* The unlocked check: return the cached merge, or go and wait for the lock.
FastPath(r) ==
  /\ pc[r] = "check"
  /\ IF labelled(merged, label[r])
     THEN Goto(r, "done") /\ view' = [view EXCEPT ![r] = merged]
     ELSE Goto(r, "lock") /\ UNCHANGED view
  /\ UNCHANGED <<caches, routes, merged, mu, list, next, label, history>>

\* Faulty: the merge is built without the lock.
Lock_NotTaken(r) ==
  /\ pc[r] = "lock"
  /\ Goto(r, "list")
  /\ view' = [view EXCEPT ![r] =
                [EmptyView EXCEPT !.generation = label[r].generation,
                                  !.revision = label[r].revision]]
  /\ UNCHANGED <<caches, routes, merged, mu, list, next, label, history>>

\* Lock and check again.  merged is only written under the lock, so the two
\* are one step.
Lock(r) ==
  /\ pc[r] = "lock"
  /\ mu = None
  /\ IF labelled(merged, label[r])
     THEN /\ Goto(r, "done")
          /\ view' = [view EXCEPT ![r] = merged]
          /\ UNCHANGED mu
     ELSE /\ Goto(r, "list")
          /\ view' = [view EXCEPT ![r] =
                        [EmptyView EXCEPT !.generation = label[r].generation,
                                          !.revision = label[r].revision]]
          /\ mu' = r
  /\ UNCHANGED <<caches, routes, merged, list, next, label, history>>

\* The loop over r.snapshot(): the set as it is now, which may be newer than
\* the one that was summed.
StartMerge(r) ==
  /\ pc[r] = "list"
  /\ Goto(r, "merge")
  /\ RangeOver(r, workspaces)
  /\ view' = [view EXCEPT ![r].set = IF replacing THEN revision + 1
                                     ELSE revision]
  /\ UNCHANGED <<caches, routes, merged, mu, label, history>>

\* Faulty: the last workspace that serves a group wins.
MergeOne_LastWins(r) ==
  /\ pc[r] = "merge"
  /\ next[r] <= Len(list[r])
  /\ LET w == list[r][next[r]]
     IN view' = [view EXCEPT
          ![r].seen[w] = snapshot[w],
          ![r].owners = [g \in Groups |->
             IF g \in snapshot[w].groups THEN w ELSE @[g]]]
  /\ next' = [next EXCEPT ![r] = @ + 1]
  /\ UNCHANGED <<caches, routes, merged, mu, pc, list, label, history>>

\* One workspace's snapshot: a group that is taken stays with its owner.
MergeOne(r) ==
  /\ pc[r] = "merge"
  /\ next[r] <= Len(list[r])
  /\ LET w == list[r][next[r]]
     IN view' = [view EXCEPT
          ![r].seen[w] = snapshot[w],
          ![r].owners = [g \in Groups |->
             IF @[g] = None /\ g \in snapshot[w].groups THEN w ELSE @[g]]]
  /\ next' = [next EXCEPT ![r] = @ + 1]
  /\ UNCHANGED <<caches, routes, merged, mu, pc, list, label, history>>

StoreMerged(r) ==
  /\ pc[r] = "merge"
  /\ next[r] > Len(list[r])
  /\ merged' = view[r]
  /\ mu' = None
  /\ Goto(r, "done")
  /\ RangeOver(r, <<>>)
  /\ UNCHANGED <<caches, routes, label, view, history>>

\* The caller is done with the view, and the locals go out of scope.
Return(r) ==
  /\ pc[r] = "done"
  /\ Goto(r, "idle")
  /\ label' = [label EXCEPT ![r] = NoLabel]
  /\ view' = [view EXCEPT ![r] = EmptyView]
  /\ begin' = [begin EXCEPT ![r] = NothingPublished]
  /\ steady' = [steady EXCEPT ![r] = {}]
  /\ UNCHANGED <<caches, routes, merged, mu, list, next>>

-----------------------------------------------------------------------------
Read(r) ==
  \/ Call(r)
  \/ SumOne(r)
  \/ LoadRevision(r)
  \/ FastPath(r)
  \/ Lock(r)
  \/ StartMerge(r)
  \/ MergeOne(r)
  \/ StoreMerged(r)
  \/ Return(r)

Next ==
  \/ \E w \in Workspaces, groups \in SUBSET Groups : StoreSnapshot(w, groups)
  \/ \E w \in Workspaces : AddGeneration(w)
  \/ \E set \in Configurations, groups \in SUBSET Groups :
       StoreWorkspaces(set, groups)
  \/ AddRevision
  \/ \E r \in Readers : Read(r)

Spec == Init /\ [][Next]_vars

-----------------------------------------------------------------------------
(* Properties.  A reader at "done" is about to hand view[r] to its caller. *)

\* A replacement of the set that was complete when current was called is in
\* what current returns: the label carries the revision, and the set that is
\* merged is loaded after it.
SetIsCurrent ==
  \A r \in Readers : pc[r] = "done" => view[r].set >= begin[r].revision

\* router.go:190, "rebuilding it if any workspace has moved on": what current
\* returns is at least as new, for every workspace of the set, as what was
\* announced by its generation when current was called, although the label
\* is only a sum and is read piece by piece.
SnapshotsAreCurrent ==
  \A r \in Readers : pc[r] = "done" =>
    \A w \in Members(workspaces) :
      view[r].seen[w].version >= begin[r].generation[w]

\* A group some workspace serves throughout a call of current is in the
\* merged view, owned by that workspace or by one listed before it.
SteadyGroupIsRouted ==
  \A r \in Readers : pc[r] = "done" =>
    \A i \in 1..Len(workspaces), g \in Groups :
      <<workspaces[i], g>> \in steady[r] =>
        \E j \in 1..i : view[r].owners[g] = workspaces[j]

\* The cached merge never goes back to an older set or to an older snapshot
\* of a workspace that is still merged, however late a slow reader stores
\* the one it built.
MergedNeverGoesBack ==
  [][merged # None =>
       /\ merged' # None
       /\ merged'.set >= merged.set
       /\ merged'.set = merged.set =>
            \A w \in Workspaces :
              merged'.seen[w].version >= merged.seen[w].version]_vars
=============================================================================
