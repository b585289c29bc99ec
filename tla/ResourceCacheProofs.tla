------------------------ MODULE ResourceCacheProofs ------------------------
(***************************************************************************)
(* Safety of the resource cache for any groups, and any number of changes  *)
(* and failures.                                                           *)
(*                                                                         *)
(* Neither property is inductive.  Both are about a snapshot that was read *)
(* in pieces, so the invariant says of each piece: it is no older than the *)
(* snapshot it will replace; it has every change that was signalled,       *)
(* unless a signal is pending; and one that is complete is the group as it *)
(* is, or older than it.  Numbers of changes only grow.                    *)
(***************************************************************************)
EXTENDS ResourceCache, TLAPS

\* Nothing that was read or signalled is newer than what the workspace has.
NothingIsAhead ==
  \A g \in Groups : /\ snapshot[g].change <= surface[g].change
                    /\ reading[g].change <= surface[g].change
                    /\ told[g] <= surface[g].change
                    /\ surface[g].change <= changes

\* What the refresh under way has read of a group.
PiecesAreGood ==
  pc = "resources" =>
    \A g \in Owned :
      /\ reading[g].change = surface[g].change =>
           surface[g].served = IF g \in todo THEN TRUE ELSE reading[g].served
      /\ snapshot[g].change <= reading[g].change
      /\ reading[g].change >= told[g] \/ changed

\* Nothing is signalled before the informers are started.
QuietBeforeLaunch == ~launched => events = {} /\ \A g \in Groups : told[g] = 0

IInv ==
  /\ TypeOK
  /\ NothingIsAhead
  /\ PiecesAreGood
  /\ QuietBeforeLaunch
  /\ SignalsAreNotLost

USE ResourceCacheAssumption

\* The workspace before its first refresh satisfies the invariant.
LEMMA InitInvariant == Init => IInv
<1> SUFFICES ASSUME Init PROVE IInv
  OBVIOUS
<1> USE DEF Init, Untouched, Unserved
<1>0. surface \in Surface /\ \A g \in Groups : surface[g].change = 0
  BY DEF Surface
<1>1. TypeOK
  <2>1. Untouched \in Surface /\ told \in [Groups -> 0..MaxChanges]
    BY DEF Surface
  <2>2. /\ changed \in BOOLEAN /\ cancelled \in BOOLEAN /\ launched \in BOOLEAN
        /\ bindings \in BOOLEAN /\ synced \in BOOLEAN /\ failed \in BOOLEAN
    OBVIOUS
  <2>3. changes \in 0..MaxChanges /\ failures \in 0..MaxFailures
    OBVIOUS
  <2> QED BY <1>0, <2>1, <2>2, <2>3 DEF TypeOK
<1>2. NothingIsAhead /\ PiecesAreGood /\ QuietBeforeLaunch /\ SignalsAreNotLost
  BY <1>0 DEF NothingIsAhead, PiecesAreGood, QuietBeforeLaunch,
              SignalsAreNotLost
<1> QED BY <1>1, <1>2 DEF IInv

\* A change of the workspace makes everything read of the group older than it.
LEMMA SurfacePreserves ==
  ASSUME IInv, NEW g \in Groups, SurfaceChanges(g)
  PROVE  IInv'
<1> USE DEF IInv
<1>1. PICK b \in BOOLEAN :
        surface' = [surface EXCEPT ![g] = [change |-> changes + 1, served |-> b]]
  BY DEF SurfaceChanges
<1> DEFINE piece == [change |-> changes + 1, served |-> b]
<1>2. /\ changes \in Nat /\ changes + 1 \in 0..MaxChanges
      /\ changes' = changes + 1
  BY DEF SurfaceChanges, TypeOK
<1>3. piece \in [change : 0..MaxChanges, served : BOOLEAN] /\ piece.change = changes + 1
  BY <1>2
<1>4. /\ surface' \in Surface
      /\ surface'[g] = piece
      /\ \A h \in Groups : h # g => surface'[h] = surface[h]
  BY <1>1, <1>3 DEF TypeOK, Surface
<1> HIDE DEF piece
<1>5. /\ UNCHANGED <<failures, changed, told, cancelled, pc, launched, bindings,
                     todo, reading, snapshot, synced, failed>>
      /\ events' \in SUBSET Groups
      /\ ~launched => events' = events
  BY DEF SurfaceChanges, Watched, cache, started, data, TypeOK
<1>6. TypeOK'
  BY <1>2, <1>4, <1>5 DEF TypeOK
<1>7. /\ \A h \in Groups : /\ snapshot[h].change \in Nat /\ reading[h].change \in Nat
                           /\ surface[h].change \in Nat /\ told[h] \in Nat
  BY DEF TypeOK, Surface
<1>8. \A h \in Groups : surface[h].change <= surface'[h].change
  BY <1>2, <1>3, <1>4, <1>7 DEF NothingIsAhead
<1>9. NothingIsAhead'
  BY <1>2, <1>3, <1>4, <1>5, <1>7, <1>8 DEF NothingIsAhead
<1>10. PiecesAreGood'
  <2> SUFFICES ASSUME pc' = "resources", NEW h \in Owned
               PROVE  /\ reading'[h].change = surface'[h].change =>
                           surface'[h].served =
                             IF h \in todo' THEN TRUE ELSE reading'[h].served
                      /\ snapshot'[h].change <= reading'[h].change
                      /\ reading'[h].change >= told'[h] \/ changed'
    BY DEF PiecesAreGood
  <2>1. /\ reading[h].change = surface[h].change =>
             surface[h].served = IF h \in todo THEN TRUE ELSE reading[h].served
        /\ snapshot[h].change <= reading[h].change
        /\ reading[h].change >= told[h] \/ changed
    BY <1>5 DEF PiecesAreGood
  <2>2. CASE h = g
    <3>1. reading[h].change # surface'[h].change
      BY <1>2, <1>3, <1>4, <1>7, <2>2 DEF NothingIsAhead
    <3> QED BY <1>5, <2>1, <3>1
  <2>3. CASE h # g
    BY <1>4, <1>5, <2>1, <2>3
  <2> QED BY <2>2, <2>3
<1>11. QuietBeforeLaunch' /\ SignalsAreNotLost'
  BY <1>5 DEF QuietBeforeLaunch, SignalsAreNotLost
<1> QED BY <1>6, <1>9, <1>10, <1>11

\* A signal for an owned group is pending afterwards, whether or not it was
\* the one that was sent (watch.go:130).
LEMMA NotifyPreserves ==
  ASSUME IInv, NEW g \in Groups, Notify(g)
  PROVE  IInv'
<1> USE DEF IInv
<1>1. /\ UNCHANGED <<surface, changes, failures, cancelled, pc, launched,
                     bindings, todo, reading, snapshot, synced, failed>>
      /\ told' = [told EXCEPT ![g] = surface[g].change]
      /\ changed' = (changed \/ g \in Owned \/ g \in Bound)
      /\ events' = events \ {g} /\ g \in events
  BY DEF Notify, kcp, cache, started, data
<1>2. surface[g].change \in 0..MaxChanges
  BY DEF TypeOK, Surface
<1>3. /\ told' \in [Groups -> 0..MaxChanges]
      /\ told'[g] = surface[g].change
      /\ \A h \in Groups : h # g => told'[h] = told[h]
  BY <1>1, <1>2 DEF TypeOK
<1>4. changed' \in BOOLEAN /\ (changed => changed') /\ (g \in Owned => changed')
  BY <1>1, Zenon DEF TypeOK
<1>5. TypeOK'
  BY <1>1, <1>3, <1>4 DEF TypeOK
<1>6. NothingIsAhead'
  BY <1>1, <1>2, <1>3 DEF NothingIsAhead
<1>7. PiecesAreGood'
  BY <1>1, <1>3, <1>4 DEF PiecesAreGood
<1>8. launched
  BY <1>1 DEF QuietBeforeLaunch
<1>9. QuietBeforeLaunch' /\ SignalsAreNotLost'
  BY <1>1, <1>3, <1>4, <1>8 DEF QuietBeforeLaunch, SignalsAreNotLost
<1> QED BY <1>5, <1>6, <1>7, <1>9

\* A refresh that fails keeps the snapshot (discovery.go:109-120).
LEMMA FailurePreserves ==
  ASSUME IInv, refreshFails,
         UNCHANGED <<surface, changes, events, changed, told, cancelled>>,
         failures' \in 0..MaxFailures, pc \in {"groups", "resources"}
  PROVE  IInv'
<1> USE DEF IInv, refreshFails, started
<1>1. /\ reading' \in Surface
      /\ \A g \in Groups : reading'[g].change = 0
  BY DEF Untouched, Unserved, Surface
<1>2. TypeOK'
  BY <1>1 DEF TypeOK
<1>3. NothingIsAhead'
  BY <1>1 DEF NothingIsAhead, TypeOK, Surface
<1>4. PiecesAreGood' /\ QuietBeforeLaunch' /\ SignalsAreNotLost'
  BY DEF PiecesAreGood, QuietBeforeLaunch, SignalsAreNotLost
<1> QED BY <1>2, <1>3, <1>4

\* The requests of a refresh, and the store that ends it.
LEMMA RefreshPreserves ==
  ASSUME IInv, Refresh \/ RequestFails
  PROVE  IInv'
<1> USE DEF IInv
<1>0. \A g \in Groups : /\ snapshot[g].change \in Nat /\ reading[g].change \in Nat
                        /\ surface[g].change \in Nat /\ told[g] \in Nat
                        /\ surface[g] \in [change : 0..MaxChanges, served : BOOLEAN]
  BY DEF TypeOK, Surface
<1>1. CASE ServerGroups
  <2>1. UNCHANGED <<surface, changes, failures, events, changed, told,
                    cancelled, launched, bindings, snapshot, synced, failed>>
    BY <1>1 DEF ServerGroups, kcp, watch, started
  <2>2. /\ \A g \in Groups :
             reading'[g] = IF g \in Owned THEN Unserved(surface[g].change)
                           ELSE Unserved(0)
        /\ reading' \in Surface
    BY <1>1, <1>0 DEF ServerGroups, Unserved, Surface
  <2>3. pc' = "resources" /\ todo' = {g \in Owned : surface[g].served}
    BY <1>1 DEF ServerGroups
  <2>4. \A g \in Groups : reading'[g].change \in {0, surface[g].change}
    <3> SUFFICES ASSUME NEW g \in Groups
                 PROVE  reading'[g].change \in {0, surface[g].change}
      OBVIOUS
    <3>1. \A n : Unserved(n).change = n
      BY DEF Unserved
    <3> QED BY <2>2, <3>1
  <2>5. \A g \in Owned :
          /\ reading'[g].change = surface[g].change
          /\ surface[g].served = IF g \in todo' THEN TRUE ELSE reading'[g].served
    <3> SUFFICES ASSUME NEW g \in Owned
                 PROVE  /\ reading'[g].change = surface[g].change
                        /\ surface[g].served =
                             IF g \in todo' THEN TRUE ELSE reading'[g].served
      OBVIOUS
    <3>1. reading'[g] = [change |-> surface[g].change, served |-> FALSE]
      BY <2>2 DEF Unserved
    <3>2. surface[g].served = IF g \in todo' THEN TRUE ELSE FALSE
      BY <1>0, <2>3
    <3>3. reading'[g].change = surface[g].change /\ reading'[g].served = FALSE
      BY <3>1
    <3> QED BY <3>2, <3>3
  <2>6. TypeOK'
    BY <2>1, <2>2, <2>3 DEF TypeOK
  <2>7. NothingIsAhead'
    BY <1>0, <2>1, <2>4 DEF NothingIsAhead
  <2>8. PiecesAreGood'
    BY <1>0, <2>1, <2>5 DEF PiecesAreGood, NothingIsAhead
  <2>9. QuietBeforeLaunch'
    BY <2>1 DEF QuietBeforeLaunch
  <2>10. SignalsAreNotLost'
    BY <1>0, <2>1, <2>3, <2>5 DEF SignalsAreNotLost, NothingIsAhead
  <2> QED BY <2>6, <2>7, <2>8, <2>9, <2>10
<1>2. ASSUME NEW g \in Groups, ServerResources(g)
      PROVE  IInv'
  <2>1. /\ UNCHANGED <<surface, changes, failures, events, changed, told, pc,
                       cancelled, launched, bindings, snapshot, synced, failed>>
        /\ pc = "resources" /\ g \in todo /\ todo' = todo \ {g}
    BY <1>2 DEF ServerResources, kcp, watch, started
  <2>2. /\ reading' \in Surface
        /\ reading'[g].served = TRUE /\ surface[g].served = TRUE
        /\ reading'[g].change = reading[g].change
        /\ \A h \in Groups : h # g => reading'[h] = reading[h]
    BY <1>0, <1>2 DEF ServerResources, TypeOK, Surface
  <2>3. TypeOK'
    BY <2>1, <2>2 DEF TypeOK
  <2>4. NothingIsAhead'
    BY <1>0, <2>1, <2>2 DEF NothingIsAhead
  <2>5. PiecesAreGood'
    BY <1>0, <2>1, <2>2 DEF PiecesAreGood, NothingIsAhead
  <2>6. QuietBeforeLaunch'
    BY <2>1 DEF QuietBeforeLaunch
  <2>7. SignalsAreNotLost'
    BY <1>0, <2>1, <2>2 DEF SignalsAreNotLost, NothingIsAhead
  <2> QED BY <2>3, <2>4, <2>5, <2>6, <2>7
<1>3. ASSUME NEW g \in Groups, VersionIsGone(g)
      PROVE  IInv'
  BY <1>3, FailurePreserves DEF VersionIsGone, kcp, watch, TypeOK
<1>4. CASE Store
  <2>1. /\ UNCHANGED <<surface, changes, failures, events, changed, told,
                       cancelled, launched, bindings, todo>>
        /\ pc = "resources" /\ todo = {} /\ snapshot' = reading
        /\ reading' = Untouched /\ synced' = TRUE /\ failed' = FALSE
        /\ pc' = IF launched THEN "announce" ELSE "watch"
    BY <1>4 DEF Store, kcp, watch, started
  <2>2. /\ reading' \in Surface
        /\ \A g \in Groups : reading'[g].change = 0
    BY <2>1 DEF Untouched, Unserved, Surface
  <2>3. TypeOK'
    BY <2>1, <2>2 DEF TypeOK
  <2>4. NothingIsAhead'
    BY <1>0, <2>1, <2>2 DEF NothingIsAhead
  <2>5. PiecesAreGood' /\ QuietBeforeLaunch'
    BY <2>1 DEF PiecesAreGood, QuietBeforeLaunch
  <2>6. SignalsAreNotLost'
    BY <2>1 DEF SignalsAreNotLost, PiecesAreGood
  <2> QED BY <2>3, <2>4, <2>5, <2>6
<1>5. CASE RequestFails
  BY <1>5, FailurePreserves DEF RequestFails, watch, TypeOK
<1> QED BY <1>1, <1>2, <1>3, <1>4, <1>5 DEF Refresh

\* launch and the loop of Run; a signal is only taken to begin a refresh.
LEMMA RunPreserves ==
  ASSUME IInv, Run \/ WatchFails \/ Cancel
  PROVE  IInv'
<1> USE DEF IInv, kcp, watch, started, data, cache
<1>1. CASE StartWatch
  <2>1. /\ UNCHANGED <<surface, changes, failures, changed, told, cancelled,
                       todo, reading, snapshot, synced, failed>>
        /\ pc = "watch" /\ pc' = "select" /\ launched' = TRUE
        /\ bindings' \in BOOLEAN /\ events' \in SUBSET Groups
    BY <1>1 DEF StartWatch
  <2>2. TypeOK'
    BY <2>1 DEF TypeOK
  <2>3. NothingIsAhead' /\ PiecesAreGood' /\ QuietBeforeLaunch'
    BY <2>1 DEF NothingIsAhead, PiecesAreGood, QuietBeforeLaunch
  <2>4. SignalsAreNotLost'
    BY <2>1 DEF SignalsAreNotLost, QuietBeforeLaunch, TypeOK, Surface
  <2> QED BY <2>2, <2>3, <2>4
<1>2. CASE Tick \/ Settled \/ Announced \/ Stop \/ WatchFails \/ Cancel
  <2>1. /\ UNCHANGED <<surface, changes, failures, events, changed, told,
                       launched, bindings, todo, reading, snapshot, synced,
                       failed>>
        /\ cancelled' \in BOOLEAN
        /\ \/ pc' = pc
           \/ /\ pc' \in {"groups", "select", "stopped", "abandoned"}
              /\ pc \in {"select", "settle", "announce", "watch"}
              /\ pc = "settle" => pc' \in {"groups", "stopped"}
    BY <1>2 DEF Tick, Settled, Announced, Stop, WatchFails, Cancel, TypeOK
  <2>2. TypeOK'
    BY <2>1 DEF TypeOK
  <2>3. NothingIsAhead' /\ PiecesAreGood' /\ QuietBeforeLaunch'
    BY <2>1 DEF NothingIsAhead, PiecesAreGood, QuietBeforeLaunch
  <2>4. SignalsAreNotLost'
    BY <2>1 DEF SignalsAreNotLost
  <2> QED BY <2>2, <2>3, <2>4
<1>3. CASE TakeSignal
  <2>1. /\ UNCHANGED <<surface, changes, failures, events, told, cancelled,
                       launched, bindings, todo, reading, snapshot, synced,
                       failed>>
        /\ pc = "select" /\ pc' = "settle" /\ changed' = FALSE
    BY <1>3 DEF TakeSignal
  <2>2. TypeOK'
    BY <2>1 DEF TypeOK
  <2>3. NothingIsAhead' /\ PiecesAreGood' /\ QuietBeforeLaunch' /\ SignalsAreNotLost'
    BY <2>1 DEF NothingIsAhead, PiecesAreGood, QuietBeforeLaunch,
                SignalsAreNotLost
  <2> QED BY <2>2, <2>3
<1> QED BY <1>1, <1>2, <1>3 DEF Run

\* The invariant holds in every reachable state.
LEMMA Invariance == Spec => []IInv
<1>1. IInv /\ [Next]_vars => IInv'
  <2> SUFFICES ASSUME IInv, [Next]_vars PROVE IInv'
    OBVIOUS
  <2>1. CASE UNCHANGED vars
    BY <2>1 DEF vars, kcp, watch, cache, started, data, IInv, TypeOK,
                NothingIsAhead, PiecesAreGood, QuietBeforeLaunch,
                SignalsAreNotLost
  <2>2. CASE Next
    BY <2>2, SurfacePreserves, NotifyPreserves, RefreshPreserves, RunPreserves
       DEF Next
  <2> QED BY <2>1, <2>2
<1> QED BY <1>1, InitInvariant, PTL DEF Spec

\* The cache and what it reads are well typed (discovery.go, watch.go).
THEOREM TypeCorrect == Spec => []TypeOK
  BY Invariance, PTL DEF IInv

\* A change that was signalled is read, unless a refresh fails (watch.go:130).
THEOREM SignalsAreNotLostHolds == Spec => []SignalsAreNotLost
  BY Invariance, PTL DEF IInv

\* No refresh drops or alters a group the workspace has left alone
\* (discovery.go:154-188).
THEOREM UnchangedGroupsStayHolds == Spec => UnchangedGroupsStay
<1> DEFINE Stay == synced => \A g \in Owned :
                     snapshot[g].served /\ surface[g] = snapshot[g]
                       => snapshot'[g] = snapshot[g]
<1>1. IInv /\ [Next]_vars => [Stay]_vars
  <2> SUFFICES ASSUME IInv, Next, NEW g \in Owned, surface[g] = snapshot[g]
               PROVE  snapshot'[g] = snapshot[g]
    OBVIOUS
  <2>1. CASE Store
    <3>1. pc = "resources" /\ todo = {} /\ snapshot' = reading
      BY <2>1 DEF Store
    <3>2. /\ reading[g].change = surface[g].change =>
               surface[g].served = reading[g].served
          /\ snapshot[g].change <= reading[g].change
          /\ reading[g].change <= surface[g].change
      BY <3>1 DEF IInv, PiecesAreGood, NothingIsAhead
    <3>3. reading[g].change \in Nat /\ surface[g].change \in Nat
      BY DEF IInv, TypeOK, Surface
    <3>4. /\ reading[g] = [change |-> reading[g].change, served |-> reading[g].served]
          /\ surface[g] = [change |-> surface[g].change, served |-> surface[g].served]
      BY DEF IInv, TypeOK, Surface
    <3>5. reading[g].change = surface[g].change
      BY <3>2, <3>3
    <3>6. reading[g] = surface[g]
      BY <3>2, <3>4, <3>5
    <3> QED BY <3>1, <3>6
  <2>2. CASE ~Store
    <3>1. snapshot' = snapshot
      BY <2>2 DEF Next, Refresh, Run, SurfaceChanges, Notify, RequestFails,
           refreshFails, ServerGroups, ServerResources, VersionIsGone, WatchFails, StartWatch,
           Tick, TakeSignal, Settled, Announced, Stop, Cancel, cache, data
    <3> QED BY <3>1
  <2> QED BY <2>1, <2>2
<1> QED BY <1>1, Invariance, PTL DEF Spec, UnchangedGroupsStay
=============================================================================
