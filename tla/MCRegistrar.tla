----------------------------- MODULE MCRegistrar -----------------------------
(***************************************************************************)
(* Registrar with one replica and two group versions.                      *)
(***************************************************************************)
EXTENDS Registrar

CONSTANT v1

Budget(changes, operator, failures, losses) ==
  [changes |-> changes, operator |-> operator, failures |-> failures,
   losses |-> losses]

NothingHappens == {Budget(0, 0, 0, 0)}
TwoChange == Budget(2, 0, 1, 0)
OperatorMeetsChange == Budget(1, 1, 0, 0)
OneChanges == Budget(1, 0, 0, 0)
RequestIsLost == Budget(0, 0, 1, 0)
LeaseIsLost == Budget(0, 0, 0, 1)
SomeBudgets ==
  {TwoChange, OperatorMeetsChange, OneChanges, RequestIsLost, LeaseIsLost}

\* What an earlier run left.
Leftover(gvs) == [gv \in GroupVersions |-> IF gv \in gvs THEN desired(0) ELSE None]

\* Without election both group versions are served, with it at most one, and
\* less goes on.
MCInit ==
  /\ Init
  /\ \/ /\ ~enabled
        /\ served = GroupVersions
        /\ apis \in {Leftover({}), Leftover(GroupVersions)}
        /\ budget \in {TwoChange, OperatorMeetsChange}
     \/ /\ enabled
        /\ apis \in {Leftover({}), Leftover({v1})}
        /\ \/ served = {} /\ budget = OneChanges
           \/ served = {v1} /\ budget \in {RequestIsLost, LeaseIsLost}

MCFairSpec == MCInit /\ [][Next]_vars /\ Fairness
=============================================================================
