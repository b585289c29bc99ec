------------------------------ MODULE MCRouter ------------------------------
(***************************************************************************)
(* Router with two readers and two workspaces.                             *)
(***************************************************************************)
EXTENDS Router, TLC

CONSTANTS w1, w2, r1, r2
TwoReaders == {r1, r2}
AnyOrder == Permutations(TwoReaders)

\* One configuration, installed once at startup.
Startup == {<<w1, w2>>}
\* A reload adds or removes a workspace and keeps another.
Reloads == {<<w1>>, <<w2, w1>>}
=============================================================================
