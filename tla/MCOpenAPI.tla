------------------------------ MODULE MCOpenAPI ------------------------------
(***************************************************************************)
(* OpenAPI with two requesters and two workspaces.                         *)
(***************************************************************************)
EXTENDS OpenAPI, TLC

CONSTANTS r1, r2
TwoRequesters == {r1, r2}
AnyOrder == Permutations(TwoRequesters)

Own == [w \in {"w1", "w2"} |-> IF w = "w1" THEN {"g"} ELSE {"h"}]
Both == <<"w1", "w2">>
Second == <<"w2">>
Shrinks == {Both, Second}
=============================================================================
