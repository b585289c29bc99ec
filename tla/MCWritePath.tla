----------------------------- MODULE MCWritePath -----------------------------
(***************************************************************************)
(* WritePath with up to two writers and one other client.                  *)
(***************************************************************************)
EXTENDS WritePath, TLC

CONSTANTS a, b
TwoWriters == {a, b}
OneWriter == {a}
AnyOrder == Permutations(TwoWriters)

Widgets == [group |-> "example.com", version |-> "v1", resource |-> "widgets"]

Json(method) == [method |-> method, body |-> "json", owner |-> "none", sub |-> "",
                 apply |-> FALSE, canonical |-> TRUE]
SomeShapes ==
  {Json("POST"), Json("PUT"), Json("DELETE"),
   [Json("PATCH") EXCEPT !.apply = TRUE],
   Json("DELETECOLLECTION"),
   [Json("PUT") EXCEPT !.body = "other"],
   [Json("POST") EXCEPT !.body = "broken"],
   [Json("POST") EXCEPT !.body = "oversized"],
   [Json("POST") EXCEPT !.owner = "outside"],
   [Json("POST") EXCEPT !.canonical = FALSE]}

Rule(operations) ==
  [operations |-> operations, groups |-> {"example.com"}, versions |-> {"*"},
   resources |-> {<<"widgets", "">>, <<"widgets", "*">>}]
Webhook(rule) == [synced |-> TRUE, bindings |-> FALSE, rules |-> {rule},
                  mutates |-> TRUE]
\* A webhook for creates only; one for everything the informers have not seen
\* yet.
SomeClusters ==
  {Webhook(Rule({"CREATE"})), [Webhook(Rule({"*"})) EXCEPT !.synced = FALSE]}

-----------------------------------------------------------------------------
(* One kind of request, and one webhook that should see it: an apply, and  *)
(* webhooks for creates or for everything; a patch with a charset; a patch *)
(* of the status, and a webhook for that; a deletecollection.              *)

Apply == {[Json("PATCH") EXCEPT !.apply = TRUE]}
PatchWithCharset == {[Json("PATCH") EXCEPT !.body = "other"]}
PatchOfStatus == {[Json("PATCH") EXCEPT !.sub = "status"]}
DeleteCollection == {Json("DELETECOLLECTION")}

ForCreates == {Webhook(Rule({"CREATE"}))}
ForEverything == {Webhook(Rule({"*"}))}
ForStatus == {Webhook([Rule({"UPDATE"}) EXCEPT !.resources = {<<"widgets", "status">>}])}
=============================================================================
