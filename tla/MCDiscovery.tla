----------------------------- MODULE MCDiscovery -----------------------------
(***************************************************************************)
(* Discovery with two publishers, a group that comes, goes and changes its *)
(* versions and its resources.                                             *)
(***************************************************************************)
EXTENDS Discovery

Resource(name, sub, of) == [name |-> name, sub |-> sub, of |-> of]
Plain == <<Resource("things", None, None)>>

\* A subresource before its parent, one of another group's kind, and one
\* without a parent.
Nested == <<Resource("widgets", "status", None),
            Resource("widgets", None, None),
            Resource("gadgets", None, None),
            Resource("widgets", "scale", <<"autoscaling", "v1">>),
            Resource("ghosts", "status", None)>>

SomeSnapshots == {
  [gv \in {<<"g", "v1">>} |-> Nested],
  [gv \in {<<"g", "v1">>, <<"g", "v2">>} |-> Plain],
  Empty}

SomeAsks == {[kind |-> k, group |-> "g", version |-> "v2"] :
               k \in {"group", "version", "resource"}}
=============================================================================
