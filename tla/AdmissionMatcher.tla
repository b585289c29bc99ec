-------------------------- MODULE AdmissionMatcher --------------------------
(***************************************************************************)
(* Whether a webhook or policy could act on a request                      *)
(* (pkg/apiserver/admissionmatch.go), from what the cluster is configured  *)
(* with: whether the informers have synced, whether a policy is bound, and *)
(* the rules of its webhooks, mutating and validating ones together.  A    *)
(* pattern for resources is its two segments, the second "" when absent.   *)
(***************************************************************************)
EXTENDS Naturals

contains(values, wanted) == "*" \in values \/ wanted \in values

\* A rule that only names a subresource does not cover the resource itself.
containsResource(resources, wanted) ==
  resources \cap {<<"*", "">>, <<"*", "*">>, <<wanted, "">>, <<wanted, "*">>} # {}

ruleMatches(rule, gvr, operation) ==
  /\ contains(rule.operations, operation)
  /\ contains(rule.groups, gvr.group)
  /\ contains(rule.versions, gvr.version)
  /\ containsResource(rule.resources, gvr.resource)

\* Faulty: what the listers hold counts, synced or not.
matches_Unsynced(cluster, gvr, operation) ==
  /\ cluster.synced
  /\ \/ cluster.bindings
     \/ \E rule \in cluster.rules : ruleMatches(rule, gvr, operation)

\* Anything unknown counts as a match.
matches(cluster, gvr, operation) ==
  \/ ~cluster.synced
  \/ cluster.bindings
  \/ \E rule \in cluster.rules : ruleMatches(rule, gvr, operation)

-----------------------------------------------------------------------------
(* What the cluster's admission chain does with the same rules, as         *)
(* Kubernetes documents them: "*" is every resource, "widgets/*" and       *)
(* "*/*" reach subresources, a subresource may be named.                   *)

reaches(rule, gvr, subresource, operation) ==
  /\ contains(rule.operations, operation)
  /\ contains(rule.groups, gvr.group) /\ contains(rule.versions, gvr.version)
  /\ \E r \in rule.resources :
       /\ r[1] \in {"*", gvr.resource}
       /\ r[2] = subresource \/ r = <<"*", "*">> \/ (subresource # "" /\ r[2] = "*")

called(cluster, gvr, subresource, operation) ==
  \/ cluster.bindings
  \/ \E rule \in cluster.rules : reaches(rule, gvr, subresource, operation)
=============================================================================
