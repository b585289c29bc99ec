---------------------------- MODULE GroupMatcher ----------------------------
(***************************************************************************)
(* The groups a workspace backs (pkg/kcp/groups.go).  A group is the       *)
(* sequence of the labels of its name.  An entry of apiGroups is a record: *)
(* whether it begins with "!", whether "*." follows, the labels of what is *)
(* left, and whether that still holds a "/" or another "*".                *)
(***************************************************************************)
EXTENDS Naturals, Sequences, FiniteSets

Patterns(labels) == [not : BOOLEAN, star : BOOLEAN, labels : Seq(labels),
                     malformed : BOOLEAN]

\* strings.HasSuffix of a name and a domain that begins with its dot, and
\* the name is longer.
Under(group, domain) ==
  /\ Len(group) > Len(domain)
  /\ \A i \in 1..Len(domain) :
       group[Len(group) - Len(domain) + i] = domain[i]

\* reservedSuffix
Reserved == <<"k8s", "io">>
CoversReserved(domain) == domain = Reserved \/ Under(domain, Reserved)

Entries(patterns, not, star) ==
  {p \in {patterns[i] : i \in 1..Len(patterns)} : p.not = not /\ p.star = star}
Exacts(patterns) == {p.labels : p \in Entries(patterns, FALSE, FALSE)}
Suffixes(patterns) == {p.labels : p \in Entries(patterns, FALSE, TRUE)}
ExcludedExacts(patterns) == {p.labels : p \in Entries(patterns, TRUE, FALSE)}
ExcludedSuffixes(patterns) == {p.labels : p \in Entries(patterns, TRUE, TRUE)}

\* Faulty: only the reserved domain itself is refused.
AcceptsWildcard_ReservedOnly(domain) == Len(domain) >= 2 /\ domain # Reserved

\* A wildcard names at least two labels, and nothing of Kubernetes' own.
AcceptsWildcard(domain) == Len(domain) >= 2 /\ ~CoversReserved(domain)

\* An exclusion obeys none of the rules for wildcards.
AcceptsPattern(p) ==
  /\ ~p.malformed
  /\ p.labels # <<>>
  /\ p.star /\ ~p.not => AcceptsWildcard(p.labels)

Empty(patterns) == Exacts(patterns) = {} /\ Suffixes(patterns) = {}

\* Whether ParseGroupMatcher returns a matcher; it is then the patterns.
ParseGroupMatcher(patterns) ==
  /\ \A i \in 1..Len(patterns) : AcceptsPattern(patterns[i])
  /\ ~Empty(patterns)

Excluded(patterns, group) ==
  \/ group \in ExcludedExacts(patterns)
  \/ \E domain \in ExcludedSuffixes(patterns) : Under(group, domain)

Matches(patterns, group) ==
  /\ ~Excluded(patterns, group)
  /\ \/ group \in Exacts(patterns)
     \/ \E domain \in Suffixes(patterns) : Under(group, domain)

\* Exact: the groups whose absence is a fault.
NamedGroups(patterns) == {g \in Exacts(patterns) : ~Excluded(patterns, g)}

\* The wildcards, or those excluded, numbered in the order they were given.
InOrder(patterns, not) ==
  LET wildcards == {i \in 1..Len(patterns) : patterns[i].not = not /\ patterns[i].star}
  IN {<<Cardinality({j \in wildcards : j <= i}), patterns[i].labels>> :
        i \in wildcards}

\* String: names are sorted, wildcards stay in the order they were given.
Rendered(patterns) ==
  [exact |-> Exacts(patterns), suffixes |-> InOrder(patterns, FALSE),
   excludedExact |-> ExcludedExacts(patterns),
   excludedSuffixes |-> InOrder(patterns, TRUE)]
=============================================================================
