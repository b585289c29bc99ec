------------------------- MODULE MCWorkspaceManager -------------------------
(***************************************************************************)
(* WorkspaceManager on two workspaces, one with a wildcard.                *)
(***************************************************************************)
EXTENDS WorkspaceManager

Wildcard(labels) ==
  [not |-> FALSE, star |-> TRUE, labels |-> labels, malformed |-> FALSE]
Name(labels) == [Wildcard(labels) EXCEPT !.star = FALSE]
Not(pattern) == [pattern EXCEPT !.not = TRUE]
Entry(name, groups, settings) ==
  [name |-> name, kubeconfig |-> name, apiGroups |-> groups,
   settings |-> settings]

Everything == <<Wildcard(<<"example", "com">>)>>
Widgets == <<Name(<<"widgets", "example", "com">>)>>
NoWidgets == Everything \o <<Not(Widgets[1])>>

a(groups) == Entry("a", groups, Unset)
b(groups) == Entry("b", groups, Unset)

\* A file, the same in another order, one workspace less, one retuned, one
\* that gives the named group to the other workspace; and files that are
\* refused.
SomeFiles == {
  <<a(Widgets), b(Everything)>>,
  <<b(Everything), a(Widgets)>>,
  <<b(Everything)>>,
  <<Entry("a", Widgets, "tuned"), b(Everything)>>,
  <<a(NoWidgets), b(Widgets)>>,
  <<Entry("a", Widgets, "broken"), b(Everything)>>,
  <<a(Widgets), b(Widgets)>>,
  <<a(<<Wildcard(<<"x", "k8s", "io">>)>>), b(Everything)>>}

SomeGroups == {<<"widgets", "example", "com">>, <<"y", "x", "k8s", "io">>}

\* The file is edited time and again and no credential is rotated; or one
\* workspace runs to begin with, whose credentials are rotated time and again,
\* or twice while the file is edited.
MCInit ==
  /\ Init
  /\ \/ edits = 0 /\ rotations = MaxRotations
     \/ edits = MaxEdits /\ rotations = 0 /\ Len(file) = 1
     \/ edits = MaxEdits - 1 /\ rotations = MaxRotations - 2 /\ Len(file) = 1

MCFairSpec == MCInit /\ [][Next]_vars /\ Fairness
=============================================================================
