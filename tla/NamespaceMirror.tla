--------------------------- MODULE NamespaceMirror ---------------------------
(***************************************************************************)
(* The namespaces spillway creates in a workspace so that writes into them *)
(* are accepted (pkg/apiserver/namespaces.go): here one namespace, as      *)
(* several writers ensure it, while it is deleted in kcp and time passes.  *)
(***************************************************************************)
EXTENDS Naturals

CONSTANTS
  Writers,
  TTL,           \* namespaceTTL
  MaxTime,       \* bound: the clock
  MaxDeletions,  \* bound: deletions of the namespace in kcp
  Never

VARIABLES
  now,
  present,    \* the namespace exists in kcp
  deletions,
  deletedAt,  \* history: when it was last deleted
  known,      \* namespaceMirror.known, of this namespace
  ensuring    \* where each writer is in ensure

mirror == <<now, present, deletions, deletedAt, known, ensuring>>

MirrorTypeOK ==
  /\ now \in 0..MaxTime
  /\ present \in BOOLEAN
  /\ deletions \in 0..MaxDeletions
  /\ deletedAt \in 0..MaxTime \cup {Never}
  /\ known \in 0..MaxTime \cup {Never}
  /\ ensuring \in [Writers -> {"no", "fetch", "create", "confirmed", "done"}]

MirrorInit ==
  /\ now = 0
  /\ present \in BOOLEAN
  /\ deletions = 0 /\ deletedAt = Never /\ known = Never
  /\ ensuring = [w \in Writers |-> "no"]

DeleteNamespace ==
  /\ deletions < MaxDeletions
  /\ present
  /\ present' = FALSE
  /\ deletedAt' = now
  /\ deletions' = deletions + 1
  /\ UNCHANGED <<now, known, ensuring>>

at(w, where) == ensuring' = [ensuring EXCEPT ![w] = where]

\* Faulty: an entry is good for one moment longer than its time to live.
fresh_OffByOne == known # Never /\ now - known <= TTL

fresh == known # Never /\ now - known < TTL

\* fresh, which forgets an entry that has expired.
Ensure(w) ==
  /\ ensuring[w] = "no"
  /\ known' = IF fresh THEN known ELSE Never
  /\ at(w, IF fresh THEN "done" ELSE "fetch")
  /\ UNCHANGED <<now, present, deletions, deletedAt>>

\* The namespace is read.
FetchNamespace(w) ==
  /\ ensuring[w] = "fetch"
  /\ at(w, IF present THEN "confirmed" ELSE "create")
  /\ UNCHANGED <<now, present, deletions, deletedAt, known>>

\* It is created, or has been by somebody else by now.
CreateNamespace(w) ==
  /\ ensuring[w] = "create"
  /\ present' = TRUE
  /\ at(w, "confirmed")
  /\ UNCHANGED <<now, deletions, deletedAt, known>>

\* A read that fails for any reason is followed by a create.
FetchNamespaceFails(w) ==
  /\ ensuring[w] = "fetch"
  /\ at(w, "create")
  /\ UNCHANGED <<now, present, deletions, deletedAt, known>>

\* Nothing is remembered of a create that fails; the write goes on.
CreateNamespaceFails(w) ==
  /\ ensuring[w] = "create"
  /\ at(w, "done")
  /\ UNCHANGED <<now, present, deletions, deletedAt, known>>

Remember(w) ==
  /\ ensuring[w] = "confirmed"
  /\ known' = now
  /\ at(w, "done")
  /\ UNCHANGED <<now, present, deletions, deletedAt>>

ensure(w) ==
  Ensure(w) \/ FetchNamespace(w) \/ CreateNamespace(w) \/ Remember(w)
=============================================================================
