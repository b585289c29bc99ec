------------------------------ MODULE WritePath ------------------------------
(***************************************************************************)
(* What a write goes through before kcp stores it (ServeHTTP in            *)
(* pkg/apiserver/proxy.go, ownerrefs.go, admission.go, the side channel of *)
(* backendclient.go), with the matcher that decides what admission costs   *)
(* (AdmissionMatcher) and the namespace it needs (NamespaceMirror).        *)
(*                                                                         *)
(* All writes are about one object of one namespace.  An object is what    *)
(* was written into it: the writes it includes, and whether it bears the   *)
(* mark a mutating webhook leaves.  Between two calls to kcp, other        *)
(* clients write, and the request may end at its deadline.                 *)
(*                                                                         *)
(* A body is JSON that decodes, JSON that does not, too large, or of a     *)
(* content type inspectWrite passes over although kcp reads it: YAML, or a *)
(* patch whose type has a charset parameter.                               *)
(***************************************************************************)
EXTENDS AdmissionMatcher, NamespaceMirror

CONSTANTS
  Shapes,          \* the requests clients may make
  Clusters,        \* what the cluster may be configured with
  GVR,             \* the resource
  RequestTimeout,  \* resourceProxy.timeout
  Other,           \* a client that is not under observation
  MaxOthers,       \* bound: what it does
  MaxFailures,     \* bound: calls of spillway's own that fail
  None

\* What the properties tell apart of an object.
Values == [includes : SUBSET (Writers \cup {Other}), marked : BOOLEAN]

ASSUME WritePathAssumption ==
  /\ Shapes \subseteq [method : {"POST", "PUT", "PATCH", "DELETE",
                                 "DELETECOLLECTION"},
                       body : {"json", "other", "broken", "oversized"},
                       owner : {"none", "inside", "outside"},
                       sub : STRING, canonical : BOOLEAN, apply : BOOLEAN]
  /\ \A s \in Shapes : s.method = "DELETE" => s.sub = ""
  /\ \A c \in Clusters : \A rule \in c.rules :
       rule.resources \subseteq STRING \X STRING
  /\ TTL \in Nat \ {0} /\ RequestTimeout \in Nat \ {0}
  /\ {MaxTime, MaxDeletions, MaxOthers, MaxFailures} \subseteq Nat
  /\ Other \notin Writers /\ None \notin Values /\ Never \notin Nat

VARIABLES
  cluster,   \* its webhooks and policies
  object,    \* what kcp holds
  latest,    \* the resourceVersion given out last
  others,    \* what other clients did
  failures,
  write      \* the request of each writer

kcp == <<object, latest>>
vars == <<cluster, kcp, others, failures, write, mirror>>

Missing == [version |-> 0, includes |-> {}, marked |-> FALSE]
valueOf(o) == [includes |-> o.includes, marked |-> o.marked]
NoWrite == [pc |-> "idle", shape |-> None, began |-> 0, value |-> None,
            version |-> 0, old |-> 0, base |-> 0, admitted |-> None,
            seen |-> ""]

InFlight == {"old", "dryrun", "admit", "ensure", "forward"}

TypeOK ==
  /\ MirrorTypeOK
  /\ cluster \in Clusters
  /\ object.version \in 0..latest
  /\ object.version = 0 <=> object = Missing
  /\ object.version > 0 => present
  /\ others \in 0..MaxOthers /\ failures \in 0..MaxFailures
  /\ \A w \in Writers :
       /\ write[w].pc \in InFlight \cup {"idle", "over"}
       /\ write[w].pc \in InFlight => now - write[w].began <= RequestTimeout
       /\ ensuring[w] # "no" => write[w].pc = "ensure"

Init ==
  /\ MirrorInit
  /\ cluster \in Clusters
  /\ object \in IF present THEN {Missing, [Missing EXCEPT !.version = 1]} ELSE {Missing}
  /\ latest = 1
  /\ others = 0 /\ failures = 0
  /\ write = [w \in Writers |-> NoWrite]

-----------------------------------------------------------------------------
(* What happens around spillway *)

\* Faulty: a write is given no deadline.
Tick_NoDeadline ==
  /\ now < MaxTime
  /\ now' = now + 1
  /\ UNCHANGED <<cluster, kcp, others, failures, write, present, deletions,
                 deletedAt, known, ensuring>>

\* Time passes; what ServeHTTP does for a write ends at its deadline.
Tick ==
  /\ now < MaxTime
  /\ \A w \in Writers :
       write[w].pc \in InFlight => now + 1 - write[w].began <= RequestTimeout
  /\ now' = now + 1
  /\ UNCHANGED <<cluster, kcp, others, failures, write, present, deletions,
                 deletedAt, known, ensuring>>

OtherWrites ==
  /\ others < MaxOthers
  /\ present
  /\ others' = others + 1
  /\ latest' = latest + 1
  /\ object' = [version |-> latest', includes |-> object.includes \cup {Other},
                marked |-> FALSE]
  /\ UNCHANGED <<cluster, failures, write, mirror>>

OtherDeletes ==
  /\ others < MaxOthers
  /\ object # Missing
  /\ others' = others + 1
  /\ object' = Missing
  /\ UNCHANGED <<cluster, latest, failures, write, mirror>>

\* The namespace is deleted, with what is in it.
NamespaceIsDeleted ==
  /\ DeleteNamespace
  /\ object' = Missing
  /\ UNCHANGED <<cluster, latest, others, failures, write>>

end(w) ==
  /\ write' = [write EXCEPT ![w] = [NoWrite EXCEPT !.pc = "over"]]
  /\ ensuring' = [ensuring EXCEPT ![w] = "no"]
  /\ UNCHANGED <<now, present, deletions, deletedAt, known>>

\* The deadline passes or the client leaves.
Abandon(w) ==
  /\ write[w].pc \in InFlight
  /\ end(w)
  /\ UNCHANGED <<cluster, kcp, others, failures>>

-----------------------------------------------------------------------------
(* inspectWrite and checkOwnerReferences *)

shape(w) == write[w].shape
decodes(s) == s.method \in {"POST", "PUT"} /\ s.body = "json"
refusedUnread(s) == ~s.canonical \/ s.body = "oversized"
ownedOutside(s) == decodes(s) /\ s.owner = "outside"

go(w, fields) ==
  write' = [write EXCEPT ![w] =
              [f \in DOMAIN @ |-> IF f \in DOMAIN fields THEN fields[f] ELSE @[f]]]

-----------------------------------------------------------------------------
(* admissionGate.run and runPatch *)

operationFor(s) == CASE s.method = "POST" -> "CREATE"
                     [] s.method = "DELETE" -> "DELETE"
                     [] s.method = "DELETECOLLECTION" -> ""
                     [] OTHER -> "UPDATE"

watched(s) == matches(cluster, GVR, operationFor(s))

\* The first call a write makes: what is no operation of admission's, and a
\* patch or a delete nobody would see, skips it; nothing is read for a create.
firstStep(s) ==
  IF operationFor(s) = "" THEN "forward"
  ELSE CASE watched(s) /\ s.method # "POST" -> "old"
         [] ~watched(s) /\ s.method = "PATCH" -> "ensure"
         [] ~watched(s) /\ s.method = "DELETE" -> "forward"
         [] OTHER -> "admit"

\* A client that updates has read the object, and says which one.
Begin(w, s) ==
  /\ write[w].pc = "idle"
  /\ ~refusedUnread(s) /\ ~ownedOutside(s)
  /\ go(w, [pc |-> firstStep(s), shape |-> s, began |-> now,
            version |-> IF s.method = "PUT" THEN object.version ELSE 0,
            value |-> [includes |-> {w} \cup IF s.method = "PUT"
                                             THEN object.includes ELSE {},
                       marked |-> FALSE]])
  /\ UNCHANGED <<cluster, kcp, others, failures, mirror>>

\* 400 for a path or a body that is not read, 422 for an owner outside.
RefusedAtOnce(w, s) ==
  /\ write[w].pc = "idle"
  /\ refusedUnread(s) \/ ownedOutside(s)
  /\ end(w)
  /\ UNCHANGED <<cluster, kcp, others, failures>>

afterOld(w) == IF shape(w).method = "PATCH" THEN "dryrun" ELSE "admit"

FetchOld(w) ==
  /\ write[w].pc = "old"
  /\ go(w, [pc |-> afterOld(w), old |-> object.version])
  /\ UNCHANGED <<cluster, kcp, others, failures, mirror>>

\* Admission goes on without the old object.
FetchOldFails(w) ==
  /\ write[w].pc = "old"
  /\ failures < MaxFailures
  /\ failures' = failures + 1
  /\ go(w, [pc |-> afterOld(w)])
  /\ UNCHANGED <<cluster, kcp, others, mirror>>

patched(w, o) == [valueOf(o) EXCEPT !.includes = @ \cup {w}]

\* A patch inspectWrite has passed over is sent without its body.
resolves(w) == /\ shape(w).body = "json"
               /\ object # Missing \/ (shape(w).apply /\ present)

DryRun(w) ==
  /\ write[w].pc = "dryrun"
  /\ resolves(w)
  /\ go(w, [pc |-> "admit", base |-> object.version, value |-> patched(w, object)])
  /\ UNCHANGED <<cluster, kcp, others, failures, mirror>>

\* kcp refuses the patch: it is forwarded for kcp to answer, unadmitted.
DryRunRefused(w) ==
  /\ write[w].pc = "dryrun"
  /\ ~resolves(w)
  /\ go(w, [pc |-> "ensure"])
  /\ UNCHANGED <<cluster, kcp, others, failures, mirror>>

DryRunFails(w) ==
  /\ write[w].pc = "dryrun"
  /\ failures < MaxFailures
  /\ failures' = failures + 1
  /\ go(w, [pc |-> "ensure"])
  /\ UNCHANGED <<cluster, kcp, others, mirror>>

\* A patch of what could not be read is admitted as a create.
operation(w) == IF shape(w).method = "PATCH" /\ write[w].old = 0 THEN "CREATE"
                ELSE operationFor(shape(w))

\* kindFor: of the object, or else of the old one.
kindKnown(w) == \/ shape(w).method = "PATCH" \/ decodes(shape(w))
                \/ write[w].old # 0

subject(w) == shape(w).method # "DELETE" /\
              (shape(w).method = "PATCH" \/ decodes(shape(w)))

\* Faulty: what the webhook made of the object is not encoded again.
forwarded_AsReceived(received, admitted) == received

\* What is forwarded is the admitted object, if there is one.
forwarded(received, admitted) == IF admitted = None THEN received ELSE admitted

\* Faulty: the version is read again, so that the PUT succeeds.
replacementVersion_Reread(w) == object.version

\* The replacement of a patch replaces the object that was read before the dry
\* run; one that was not read, the one the dry run was made on.
replacementVersion(w) ==
  IF write[w].old # 0 THEN write[w].old ELSE write[w].base

\* Mutating webhooks, then validating ones.  A patch they change is forwarded
\* as a PUT of the admitted object.  seen is a history: as what they saw it.
Admit(w, mutates) ==
  LET admitted == IF ~subject(w) THEN None
                  ELSE [write[w].value EXCEPT !.marked = @ \/ mutates]
      changed == admitted # None /\ admitted # write[w].value
  IN /\ write[w].pc = "admit"
     /\ kindKnown(w)
     /\ mutates => /\ called(cluster, GVR, shape(w).sub, operation(w))
                   /\ cluster.mutates
     /\ go(w, [pc |-> IF shape(w).method = "DELETE" THEN "forward" ELSE "ensure",
               admitted |-> admitted, seen |-> operation(w), old |-> 0,
               value |-> forwarded(write[w].value, admitted),
               version |-> IF shape(w).method = "PATCH"
                           THEN IF changed THEN replacementVersion(w) ELSE 0
                           ELSE write[w].version,
               shape |-> IF shape(w).method = "PATCH" /\ changed
                         THEN [shape(w) EXCEPT !.method = "replacement"]
                         ELSE shape(w)])
     /\ UNCHANGED <<cluster, kcp, others, failures, mirror>>

\* A webhook refuses, or nothing tells the kind.
Refused(w) ==
  /\ write[w].pc = "admit"
  /\ ~kindKnown(w) \/ called(cluster, GVR, shape(w).sub, operation(w))
  /\ end(w)
  /\ UNCHANGED <<cluster, kcp, others, failures>>

-----------------------------------------------------------------------------
(* The namespace, and the write itself *)

EnsureNamespace(w) ==
  /\ write[w].pc = "ensure"
  /\ ensure(w)
  /\ UNCHANGED <<cluster, kcp, others, failures, write>>

EnsureNamespaceFails(w) ==
  /\ write[w].pc = "ensure"
  /\ failures < MaxFailures
  /\ failures' = failures + 1
  /\ \/ FetchNamespaceFails(w)
     \/ CreateNamespaceFails(w)
  /\ UNCHANGED <<cluster, kcp, others, write>>

ready(w) == write[w].pc = "forward" \/ (write[w].pc = "ensure" /\ ensuring[w] = "done")

\* kcp, as a server of custom resources: an update needs the version it
\* replaces and never creates, and nothing is created without its namespace.
accepts(w) ==
  /\ shape(w).body # "broken"
  /\ CASE shape(w).method = "POST" -> present /\ object = Missing
       [] shape(w).method = "PATCH" -> object # Missing \/ (shape(w).apply /\ present)
       [] OTHER -> object # Missing /\ object.version = write[w].version

deletes(w) == shape(w).method \in {"DELETE", "DELETECOLLECTION"}

Store(w) ==
  /\ ready(w) /\ ~deletes(w)
  /\ accepts(w)
  /\ latest' = latest + 1
  /\ LET value == IF shape(w).method = "PATCH" THEN patched(w, object)
                  ELSE write[w].value
     IN object' = [version |-> latest', includes |-> value.includes,
                   marked |-> value.marked]
  /\ end(w)
  /\ UNCHANGED <<cluster, others, failures>>

DeleteObject(w) ==
  /\ ready(w) /\ deletes(w)
  /\ object' = Missing
  /\ end(w)
  /\ UNCHANGED <<cluster, latest, others, failures>>

RefusedByKcp(w) ==
  /\ ready(w) /\ ~deletes(w)
  /\ ~accepts(w)
  /\ end(w)
  /\ UNCHANGED <<cluster, kcp, others, failures>>

-----------------------------------------------------------------------------
Serve(w) ==
  \/ \E s \in Shapes : Begin(w, s) \/ RefusedAtOnce(w, s)
  \/ FetchOld(w) \/ FetchOldFails(w)
  \/ DryRun(w) \/ DryRunRefused(w) \/ DryRunFails(w)
  \/ \E mutates \in BOOLEAN : Admit(w, mutates)
  \/ Refused(w)
  \/ EnsureNamespace(w) \/ EnsureNamespaceFails(w)
  \/ Store(w) \/ DeleteObject(w) \/ RefusedByKcp(w)
  \/ Abandon(w)

Next ==
  \/ \E w \in Writers : Serve(w)
  \/ Tick \/ OtherWrites \/ OtherDeletes \/ NamespaceIsDeleted

Spec == Init /\ [][Next]_vars

-----------------------------------------------------------------------------
(* Properties *)

\* The step in which w's object is stored.
Stores(w) == ready(w) /\ write'[w].pc = "over" /\ latest' # latest

\* admission.go:198, "so a concurrent write conflicts rather than being
\* overwritten": whatever was stored between the reads of a patch and the
\* patch, as itself or as a replacement, is still in what it stores.
PatchesLoseNothing ==
  [][\A w \in Writers :
       Stores(w) /\ shape(w).method \in {"PATCH", "replacement"} =>
         object.includes \subseteq object'.includes]_vars

\* README.md:76 and 79-84: an object that arrives whole, and one that replaces
\* a patch, is stored as admission left it; and so is what a patch makes of
\* the object its dry run was made on, if kcp still has that.
StoredWasAdmitted ==
  [][\A w \in Writers : Stores(w) =>
       /\ decodes(shape(w)) \/ shape(w).method = "replacement" =>
            write[w].admitted # None /\ valueOf(object') = write[w].admitted
       /\ /\ shape(w).method = "PATCH"
          /\ write[w].admitted # None /\ object.version = write[w].base
          => valueOf(object') = write[w].admitted]_vars

\* What w's request does to the object in this step, as admission names it.
effect(w) ==
  IF ready(w) /\ write'[w].pc = "over" /\ object' # object
  THEN CASE object' = Missing -> "DELETE"
         [] object = Missing -> "CREATE"
         [] OTHER -> "UPDATE"
  ELSE ""

\* Every webhook and policy for what w's request does has been called.
Fires(w) ==
  LET seen == write[w].seen
      reached(rule, op) == reaches(rule, GVR, shape(w).sub, op)
  IN /\ cluster.bindings /\ effect(w) # "" => seen # ""
     /\ \A rule \in cluster.rules :
          effect(w) # "" /\ reached(rule, effect(w)) =>
            seen # "" /\ reached(rule, seen)

\* A create, an update and a delete of one object that is carried out has
\* passed every webhook for it, whatever the informers know by then.
PlainWritesFire ==
  [][\A w \in Writers :
       write[w].pc \in InFlight /\ shape(w).method \in {"POST", "PUT", "DELETE"} =>
         Fires(w)]_vars

\* README.md:67, "Admission webhooks fire on create, update and delete": on
\* whatever request creates, updates or deletes the object.
WebhooksFire ==
  [][\A w \in Writers : write[w].pc \in InFlight => Fires(w)]_vars

\* namespaces.go:130-146: that a namespace is remembered although it is gone
\* lasts for less than the time to live and the duration of the request that
\* saw it last, counted from its deletion; then a write mirrors it again.
NamespaceGapIsBounded ==
  fresh /\ ~present =>
    deletedAt # Never /\ now < deletedAt + TTL + RequestTimeout
=============================================================================
