------------------------------ MODULE Discovery ------------------------------
(***************************************************************************)
(* What spillway says it serves and how it answers under /apis/            *)
(* (pkg/apiserver/discovery.go, with Owns and proxyFor of router.go).      *)
(*                                                                         *)
(* publish runs in the loop of every workspace, in the start-up hook, on   *)
(* election and on a reload, without a lock, and writes three things one   *)
(* after the other: the set of what was published, /apis and aggregated    *)
(* discovery.  A request asks the router up to three times.                *)
(*                                                                         *)
(* A snapshot is the router's merged view: the resources of every served   *)
(* group version.  How the router comes by it is the subject of Router and *)
(* is one step here.                                                       *)
(***************************************************************************)
EXTENDS Naturals, Sequences, FiniteSets

CONSTANTS
  Groups, Versions,
  Snapshots,    \* what the workspaces may serve: resources of <<group, version>>
  Publishers,   \* goroutines that call publish
  Ownerships,   \* the sets of groups the workspaces may be configured for
  Asks,         \* what may be asked for, see Requests
  MaxChanges,   \* bound: changes of the router's state
  None          \* no subresource, no answer, no group

served(s) == {gv[1] : gv \in DOMAIN s}
versionsOf(s, g) == {gv[2] : gv \in {x \in DOMAIN s : x[1] = g}}

\* /apis/<group>, /apis/<group>/<version> and a resource under it.
Requests == [kind : {"group", "version", "resource"}, group : Groups,
             version : Versions]

ASSUME DiscoveryAssumption ==
  /\ MaxChanges \in Nat
  /\ Ownerships \subseteq SUBSET Groups /\ Groups \in Ownerships
  /\ Asks \subseteq Requests
  /\ \A s \in Snapshots : DOMAIN s \subseteq Groups \X Versions
  /\ None \notin Groups

VARIABLES
  snapshot,    \* router.Snapshot
  owned,       \* the groups router.Owns answers for
  changes,     \* how often these changed
  published,   \* discoveryHandler.published
  listed,      \* /apis: the versions of every group in it
  aggregated,  \* aggregated discovery: a document per group version in it
  publisher,   \* where each publisher is, and its locals
  overlapped,  \* history: two publishes ran at the same time
  request      \* a request, and what it has met

world == <<snapshot, owned, changes>>
documents == <<published, listed, aggregated>>
vars == <<world, documents, publisher, overlapped, request>>

Empty == [x \in {} |-> x]
Idle == [pc |-> "idle", taken |-> Empty, gone |-> {}, left |-> {},
         group |-> None, versions |-> {}]
NoRequest == [pc |-> "answered", ask |-> <<>>, present |-> FALSE,
              absent |-> FALSE, answer |-> None]

-----------------------------------------------------------------------------
(* aggregatedVersion *)

\* A kind that names neither group nor version is of the list it came in.
responseKind(gv, resource) ==
  IF resource.of = None THEN gv ELSE resource.of

\* Subresources nest under the parent of their name, wherever it is listed.
\* The order of the resources is left out.
aggregatedVersion(gv, resources) ==
  LET parents == {i \in 1..Len(resources) : resources[i].sub = None}
      subs(name) == {i \in (1..Len(resources)) \ parents :
                       resources[i].name = name}
  IN {[resource |-> resources[i].name, kind |-> responseKind(gv, resources[i]),
       subresources |->
         {<<resources[j].sub, responseKind(gv, resources[j])>> :
            j \in subs(resources[i].name)}] :
        i \in parents}

-----------------------------------------------------------------------------
TypeOK ==
  /\ snapshot \in Snapshots
  /\ owned \in Ownerships
  /\ changes \in 0..MaxChanges
  /\ published \in SUBSET Groups
  /\ DOMAIN listed \subseteq Groups
  /\ \A g \in DOMAIN listed : listed[g] \in (SUBSET Versions) \ {{}}
  /\ DOMAIN aggregated \subseteq Groups \X Versions
  /\ \A p \in Publishers :
       LET x == publisher[p]
       IN /\ x.pc \in {"idle", "diff", "withdraw", "removed", "add"}
          /\ x.taken \in Snapshots \cup {Empty}
          /\ x.gone \cap served(x.taken) = {}
          /\ x.left \subseteq served(x.taken)
          /\ x.versions \subseteq versionsOf(x.taken, x.group)
  /\ overlapped \in BOOLEAN
  /\ /\ request.pc \in {"owns", "resources", "proxy", "answered"}
     /\ request.ask \in Asks \/ request.pc = "answered"
     /\ request.answer \in {None, "notFound", "notImplemented", "group",
                            "resources", "forwarded"}

Init ==
  /\ snapshot \in Snapshots
  /\ owned = Groups
  /\ changes = 0
  /\ published = {} /\ listed = Empty /\ aggregated = Empty
  /\ publisher = [p \in Publishers |-> Idle]
  /\ overlapped = FALSE
  /\ request = NoRequest

\* Is what is asked for served, and is it spillway's to answer for?
found(ask, s) == IF ask.kind = "group" THEN ask.group \in served(s)
                 ELSE <<ask.group, ask.version>> \in DOMAIN s
there(ask, s, o) == ask.group \in o /\ found(ask, s)

\* The router's state changes; a request under way takes note.
becomes(s, o) ==
  /\ changes < MaxChanges
  /\ snapshot' = s /\ owned' = o
  /\ changes' = changes + 1
  /\ request' = IF request.pc = "answered" THEN request
                ELSE [request EXCEPT !.present = @ \/ there(request.ask, s, o),
                                     !.absent = @ \/ ~there(request.ask, s, o)]
  /\ UNCHANGED <<documents, publisher, overlapped>>

\* replace stores another set of workspaces: Owns asks that at once, the merged
\* view is what it was.
Replace(o) == o # owned /\ becomes(snapshot, o)

\* The view is merged again, from the workspaces there are.
Merge(s) == s # snapshot /\ served(s) \subseteq owned /\ becomes(s, owned)

-----------------------------------------------------------------------------
(* publish *)

Without(f, keys) == [k \in DOMAIN f \ keys |-> f[k]]
With(f, key, value) ==
  [k \in DOMAIN f \cup {key} |-> IF k = key THEN value ELSE f[k]]

\* publish returns when nothing is left to add.
adding(x) == IF x.left = {} /\ x.versions = {} THEN Idle
             ELSE [x EXCEPT !.pc = "add"]

TakeSnapshot(p) ==
  /\ publisher[p].pc = "idle"
  /\ publisher' = [publisher EXCEPT ![p].pc = "diff", ![p].taken = snapshot]
  /\ overlapped' = (overlapped \/ \E q \in Publishers : publisher[q].pc # "idle")
  /\ UNCHANGED <<world, documents, request>>

\* Faulty: what is withdrawn is what was not there before.
Difference_Swapped(p) ==
  /\ publisher[p].pc = "diff"
  /\ publisher' = [publisher EXCEPT ![p].pc = "withdraw",
                     ![p].gone = served(publisher[p].taken) \ published]
  /\ UNCHANGED <<world, documents, overlapped, request>>

Difference(p) ==
  /\ publisher[p].pc = "diff"
  /\ publisher' = [publisher EXCEPT ![p].pc = "withdraw",
                     ![p].gone = published \ served(publisher[p].taken)]
  /\ UNCHANGED <<world, documents, overlapped, request>>

RemoveGroup(p, g) ==
  /\ publisher[p].pc = "withdraw"
  /\ g \in publisher[p].gone
  /\ listed' = Without(listed, {g})
  /\ publisher' = [publisher EXCEPT ![p].pc = "removed", ![p].group = g]
  /\ UNCHANGED <<world, published, aggregated, overlapped, request>>

\* Faulty: a withdrawn group stays in aggregated discovery.
RemoveAggregated_Classic(p) ==
  /\ publisher[p].pc = "removed"
  /\ publisher' = [publisher EXCEPT ![p].pc = "withdraw", ![p].group = None,
                     ![p].gone = @ \ {publisher[p].group}]
  /\ UNCHANGED <<world, documents, overlapped, request>>

RemoveAggregated(p) ==
  /\ publisher[p].pc = "removed"
  /\ aggregated' = Without(aggregated, {publisher[p].group} \X Versions)
  /\ publisher' = [publisher EXCEPT ![p].pc = "withdraw", ![p].group = None,
                     ![p].gone = @ \ {publisher[p].group}]
  /\ UNCHANGED <<world, published, listed, overlapped, request>>

\* Faulty: only groups that were not published yet are added.
Remember_OnlyNew(p) ==
  /\ publisher[p].pc = "withdraw" /\ publisher[p].gone = {}
  /\ published' = served(publisher[p].taken)
  /\ publisher' = [publisher EXCEPT ![p] =
                     adding([@ EXCEPT !.left = served(publisher[p].taken) \ published])]
  /\ UNCHANGED <<world, listed, aggregated, overlapped, request>>

\* published is replaced, after the withdrawals and before the additions.
Remember(p) ==
  /\ publisher[p].pc = "withdraw" /\ publisher[p].gone = {}
  /\ published' = served(publisher[p].taken)
  /\ publisher' = [publisher EXCEPT ![p] =
                     adding([@ EXCEPT !.left = served(publisher[p].taken)])]
  /\ UNCHANGED <<world, listed, aggregated, overlapped, request>>

AddGroup(p, g) ==
  /\ publisher[p].pc = "add" /\ publisher[p].versions = {}
  /\ g \in publisher[p].left
  /\ listed' = With(listed, g, versionsOf(publisher[p].taken, g))
  /\ publisher' = [publisher EXCEPT ![p].group = g, ![p].left = @ \ {g},
                     ![p].versions = versionsOf(publisher[p].taken, g)]
  /\ UNCHANGED <<world, published, aggregated, overlapped, request>>

AddGroupVersion(p, v) ==
  LET gv == <<publisher[p].group, v>>
  IN /\ publisher[p].pc = "add"
     /\ v \in publisher[p].versions
     /\ aggregated' = With(aggregated, gv,
                           aggregatedVersion(gv, publisher[p].taken[gv]))
     /\ publisher' = [publisher EXCEPT ![p] =
                        adding([@ EXCEPT !.versions = publisher[p].versions \ {v}])]
     /\ UNCHANGED <<world, published, listed, overlapped, request>>

publish(p) ==
  \/ TakeSnapshot(p) \/ Difference(p) \/ RemoveAggregated(p) \/ Remember(p)
  \/ \E g \in Groups : RemoveGroup(p, g) \/ AddGroup(p, g)
  \/ \E v \in Versions : AddGroupVersion(p, v)

-----------------------------------------------------------------------------
(* serve *)

Ask(ask) ==
  /\ request.pc = "answered"
  /\ request' = [NoRequest EXCEPT !.pc = "owns", !.ask = ask,
                   !.present = there(ask, snapshot, owned),
                   !.absent = ~there(ask, snapshot, owned)]
  /\ UNCHANGED <<world, documents, publisher, overlapped>>

answering(answer) ==
  request' = [request EXCEPT !.pc = "answered", !.ask = <<>>, !.answer = answer]

\* Faulty: only what was published is served.
Owns_Published ==
  /\ request.pc = "owns"
  /\ IF request.ask.group \in published
     THEN request' = [request EXCEPT !.pc = "resources"]
     ELSE answering("notFound")
  /\ UNCHANGED <<world, documents, publisher, overlapped>>

\* serve: is the group configured to be spillway's?
Owns ==
  /\ request.pc = "owns"
  /\ IF request.ask.group \in owned
     THEN request' = [request EXCEPT !.pc = "resources"]
     ELSE answering("notFound")
  /\ UNCHANGED <<world, documents, publisher, overlapped>>

\* serveGroup, for /apis/<group>.
ServeGroup ==
  /\ request.pc = "resources" /\ request.ask.kind = "group"
  /\ answering(IF request.ask.group \in served(snapshot) THEN "group"
               ELSE "notFound")
  /\ UNCHANGED <<world, documents, publisher, overlapped>>

\* serveUnderGroup: the resources of the group version.
ServeUnderGroup ==
  /\ request.pc = "resources" /\ request.ask.kind # "group"
  /\ \/ /\ <<request.ask.group, request.ask.version>> \notin DOMAIN snapshot
        /\ answering("notFound")
     \/ /\ <<request.ask.group, request.ask.version>> \in DOMAIN snapshot
        /\ IF request.ask.kind = "version" THEN answering("resources")
           ELSE request' = [request EXCEPT !.pc = "proxy"]
  /\ UNCHANGED <<world, documents, publisher, overlapped>>

\* proxyTo, proxyFor: the group's workspace, in a snapshot read again.
Forward ==
  /\ request.pc = "proxy"
  /\ answering(IF request.ask.group \in served(snapshot) THEN "forwarded"
               ELSE "notImplemented")
  /\ UNCHANGED <<world, documents, publisher, overlapped>>

serve == Owns \/ ServeGroup \/ ServeUnderGroup \/ Forward

-----------------------------------------------------------------------------
Next ==
  \/ \E o \in Ownerships : Replace(o)
  \/ \E s \in Snapshots : Merge(s)
  \/ \E p \in Publishers : publish(p)
  \/ \E ask \in Asks : Ask(ask)
  \/ serve

Spec == Init /\ [][Next]_vars

\* Every workspace publishes after every refresh, so at least once in every
\* resync period, and publish does not block.
FairSpec == Spec /\ \A p \in Publishers : WF_vars(publish(p))

-----------------------------------------------------------------------------
(* Properties *)

\* What a document of aggregated discovery says, as triples.
Said(gv, document) ==
  {<<r.resource, None, r.kind>> : r \in document} \cup
  UNION {{<<r.resource, s[1], s[2]>> : s \in r.subresources} : r \in document}

\* What it should say: every resource, and every subresource of one.
Truth(gv, resources) ==
  {<<resources[i].name, resources[i].sub, responseKind(gv, resources[i])>> :
     i \in {k \in 1..Len(resources) :
              \E j \in 1..Len(resources) : /\ resources[j].sub = None
                                           /\ resources[j].name = resources[k].name}}

\* discovery.go:182, "so that /apis lists the owned groups and aggregated
\* discovery reports their resources": once what is served no longer changes,
\* every served group version stays in both documents, as it is served,
\* whatever publishes with older snapshots were still running.
ServedIsListed ==
  <>[](/\ \A g \in served(snapshot) :
            g \in DOMAIN listed /\ listed[g] = versionsOf(snapshot, g)
       /\ \A gv \in DOMAIN snapshot :
            /\ gv \in DOMAIN aggregated
            /\ Said(gv, aggregated[gv]) = Truth(gv, snapshot[gv]))

\* discovery.go:188, "Anything published before and gone now is withdrawn":
\* as long as no two publishes have overlapped, no group is left in either
\* document that was not in the snapshot published last.
SerialPublishWithdraws ==
  ~overlapped /\ (\A p \in Publishers : publisher[p].pc = "idle") =>
    DOMAIN listed = published /\ {gv[1] : gv \in DOMAIN aggregated} = published

\* The same without the proviso, for /apis: once what is served no longer
\* changes, a group that is gone is no longer listed.
GoneIsWithdrawn == <>[](DOMAIN listed \subseteq served(snapshot))

\* discovery.go:91-155 reads the router's state up to three times in one
\* request, and the merged view lags behind the set of workspaces: still, a
\* refusal is only ever given if what was asked for was missing at some moment
\* of the request, and anything else only if it was owned and served at one
\* and the same moment.
AnswersAreJustified ==
  request.answer # None =>
    /\ request.answer \in {"notFound", "notImplemented"} => request.absent
    /\ request.answer # "notFound" => request.present
=============================================================================
