--------------------------- MODULE DiscoveryProofs ---------------------------
(***************************************************************************)
(* For any number of groups, versions, publishers and changes: publishes   *)
(* that do not overlap leave nothing behind in either document, and every  *)
(* answer under /apis/ is true of some moment of its request.              *)
(*                                                                         *)
(* publish writes its three documents one after the other, so between its  *)
(* steps they differ; Stage says by how much, at each point of publish.    *)
(* That it holds needs that nobody else publishes meanwhile, which is what *)
(* ~overlapped records.  Witnessed says that a request's history knows     *)
(* whether what is asked for is there now.                                 *)
(***************************************************************************)
EXTENDS Discovery, TLAPS

PublisherStates ==
  [pc : {"idle", "diff", "withdraw", "removed", "add"},
   taken : Snapshots \cup {Empty}, gone : SUBSET Groups,
   left : SUBSET Groups, group : Groups \cup {None},
   versions : SUBSET Versions]
RequestStates ==
  [pc : {"owns", "resources", "proxy", "answered"}, ask : Asks \cup {<<>>},
   present : BOOLEAN, absent : BOOLEAN,
   answer : {None, "notFound", "notImplemented", "group", "resources",
             "forwarded"}]

AggregatedGroups == {gv[1] : gv \in DOMAIN aggregated}

\* A publisher between two publishes has no locals, and one that withdraws has
\* nothing to add yet.
Locals(x) ==
  /\ x.pc = "idle" => x = Idle
  /\ x.pc # "add" => x.left = {} /\ x.versions = {}
  /\ x.pc = "diff" => x.gone = {}
  /\ x.pc = "removed" => x.group \in x.gone
  /\ x.pc = "add" => x.gone = {}

\* How far the documents are from what was published last.
Stage(x) ==
  /\ x.pc = "diff" => DOMAIN listed = published /\ AggregatedGroups = published
  /\ x.pc = "withdraw" =>
       /\ DOMAIN listed = (published \cap served(x.taken)) \cup x.gone
       /\ AggregatedGroups = (published \cap served(x.taken)) \cup x.gone
  /\ x.pc = "removed" =>
       /\ DOMAIN listed = (published \cap served(x.taken)) \cup (x.gone \ {x.group})
       /\ AggregatedGroups = (published \cap served(x.taken)) \cup x.gone
  /\ x.pc = "add" =>
       /\ published = served(x.taken)
       /\ DOMAIN listed \subseteq published /\ AggregatedGroups \subseteq published
       /\ \A g \in published \ x.left :
            /\ g \in DOMAIN listed
            /\ g \in AggregatedGroups \/ (g = x.group /\ x.versions # {})

Serial ==
  ~overlapped =>
    /\ \A p, q \in Publishers :
         publisher[p].pc # "idle" /\ publisher[q].pc # "idle" => p = q
    /\ (\A p \in Publishers : publisher[p].pc = "idle") =>
         DOMAIN listed = published /\ AggregatedGroups = published
    /\ \A p \in Publishers : Stage(publisher[p])

Witnessed ==
  /\ request.pc # "answered" =>
       /\ request.ask \in Asks /\ request.answer = None
       /\ there(request.ask, snapshot, owned) => request.present
       /\ ~there(request.ask, snapshot, owned) => request.absent
  /\ request.pc \in {"resources", "proxy"} /\ found(request.ask, snapshot) =>
       request.present
  /\ request.pc = "proxy" => request.present /\ request.ask.kind = "resource"

IInv ==
  /\ TypeOK
  /\ publisher \in [Publishers -> PublisherStates]
  /\ \A p \in Publishers : Locals(publisher[p])
  /\ Serial
  /\ request \in RequestStates
  /\ Witnessed
  /\ AnswersAreJustified

-----------------------------------------------------------------------------
(* What the operators yield *)

\* The group versions of a snapshot, and what they are made of.
LEMMA SnapshotParts ==
  ASSUME NEW s \in Snapshots \cup {Empty}
  PROVE  /\ DOMAIN s \subseteq Groups \X Versions
         /\ served(s) \subseteq Groups
         /\ \A g \in Groups : g \in served(s) => versionsOf(s, g) # {}
         /\ \A g : versionsOf(s, g) \subseteq Versions
         /\ \A g : versionsOf(s, g) # {} => g \in served(s)
         /\ \A g \in Groups, v \in Versions : <<g, v>> \in DOMAIN s => g \in served(s)
<1>1. DOMAIN s \subseteq Groups \X Versions
  BY DiscoveryAssumption DEF Empty
<1>2. \A gv \in DOMAIN s : gv[1] \in Groups /\ gv[2] \in Versions
  BY <1>1
<1> QED BY <1>1, <1>2 DEF served, versionsOf

\* Nothing is served by nobody.
LEMMA EmptyServes == DOMAIN Empty = {} /\ served(Empty) = {}
  BY DEF Empty, served

\* A group taken out of a document.
LEMMA EntryLeaves ==
  ASSUME NEW f, NEW g
  PROVE  /\ DOMAIN Without(f, {g}) = DOMAIN f \ {g}
         /\ \A h \in DOMAIN f \ {g} : Without(f, {g})[h] = f[h]
  BY DEF Without

\* A group that leaves aggregated discovery leaves with all its versions.
LEMMA GroupLeaves ==
  ASSUME NEW f, DOMAIN f \subseteq Groups \X Versions, NEW g \in Groups
  PROVE  /\ DOMAIN Without(f, {g} \X Versions) \subseteq Groups \X Versions
         /\ {gv[1] : gv \in DOMAIN Without(f, {g} \X Versions)}
              = {gv[1] : gv \in DOMAIN f} \ {g}
<1>1. DOMAIN Without(f, {g} \X Versions) = DOMAIN f \ ({g} \X Versions)
  BY DEF Without
<1>2. \A gv \in DOMAIN f : gv \in {g} \X Versions <=> gv[1] = g
  OBVIOUS
<1> QED BY <1>1, <1>2

\* A group version that enters it brings its group.
LEMMA GroupEnters ==
  ASSUME NEW f, DOMAIN f \subseteq Groups \X Versions,
         NEW g \in Groups, NEW v \in Versions, NEW value
  PROVE  /\ DOMAIN With(f, <<g, v>>, value) \subseteq Groups \X Versions
         /\ {gv[1] : gv \in DOMAIN With(f, <<g, v>>, value)}
              = {gv[1] : gv \in DOMAIN f} \cup {g}
<1>1. DOMAIN With(f, <<g, v>>, value) = DOMAIN f \cup {<<g, v>>}
  BY DEF With
<1> QED BY <1>1

-----------------------------------------------------------------------------
\* Nothing published, nobody publishing, no request.
LEMMA InitInvariant == Init => IInv
<1> SUFFICES ASSUME Init PROVE IInv
  OBVIOUS
<1> USE DiscoveryAssumption DEF Init
<1>1. /\ Idle \in PublisherStates /\ Idle.pc = "idle" /\ Idle.gone = {}
      /\ Idle.left = {} /\ Idle.versions = {} /\ Idle.taken = Empty
  BY DEF Idle, PublisherStates
<1>2. \A p \in Publishers : publisher[p] = Idle
  OBVIOUS
<1>3. /\ NoRequest \in RequestStates /\ NoRequest.pc = "answered"
      /\ NoRequest.answer = None
  BY DEF NoRequest, RequestStates
<1>4. served(snapshot) \subseteq owned
  BY SnapshotParts
<1>5. TypeOK
  <2>1. \A p \in Publishers :
          /\ publisher[p].pc \in {"idle", "diff", "withdraw", "removed", "add"}
          /\ publisher[p].taken \in Snapshots \cup {Empty}
          /\ publisher[p].gone \cap served(publisher[p].taken) = {}
          /\ publisher[p].left \subseteq served(publisher[p].taken)
          /\ publisher[p].versions
               \subseteq versionsOf(publisher[p].taken, publisher[p].group)
    BY <1>1, <1>2
  <2>2. overlapped \in BOOLEAN
    OBVIOUS
  <2>3. /\ request.pc \in {"owns", "resources", "proxy", "answered"}
        /\ request.ask \in Asks \/ request.pc = "answered"
        /\ request.answer \in {None, "notFound", "notImplemented", "group",
                               "resources", "forwarded"}
    BY <1>3
  <2> QED BY <1>4, <2>1, <2>2, <2>3, EmptyServes DEF TypeOK
<1>6. Serial
  <2>1. AggregatedGroups = {} /\ DOMAIN listed = {}
    BY EmptyServes DEF AggregatedGroups
  <2>2. \A p \in Publishers : publisher[p].pc = "idle"
    BY <1>1, <1>2
  <2> QED BY <2>1, <2>2 DEF Serial, Stage
<1>7. \A p \in Publishers : Locals(publisher[p])
  BY <1>1, <1>2 DEF Locals
<1>8. Witnessed /\ AnswersAreJustified
  BY <1>3 DEF Witnessed, AnswersAreJustified
<1> QED BY <1>1, <1>2, <1>3, <1>5, <1>6, <1>7, <1>8 DEF IInv

-----------------------------------------------------------------------------
(* publish *)

\* What TypeOK says of the documents and of a publisher.
DocumentsFit ==
  /\ published \in SUBSET Groups
  /\ DOMAIN listed \subseteq Groups
  /\ \A g \in DOMAIN listed : listed[g] \in (SUBSET Versions) \ {{}}
  /\ DOMAIN aggregated \subseteq Groups \X Versions
LocalsFit(x) ==
  /\ x.gone \cap served(x.taken) = {}
  /\ x.left \subseteq served(x.taken)
  /\ x.versions \subseteq versionsOf(x.taken, x.group)

\* A step of one publish: what is to be shown of it.
LEMMA PublishStep ==
  ASSUME IInv, NEW p \in Publishers, UNCHANGED <<world, overlapped, request>>,
         publisher[p].pc # "idle",
         publisher' \in [Publishers -> PublisherStates],
         \A q \in Publishers \ {p} : publisher'[q] = publisher[q],
         Locals(publisher'[p]), LocalsFit(publisher'[p]), DocumentsFit',
         ~overlapped =>
           IF publisher'[p].pc = "idle"
           THEN DOMAIN listed' = published' /\ AggregatedGroups' = published'
           ELSE Stage(publisher[p])'
  PROVE  IInv'
<1> USE DEF IInv
<1>1. TypeOK'
  <2>1. \A q \in Publishers :
          /\ publisher'[q].pc \in {"idle", "diff", "withdraw", "removed", "add"}
          /\ publisher'[q].taken \in Snapshots \cup {Empty}
          /\ LocalsFit(publisher'[q])
    BY DEF TypeOK, LocalsFit, PublisherStates
  <2> QED BY <2>1 DEF TypeOK, LocalsFit, DocumentsFit, world
<1>2. Serial'
  <2> SUFFICES ASSUME ~overlapped PROVE
        /\ \A q, r \in Publishers :
             publisher'[q].pc # "idle" /\ publisher'[r].pc # "idle" => q = r
        /\ (\A q \in Publishers : publisher'[q].pc = "idle") =>
             DOMAIN listed' = published' /\ AggregatedGroups' = published'
        /\ \A q \in Publishers : Stage(publisher[q])'
    BY DEF Serial
  <2>1. \A q \in Publishers \ {p} : publisher'[q].pc = "idle"
    BY DEF Serial
  <2>2. \A q \in Publishers \ {p} : Stage(publisher[q])'
    BY <2>1 DEF Stage
  <2>3. publisher'[p].pc = "idle" => Stage(publisher[p])'
    BY DEF Stage
  <2> QED BY <2>1, <2>2, <2>3
<1>3. \A q \in Publishers : Locals(publisher'[q])
  OBVIOUS
<1>4. Witnessed' /\ AnswersAreJustified'
  BY DEF Witnessed, AnswersAreJustified, there, world
<1> QED BY <1>1, <1>2, <1>3, <1>4

\* A publish begins.  If it is the only one, the documents agree.
LEMMA TakePreserves ==
  ASSUME IInv, NEW p \in Publishers, TakeSnapshot(p)
  PROVE  IInv'
<1> USE DEF IInv
<1> DEFINE x == publisher[p]
           y == [x EXCEPT !.pc = "diff", !.taken = snapshot]
<1>1. /\ publisher' = [publisher EXCEPT ![p] = y] /\ x.pc = "idle"
      /\ overlapped' = (overlapped \/ \E q \in Publishers : publisher[q].pc # "idle")
      /\ UNCHANGED <<world, documents, request>>
  BY DEF TakeSnapshot
<1>2. x = Idle /\ x \in PublisherStates /\ snapshot \in Snapshots
  BY <1>1 DEF Locals, TypeOK
<1>3. /\ y \in PublisherStates /\ y.pc = "diff" /\ y.taken = snapshot
      /\ y.gone = {} /\ y.left = {} /\ y.versions = {}
  <2>1. x.gone = {} /\ x.left = {} /\ x.versions = {}
    BY <1>2 DEF Idle
  <2> QED BY <1>2, <2>1 DEF PublisherStates
<1> HIDE DEF y, x
<1>4. /\ publisher' \in [Publishers -> PublisherStates] /\ publisher'[p] = y
      /\ \A q \in Publishers \ {p} : publisher'[q] = publisher[q]
  BY <1>1, <1>3
<1>5. \A q \in Publishers : Locals(publisher'[q])
  BY <1>3, <1>4 DEF Locals
<1>6. overlapped' \in BOOLEAN
  BY <1>1 DEF TypeOK
<1>7. TypeOK'
  <2>1. \A q \in Publishers :
          /\ publisher'[q].pc \in {"idle", "diff", "withdraw", "removed", "add"}
          /\ publisher'[q].taken \in Snapshots \cup {Empty}
          /\ LocalsFit(publisher'[q])
    BY <1>3, <1>4 DEF TypeOK, LocalsFit, PublisherStates
  <2> QED BY <1>1, <1>6, <2>1 DEF TypeOK, LocalsFit, world, documents
<1>8. Serial'
  <2> SUFFICES ASSUME ~overlapped' PROVE
        /\ \A q, r \in Publishers :
             publisher'[q].pc # "idle" /\ publisher'[r].pc # "idle" => q = r
        /\ (\A q \in Publishers : publisher'[q].pc = "idle") =>
             DOMAIN listed' = published' /\ AggregatedGroups' = published'
        /\ \A q \in Publishers : Stage(publisher[q])'
    BY DEF Serial
  <2>1. /\ \A q \in Publishers : publisher[q].pc = "idle"
        /\ DOMAIN listed = published /\ AggregatedGroups = published
    BY <1>1 DEF Serial
  <2>2. \A q \in Publishers \ {p} : publisher'[q].pc = "idle"
    BY <1>4, <2>1
  <2>3. \A q \in Publishers \ {p} : Stage(publisher[q])'
    BY <2>2 DEF Stage
  <2>4. Stage(publisher[p])'
    BY <1>1, <1>3, <1>4, <2>1 DEF Stage, documents, AggregatedGroups
  <2> QED BY <1>3, <1>4, <2>2, <2>3, <2>4
<1>9. Witnessed' /\ AnswersAreJustified'
  BY <1>1 DEF Witnessed, AnswersAreJustified, there, world
<1> QED BY <1>1, <1>4, <1>5, <1>7, <1>8, <1>9

\* Withdrawing what is gone: the difference, then each group from both
\* documents.
LEMMA WithdrawPreserves ==
  ASSUME IInv, NEW p \in Publishers,
         \/ Difference(p) \/ RemoveAggregated(p)
         \/ \E g \in Groups : RemoveGroup(p, g)
  PROVE  IInv'
<1> USE DEF IInv
<1> DEFINE x == publisher[p]
<1>0. /\ x \in PublisherStates /\ Locals(x) /\ LocalsFit(x) /\ DocumentsFit
      /\ \A q \in Publishers : publisher[q] \in PublisherStates
      /\ publisher \in [Publishers -> PublisherStates]
      /\ ~overlapped => Stage(x)
  BY DEF TypeOK, LocalsFit, DocumentsFit, Serial
<1>1. CASE Difference(p)
  <2> DEFINE y == [x EXCEPT !.pc = "withdraw", !.gone = published \ served(x.taken)]
  <2>1. /\ publisher' = [publisher EXCEPT ![p] = y] /\ x.pc = "diff"
        /\ UNCHANGED <<world, documents, overlapped, request>>
    BY <1>1 DEF Difference
  <2>2. /\ y \in PublisherStates /\ y.pc = "withdraw" /\ y.taken = x.taken
        /\ y.gone = published \ served(x.taken)
        /\ y.left = x.left /\ y.versions = x.versions /\ y.group = x.group
    BY <1>0 DEF PublisherStates, DocumentsFit
  <2> HIDE DEF y
  <2>3. /\ publisher' \in [Publishers -> PublisherStates] /\ publisher'[p] = y
        /\ \A q \in Publishers \ {p} : publisher'[q] = publisher[q]
    BY <1>0, <2>1, <2>2
  <2>4. Locals(y) /\ LocalsFit(y)
    BY <1>0, <2>1, <2>2 DEF Locals, LocalsFit
  <2>5. DocumentsFit'
    BY <1>0, <2>1 DEF DocumentsFit, documents
  <2>6. ~overlapped => Stage(publisher[p])'
    BY <1>0, <2>1, <2>2, <2>3 DEF Stage, documents, AggregatedGroups
  <2> QED BY <2>1, <2>2, <2>3, <2>4, <2>5, <2>6, PublishStep
<1>2. ASSUME NEW g \in Groups, RemoveGroup(p, g) PROVE IInv'
  <2> DEFINE y == [x EXCEPT !.pc = "removed", !.group = g]
  <2>1. /\ publisher' = [publisher EXCEPT ![p] = y] /\ x.pc = "withdraw"
        /\ g \in x.gone /\ listed' = Without(listed, {g})
        /\ UNCHANGED <<world, published, aggregated, overlapped, request>>
    BY <1>2 DEF RemoveGroup
  <2>2. /\ y \in PublisherStates /\ y.pc = "removed" /\ y.taken = x.taken
        /\ y.gone = x.gone
        /\ y.left = x.left /\ y.versions = x.versions /\ y.group = g
    BY <1>0 DEF PublisherStates
  <2> HIDE DEF y
  <2>3. /\ publisher' \in [Publishers -> PublisherStates] /\ publisher'[p] = y
        /\ \A q \in Publishers \ {p} : publisher'[q] = publisher[q]
    BY <1>0, <2>1, <2>2
  <2>4. Locals(y) /\ LocalsFit(y)
    BY <1>0, <2>1, <2>2 DEF Locals, LocalsFit
  <2>5. /\ DOMAIN listed' = DOMAIN listed \ {g}
        /\ \A h \in DOMAIN listed' : listed'[h] = listed[h]
    BY <2>1, EntryLeaves
  <2>6. DocumentsFit'
    BY <1>0, <2>1, <2>5 DEF DocumentsFit
  <2>7. ~overlapped => Stage(publisher[p])'
    <3> SUFFICES ASSUME ~overlapped PROVE Stage(publisher[p])'
      OBVIOUS
    <3>1. /\ DOMAIN listed = (published \cap served(x.taken)) \cup x.gone
          /\ AggregatedGroups = (published \cap served(x.taken)) \cup x.gone
          /\ g \notin served(x.taken)
      BY <1>0, <2>1 DEF Stage, LocalsFit
    <3>2. AggregatedGroups' = AggregatedGroups
      BY <2>1 DEF AggregatedGroups
    <3> QED BY <2>1, <2>2, <2>3, <2>5, <3>1, <3>2 DEF Stage
  <2> QED BY <2>1, <2>2, <2>3, <2>4, <2>6, <2>7, PublishStep
<1>3. CASE RemoveAggregated(p)
  <2> DEFINE y == [x EXCEPT !.pc = "withdraw", !.group = None,
                            !.gone = x.gone \ {x.group}]
  <2>1. /\ publisher' = [publisher EXCEPT ![p] = y] /\ x.pc = "removed"
        /\ aggregated' = Without(aggregated, {x.group} \X Versions)
        /\ UNCHANGED <<world, published, listed, overlapped, request>>
    BY <1>3 DEF RemoveAggregated
  <2>2. /\ y \in PublisherStates /\ y.pc = "withdraw" /\ y.taken = x.taken
        /\ y.gone = x.gone \ {x.group}
        /\ y.left = x.left /\ y.versions = x.versions
    BY <1>0 DEF PublisherStates
  <2> HIDE DEF y
  <2>3. /\ publisher' \in [Publishers -> PublisherStates] /\ publisher'[p] = y
        /\ \A q \in Publishers \ {p} : publisher'[q] = publisher[q]
    BY <1>0, <2>1, <2>2
  <2>4. Locals(y) /\ LocalsFit(y)
    BY <1>0, <2>1, <2>2 DEF Locals, LocalsFit
  <2>5. x.group \in x.gone /\ x.group \in Groups
    BY <1>0, <2>1 DEF Locals, PublisherStates
  <2>6. /\ DOMAIN aggregated' \subseteq Groups \X Versions
        /\ AggregatedGroups' = AggregatedGroups \ {x.group}
    BY <1>0, <2>1, <2>5, GroupLeaves DEF DocumentsFit, AggregatedGroups
  <2>7. DocumentsFit'
    BY <1>0, <2>1, <2>6 DEF DocumentsFit
  <2>8. ~overlapped => Stage(publisher[p])'
    <3> SUFFICES ASSUME ~overlapped PROVE Stage(publisher[p])'
      OBVIOUS
    <3>1. /\ DOMAIN listed = (published \cap served(x.taken)) \cup (x.gone \ {x.group})
          /\ AggregatedGroups = (published \cap served(x.taken)) \cup x.gone
          /\ x.group \notin served(x.taken)
      BY <1>0, <2>1, <2>5 DEF Stage, LocalsFit
    <3> QED BY <2>1, <2>2, <2>3, <2>6, <3>1 DEF Stage
  <2> QED BY <2>1, <2>2, <2>3, <2>4, <2>7, <2>8, PublishStep
<1> QED BY <1>1, <1>2, <1>3

\* Adding what is served: published, then each group and its versions.
LEMMA AddPreserves ==
  ASSUME IInv, NEW p \in Publishers,
         \/ Remember(p)
         \/ \E g \in Groups : AddGroup(p, g)
         \/ \E v \in Versions : AddGroupVersion(p, v)
  PROVE  IInv'
<1> USE DEF IInv
<1> DEFINE x == publisher[p]
<1>0. /\ x \in PublisherStates /\ Locals(x) /\ LocalsFit(x) /\ DocumentsFit
      /\ publisher \in [Publishers -> PublisherStates]
      /\ ~overlapped => Stage(x)
  BY DEF TypeOK, LocalsFit, DocumentsFit, Serial
<1>a. /\ x.taken \in Snapshots \cup {Empty} /\ served(x.taken) \subseteq Groups
  BY <1>0, SnapshotParts DEF PublisherStates
<1>b. /\ Idle \in PublisherStates /\ Idle.pc = "idle"
      /\ Locals(Idle) /\ LocalsFit(Idle)
  BY DEF Idle, PublisherStates, Locals, LocalsFit
<1>1. CASE Remember(p)
  <2> DEFINE z == [x EXCEPT !.left = served(x.taken)]
             y == adding(z)
  <2>1. /\ publisher' = [publisher EXCEPT ![p] = y]
        /\ x.pc = "withdraw" /\ x.gone = {}
        /\ published' = served(x.taken)
        /\ UNCHANGED <<world, listed, aggregated, overlapped, request>>
    BY <1>1 DEF Remember
  <2>2. /\ z \in PublisherStates /\ z.taken = x.taken /\ z.gone = x.gone
        /\ z.left = served(x.taken) /\ z.versions = x.versions
        /\ z.group = x.group
    BY <1>0, <1>a DEF PublisherStates
  <2>3. x.versions = {} /\ x.left = {}
    BY <1>0, <2>1 DEF Locals
  <2> HIDE DEF z
  <2>4. CASE served(x.taken) = {}
    <3>1. y = Idle
      BY <2>2, <2>3, <2>4 DEF adding
    <3> HIDE DEF y
    <3>2. /\ publisher' \in [Publishers -> PublisherStates] /\ publisher'[p] = Idle
          /\ \A q \in Publishers \ {p} : publisher'[q] = publisher[q]
      BY <1>0, <1>b, <2>1, <3>1
    <3>3. DocumentsFit'
      BY <1>0, <2>1, <2>4 DEF DocumentsFit
    <3>4. ~overlapped => DOMAIN listed' = published' /\ AggregatedGroups' = published'
      BY <1>0, <2>1, <2>4 DEF Stage, AggregatedGroups
    <3> QED BY <1>b, <2>1, <3>2, <3>3, <3>4, PublishStep
  <2>5. CASE served(x.taken) # {}
    <3>1. y = [z EXCEPT !.pc = "add"]
      BY <2>2, <2>5 DEF adding
    <3>2. /\ y \in PublisherStates /\ y.pc = "add" /\ y.taken = x.taken
          /\ y.gone = {} /\ y.left = served(x.taken) /\ y.versions = {}
      BY <2>1, <2>2, <2>3, <3>1 DEF PublisherStates
    <3> HIDE DEF y
    <3>3. /\ publisher' \in [Publishers -> PublisherStates] /\ publisher'[p] = y
          /\ \A q \in Publishers \ {p} : publisher'[q] = publisher[q]
      BY <1>0, <2>1, <3>2
    <3>4. Locals(y) /\ LocalsFit(y)
      BY <3>2 DEF Locals, LocalsFit
    <3>5. DocumentsFit'
      BY <1>0, <1>a, <2>1 DEF DocumentsFit
    <3>6. ~overlapped => Stage(publisher[p])'
      BY <1>0, <2>1, <3>2, <3>3 DEF Stage, AggregatedGroups
    <3> QED BY <2>1, <3>2, <3>3, <3>4, <3>5, <3>6, PublishStep
  <2> QED BY <2>4, <2>5
<1>2. ASSUME NEW g \in Groups, AddGroup(p, g) PROVE IInv'
  <2> DEFINE vs == versionsOf(x.taken, g)
             y == [x EXCEPT !.group = g, !.left = x.left \ {g}, !.versions = vs]
  <2>1. /\ publisher' = [publisher EXCEPT ![p] = y]
        /\ x.pc = "add" /\ x.versions = {} /\ g \in x.left
        /\ listed' = With(listed, g, vs)
        /\ UNCHANGED <<world, published, aggregated, overlapped, request>>
    BY <1>2 DEF AddGroup
  <2>2. g \in served(x.taken) /\ vs # {} /\ vs \subseteq Versions
    BY <1>0, <1>a, <2>1, SnapshotParts DEF LocalsFit
  <2> HIDE DEF vs
  <2>3. /\ y \in PublisherStates /\ y.pc = "add" /\ y.taken = x.taken
        /\ y.gone = x.gone /\ y.left = x.left \ {g} /\ y.versions = vs
        /\ y.group = g
    BY <1>0, <2>1, <2>2 DEF PublisherStates
  <2> HIDE DEF y
  <2>4. /\ publisher' \in [Publishers -> PublisherStates] /\ publisher'[p] = y
        /\ \A q \in Publishers \ {p} : publisher'[q] = publisher[q]
    BY <1>0, <2>1, <2>3
  <2>5. Locals(y) /\ LocalsFit(y)
    BY <1>0, <2>1, <2>3 DEF Locals, LocalsFit, vs
  <2>6. /\ DOMAIN listed' = DOMAIN listed \cup {g} /\ listed'[g] = vs
        /\ \A h \in DOMAIN listed \ {g} : listed'[h] = listed[h]
    <3>1. listed' = With(listed, g, vs)
      BY <2>1
    <3> HIDE DEF vs
    <3>2. /\ DOMAIN With(listed, g, vs) = DOMAIN listed \cup {g}
          /\ With(listed, g, vs)[g] = vs
          /\ \A h \in DOMAIN listed \ {g} : With(listed, g, vs)[h] = listed[h]
      BY DEF With
    <3> QED BY <3>1, <3>2
  <2>7. DocumentsFit'
    <3>1. published' \in SUBSET Groups /\ DOMAIN aggregated' \subseteq Groups \X Versions
      BY <1>0, <2>1 DEF DocumentsFit
    <3>2. DOMAIN listed' \subseteq Groups
      BY <1>0, <2>6 DEF DocumentsFit
    <3>3. ASSUME NEW h \in DOMAIN listed' PROVE listed'[h] \in (SUBSET Versions) \ {{}}
      <4>1. CASE h = g
        BY <2>2, <2>6, <4>1
      <4>2. CASE h # g
        BY <1>0, <2>6, <4>2 DEF DocumentsFit
      <4> QED BY <4>1, <4>2
    <3> QED BY <3>1, <3>2, <3>3 DEF DocumentsFit
  <2>8. ~overlapped => Stage(publisher[p])'
    <3> SUFFICES ASSUME ~overlapped PROVE Stage(publisher[p])'
      OBVIOUS
    <3>1. /\ published = served(x.taken)
          /\ DOMAIN listed \subseteq published /\ AggregatedGroups \subseteq published
          /\ \A h \in published \ x.left :
               h \in DOMAIN listed /\ h \in AggregatedGroups
      BY <1>0, <2>1 DEF Stage
    <3>2. AggregatedGroups' = AggregatedGroups
      BY <2>1 DEF AggregatedGroups
    <3> QED BY <2>1, <2>2, <2>3, <2>4, <2>6, <3>1, <3>2 DEF Stage
  <2> QED BY <2>1, <2>3, <2>4, <2>5, <2>7, <2>8, PublishStep
<1>3. ASSUME NEW v \in Versions, AddGroupVersion(p, v) PROVE IInv'
  <2> DEFINE z == [x EXCEPT !.versions = x.versions \ {v}]
             y == adding(z)
             document == aggregatedVersion(<<x.group, v>>, x.taken[<<x.group, v>>])
  <2>1. /\ publisher' = [publisher EXCEPT ![p] = y]
        /\ x.pc = "add" /\ v \in x.versions
        /\ aggregated' = With(aggregated, <<x.group, v>>, document)
        /\ UNCHANGED <<world, published, listed, overlapped, request>>
    BY <1>3 DEF AddGroupVersion
  <2>2. x.group \in served(x.taken) /\ x.group \in Groups
    BY <1>0, <1>a, <2>1, SnapshotParts DEF LocalsFit
  <2> HIDE DEF document
  <2>3. /\ DOMAIN aggregated' \subseteq Groups \X Versions
        /\ AggregatedGroups' = AggregatedGroups \cup {x.group}
    BY <1>0, <2>1, <2>2, GroupEnters DEF DocumentsFit, AggregatedGroups
  <2>4. DocumentsFit'
    BY <1>0, <2>1, <2>3 DEF DocumentsFit
  <2>5. /\ z \in PublisherStates /\ z.taken = x.taken /\ z.gone = x.gone
        /\ z.left = x.left /\ z.versions = x.versions \ {v}
        /\ z.group = x.group
    BY <1>0 DEF PublisherStates
  <2>6. x.gone = {}
    BY <1>0, <2>1 DEF Locals
  <2> HIDE DEF z
  <2>7. ~overlapped =>
          /\ published = served(x.taken)
          /\ DOMAIN listed \subseteq published /\ AggregatedGroups' \subseteq published
          /\ \A h \in published \ x.left :
               h \in DOMAIN listed /\ h \in AggregatedGroups'
    BY <1>0, <2>1, <2>2, <2>3 DEF Stage
  <2>8. CASE z.left = {} /\ z.versions = {}
    <3>1. y = Idle
      BY <2>8 DEF adding
    <3> HIDE DEF y
    <3>2. /\ publisher' \in [Publishers -> PublisherStates] /\ publisher'[p] = Idle
          /\ \A q \in Publishers \ {p} : publisher'[q] = publisher[q]
      BY <1>0, <1>b, <2>1, <3>1
    <3>3. ~overlapped => DOMAIN listed' = published' /\ AggregatedGroups' = published'
      BY <2>1, <2>5, <2>7, <2>8
    <3> QED BY <1>b, <2>1, <2>4, <3>2, <3>3, PublishStep
  <2>9. CASE ~(z.left = {} /\ z.versions = {})
    <3>1. y = [z EXCEPT !.pc = "add"]
      BY <2>9 DEF adding
    <3>2. /\ y \in PublisherStates /\ y.pc = "add" /\ y.taken = x.taken
          /\ y.gone = {} /\ y.left = x.left /\ y.versions = x.versions \ {v}
          /\ y.group = x.group
      BY <2>5, <2>6, <3>1 DEF PublisherStates
    <3> HIDE DEF y
    <3>3. /\ publisher' \in [Publishers -> PublisherStates] /\ publisher'[p] = y
          /\ \A q \in Publishers \ {p} : publisher'[q] = publisher[q]
      BY <1>0, <2>1, <3>2
    <3>4. Locals(y) /\ LocalsFit(y)
      BY <1>0, <3>2 DEF Locals, LocalsFit
    <3>5. ~overlapped => Stage(publisher[p])'
      BY <2>1, <2>7, <3>2, <3>3 DEF Stage
    <3> QED BY <2>1, <2>4, <3>2, <3>3, <3>4, <3>5, PublishStep
  <2> QED BY <2>8, <2>9
<1> QED BY <1>1, <1>2, <1>3

-----------------------------------------------------------------------------
(* Changes, and the requests that live through them *)

\* What is found in a snapshot is of a group that it serves.
LEMMA FoundIsServed ==
  ASSUME NEW s \in Snapshots, NEW ask \in Asks, found(ask, s)
  PROVE  ask.group \in served(s)
  BY SnapshotParts, DiscoveryAssumption DEF found, Requests

\* The router's state changes; the request's history takes note.
LEMMA ChangePreserves ==
  ASSUME IInv, NEW s \in Snapshots, NEW o \in Ownerships, becomes(s, o),
         s = snapshot \/ served(s) \subseteq o
  PROVE  IInv'
<1> USE DiscoveryAssumption DEF IInv
<1>1. /\ snapshot' = s /\ owned' = o
      /\ changes' \in 0..MaxChanges
      /\ UNCHANGED <<documents, publisher, overlapped>>
  BY DEF becomes, TypeOK
<1> DEFINE is == there(request.ask, s, o)
           asked == [request EXCEPT !.present = request.present \/ is,
                                    !.absent = request.absent \/ ~is]
<1>2. request' = IF request.pc = "answered" THEN request ELSE asked
  BY Zenon DEF becomes
<1>3. is \in BOOLEAN
  BY DEF there
<1> HIDE DEF is
<1>4. /\ asked \in RequestStates /\ asked.pc = request.pc /\ asked.ask = request.ask
      /\ asked.answer = request.answer
      /\ asked.present = (request.present \/ is)
      /\ asked.absent = (request.absent \/ ~is)
  BY <1>3 DEF RequestStates
<1> HIDE DEF asked
<1>5. /\ request' \in RequestStates /\ request'.pc = request.pc
      /\ request'.ask = request.ask /\ request'.answer = request.answer
      /\ request.present => request'.present
      /\ request.absent => request'.absent
      /\ request.pc # "answered" => (is => request'.present) /\ (~is => request'.absent)
  BY <1>2, <1>3, <1>4
<1>6. TypeOK'
  BY <1>1, <1>5 DEF TypeOK, documents
<1>7. Serial'
  BY <1>1 DEF Serial, Stage, documents, AggregatedGroups
<1>8. there(request.ask, snapshot, owned)' = is
  BY <1>1, <1>5 DEF there, is
<1>9. request.pc # "answered" /\ found(request.ask, s) /\ s # snapshot => is
  BY FoundIsServed DEF is, there, Witnessed
<1>10. found(request.ask, snapshot)' = found(request.ask, s)
  BY <1>1, <1>5 DEF found
<1>11. Witnessed' /\ AnswersAreJustified'
  BY <1>5, <1>8, <1>9, <1>10 DEF Witnessed, AnswersAreJustified
<1> QED BY <1>1, <1>5, <1>6, <1>7, <1>11

\* A step of a request: what is to be shown of it.
LEMMA RequestStep ==
  ASSUME IInv, UNCHANGED <<world, documents, publisher, overlapped>>,
         request' \in RequestStates, Witnessed', AnswersAreJustified',
         request'.ask \in Asks \/ request'.pc = "answered"
  PROVE  IInv'
<1> USE DEF IInv
<1>1. TypeOK'
  BY DEF TypeOK, world, documents, RequestStates
<1>2. Serial'
  BY DEF Serial, Stage, documents, AggregatedGroups
<1> QED BY <1>1, <1>2

\* A request begins knowing whether what it asks for is there.
LEMMA AskPreserves ==
  ASSUME IInv, NEW ask \in Asks, Ask(ask)
  PROVE  IInv'
<1> USE DEF IInv
<1> DEFINE is == there(ask, snapshot, owned)
           asked == [NoRequest EXCEPT !.pc = "owns", !.ask = ask,
                                      !.present = is, !.absent = ~is]
<1>1. request' = asked /\ UNCHANGED <<world, documents, publisher, overlapped>>
  BY Zenon DEF Ask
<1>2. is \in BOOLEAN
  BY DEF there
<1> HIDE DEF is
<1>3. /\ asked \in RequestStates /\ asked.pc = "owns" /\ asked.ask = ask
      /\ asked.answer = None /\ asked.present = is /\ asked.absent = ~is
  BY <1>2 DEF RequestStates, NoRequest
<1> HIDE DEF asked
<1>4. there(request.ask, snapshot, owned)' = is
  BY <1>1, <1>3 DEF there, is, world
<1>5. Witnessed' /\ AnswersAreJustified'
  BY <1>1, <1>2, <1>3, <1>4 DEF Witnessed, AnswersAreJustified
<1> QED BY <1>1, <1>3, <1>5, RequestStep

\* A request that moves on without an answer keeps its history.
LEMMA RequestMovesOn ==
  ASSUME IInv, UNCHANGED <<world, documents, publisher, overlapped>>,
         NEW pc \in {"resources", "proxy"}, request.pc # "answered",
         request' = [request EXCEPT !.pc = pc],
         pc = "proxy" => request.present /\ request.ask.kind = "resource",
         pc = "resources" => request.ask.group \in owned
  PROVE  IInv'
<1> USE DEF IInv
<1>1. /\ request' \in RequestStates /\ request'.pc = pc /\ request'.ask = request.ask
      /\ request'.answer = request.answer /\ request'.present = request.present
      /\ request'.absent = request.absent
  BY DEF RequestStates
<1>2. /\ request.ask \in Asks /\ request.answer = None
      /\ there(request.ask, snapshot, owned) => request.present
      /\ ~there(request.ask, snapshot, owned) => request.absent
  BY DEF Witnessed
<1>3. there(request.ask, snapshot, owned)' = there(request.ask, snapshot, owned)
  BY <1>1 DEF there, world
<1>4. pc = "resources" /\ found(request.ask, snapshot)' => request.present
  BY <1>1, <1>2 DEF there, found, world
<1>5. Witnessed' /\ AnswersAreJustified'
  BY <1>1, <1>2, <1>3, <1>4 DEF Witnessed, AnswersAreJustified
<1> QED BY <1>1, <1>2, <1>5, RequestStep

\* An answer that the history bears out.
LEMMA RequestIsAnswered ==
  ASSUME IInv, UNCHANGED <<world, documents, publisher, overlapped>>,
         NEW answer \in {"notFound", "notImplemented", "group", "resources",
                         "forwarded"},
         answering(answer),
         answer \in {"notFound", "notImplemented"} => request.absent,
         answer # "notFound" => request.present
  PROVE  IInv'
<1> USE DEF IInv
<1>1. /\ request' \in RequestStates /\ request'.pc = "answered"
      /\ request'.answer = answer /\ request'.present = request.present
      /\ request'.absent = request.absent
  BY DEF RequestStates, answering
<1>2. Witnessed' /\ AnswersAreJustified'
  BY <1>1 DEF Witnessed, AnswersAreJustified
<1> QED BY <1>1, <1>2, RequestStep

\* Each look at the router decides by what it finds at that moment: what it
\* misses is not there, and what it finds served was owned too, when the view
\* was merged or when the group was looked up.
LEMMA ServePreserves ==
  ASSUME IInv, serve
  PROVE  IInv'
<1> USE DEF IInv
<1> DEFINE ask == request.ask
           is == there(ask, snapshot, owned)
           has == found(ask, snapshot)
<1>0. UNCHANGED <<world, documents, publisher, overlapped>> /\ request.pc # "answered"
  BY DEF serve, Owns, ServeGroup, ServeUnderGroup, Forward
<1>1. /\ ask \in Asks /\ ask \in Requests
      /\ is => request.present
      /\ ~is => request.absent
  BY <1>0, DiscoveryAssumption DEF Witnessed
<1>2. /\ snapshot \in Snapshots \cup {Empty}
      /\ ask.kind \in {"group", "version", "resource"}
      /\ ask.group \in Groups /\ ask.version \in Versions
  BY <1>1 DEF TypeOK, Requests
<1>3. <<ask.group, ask.version>> \in DOMAIN snapshot => ask.group \in served(snapshot)
  BY <1>2, SnapshotParts
<1>4. /\ ask.group \notin owned => ~is
      /\ ~has => ~is
      /\ request.pc \in {"resources", "proxy"} /\ has => request.present
      /\ ask.kind = "group" => (has <=> ask.group \in served(snapshot))
      /\ ask.kind # "group" => (has <=> <<ask.group, ask.version>> \in DOMAIN snapshot)
  BY <1>2 DEF there, found, Witnessed
<1>5. CASE Owns
  <2>1. CASE ask.group \in owned
    BY <1>0, <1>5, <2>1, RequestMovesOn DEF Owns
  <2>2. CASE ask.group \notin owned
    BY <1>0, <1>1, <1>4, <1>5, <2>2, RequestIsAnswered DEF Owns
  <2> QED BY <2>1, <2>2
<1>6. CASE ServeGroup
  <2>1. CASE ask.group \in served(snapshot)
    BY <1>0, <1>1, <1>4, <1>6, <2>1, RequestIsAnswered DEF ServeGroup
  <2>2. CASE ask.group \notin served(snapshot)
    BY <1>0, <1>1, <1>4, <1>6, <2>2, RequestIsAnswered DEF ServeGroup
  <2> QED BY <2>1, <2>2
<1>7. CASE ServeUnderGroup
  <2>1. CASE <<ask.group, ask.version>> \notin DOMAIN snapshot
    BY <1>0, <1>1, <1>4, <1>7, <2>1, RequestIsAnswered DEF ServeUnderGroup
  <2>2. CASE <<ask.group, ask.version>> \in DOMAIN snapshot /\ ask.kind = "version"
    BY <1>0, <1>1, <1>4, <1>7, <2>2, RequestIsAnswered DEF ServeUnderGroup
  <2>3. CASE <<ask.group, ask.version>> \in DOMAIN snapshot /\ ask.kind # "version"
    <3>1. ask.kind = "resource" /\ request.present
      BY <1>2, <1>4, <1>7, <2>3 DEF ServeUnderGroup
    <3> QED BY <1>0, <1>1, <1>7, <2>3, <3>1, RequestMovesOn DEF ServeUnderGroup
  <2> QED BY <2>1, <2>2, <2>3
<1>8. CASE Forward
  <2>1. request.present /\ ask.kind = "resource"
    BY <1>8 DEF Forward, Witnessed
  <2>2. CASE ask.group \in served(snapshot)
    BY <1>0, <1>8, <2>1, <2>2, RequestIsAnswered DEF Forward
  <2>3. CASE ask.group \notin served(snapshot)
    <3>1. ~is
      BY <1>3, <1>4, <2>1, <2>3
    <3> QED BY <1>0, <1>1, <1>8, <2>1, <2>3, <3>1, RequestIsAnswered DEF Forward
  <2> QED BY <2>2, <2>3
<1> QED BY <1>5, <1>6, <1>7, <1>8 DEF serve

-----------------------------------------------------------------------------
\* Every step preserves the invariant.
LEMMA NextInvariant == IInv /\ [Next]_vars => IInv'
<1> SUFFICES ASSUME IInv, [Next]_vars PROVE IInv'
  OBVIOUS
<1>0. ASSUME NEW o \in Ownerships, Replace(o) PROVE IInv'
  BY <1>0, ChangePreserves DEF Replace, IInv, TypeOK
<1>1. ASSUME NEW s \in Snapshots, Merge(s) PROVE IInv'
  BY <1>1, ChangePreserves DEF Merge, IInv, TypeOK
<1>2. ASSUME NEW p \in Publishers, publish(p) PROVE IInv'
  <2>1. CASE TakeSnapshot(p)
    BY <2>1, TakePreserves
  <2>2. CASE \/ Difference(p) \/ RemoveAggregated(p)
             \/ \E g \in Groups : RemoveGroup(p, g)
    BY <2>2, WithdrawPreserves
  <2>3. CASE \/ Remember(p) \/ \E g \in Groups : AddGroup(p, g)
             \/ \E v \in Versions : AddGroupVersion(p, v)
    BY <2>3, AddPreserves
  <2> QED BY <1>2, <2>1, <2>2, <2>3 DEF publish
<1>3. ASSUME NEW ask \in Asks, Ask(ask) PROVE IInv'
  BY <1>3, AskPreserves
<1>4. CASE serve
  BY <1>4, ServePreserves
<1>5. CASE UNCHANGED vars
  <2>1. /\ UNCHANGED <<world, documents, publisher, overlapped>>
        /\ request' = request
    BY <1>5 DEF vars
  <2>2. Witnessed' /\ AnswersAreJustified'
    BY <2>1 DEF IInv, Witnessed, AnswersAreJustified, there, found, world
  <2>3. /\ request' \in RequestStates
        /\ request'.ask \in Asks \/ request'.pc = "answered"
    BY <2>1 DEF IInv, TypeOK
  <2> QED BY <2>1, <2>2, <2>3, RequestStep
<1> QED BY <1>0, <1>1, <1>2, <1>3, <1>4, <1>5 DEF Next

\* The inductive invariant, for any number of publishers.
THEOREM Invariance == Spec => []IInv
  BY InitInvariant, NextInvariant, PTL DEF Spec

\* The documents, the publishers and the request are well formed; a publisher
\* never withdraws what it is about to add (discovery.go:182-231).
THEOREM TypeCorrect == Spec => []TypeOK
<1>1. IInv => TypeOK
  BY DEF IInv
<1> QED BY <1>1, Invariance, PTL

\* discovery.go:188: publishes that never overlapped leave, once done, exactly
\* the published groups in /apis and in aggregated discovery.
THEOREM SerialPublishWithdrawsHolds == Spec => []SerialPublishWithdraws
<1>1. IInv => SerialPublishWithdraws
  BY DEF IInv, Serial, SerialPublishWithdraws, AggregatedGroups
<1> QED BY <1>1, Invariance, PTL

\* discovery.go:91-155: no answer contradicts every moment of its request.
THEOREM AnswersAreJustifiedHolds == Spec => []AnswersAreJustified
<1>1. IInv => AnswersAreJustified
  BY DEF IInv
<1> QED BY <1>1, Invariance, PTL
=============================================================================
