--------------------------- MODULE WritePathProofs ---------------------------
(***************************************************************************)
(* For any number of writers, any mix of requests and any configuration of *)
(* the cluster: a remembered namespace that is gone is forgotten in time,  *)
(* a patch overwrites nothing that was stored after it was read, an object *)
(* that arrives whole is stored as it was admitted, and a create, an       *)
(* update and a delete of one object pass every webhook for them.          *)
(*                                                                         *)
(* A resourceVersion is never given out twice.  So what a patch has read   *)
(* under a version is what kcp holds as long as it holds that version, and *)
(* a version that has been overtaken never comes back: this is Resolved.   *)
(* Passed says on what grounds a write that waits for its namespace got    *)
(* past admission, and Remembered when those who believe that the          *)
(* namespace exists have seen it.                                          *)
(***************************************************************************)
EXTENDS WritePath, TLAPS

Fields == {"pc", "shape", "began", "value", "version", "old", "base",
           "admitted", "seen"}
Objects == [version : Nat, includes : SUBSET (Writers \cup {Other}),
            marked : BOOLEAN]
Forms == [method : {"POST", "PUT", "PATCH", "DELETE", "DELETECOLLECTION",
                    "replacement"},
          body : {"json", "other", "broken", "oversized"},
          owner : {"none", "inside", "outside"},
          sub : STRING, canonical : BOOLEAN, apply : BOOLEAN]

\* What TypeOK leaves open of a request, and where which requests may be.
Formed(w) ==
  /\ DOMAIN write[w] = Fields
  /\ write[w].pc = "idle" => write[w] = NoWrite
  /\ write[w].began \in Nat /\ write[w].began <= now
  /\ write[w].version \in 0..latest
  /\ write[w].old \in 0..latest
  /\ write[w].base \in 0..latest
  /\ write[w].pc \in InFlight => write[w].shape \in Forms /\ write[w].value \in Values
  /\ write[w].pc \in {"old", "dryrun", "admit"} =>
       write[w].admitted = None /\ shape(w).method # "replacement"
  /\ write[w].pc = "old" => shape(w).method # "POST"
  /\ write[w].pc = "dryrun" => shape(w).method = "PATCH"
  /\ write[w].pc = "admit" /\ shape(w).method = "POST" => write[w].old = 0
  /\ write[w].pc = "forward" => deletes(w)
  /\ write[w].pc = "ensure" => ~deletes(w)
  /\ write[w].pc \in {"old", "dryrun", "admit"} =>
       shape(w).method # "DELETECOLLECTION"

\* A dry run's result is the patched object of the version it was made on, and
\* a replacement includes all that the version it replaces does.
Resolved(w) ==
  /\ /\ write[w].pc = "admit" \/ (write[w].pc = "ensure" /\ write[w].admitted # None)
     /\ shape(w).method = "PATCH"
     => /\ write[w].base = 0 => write[w].value = patched(w, Missing)
        /\ object.version # 0 /\ object.version = write[w].base =>
             write[w].value = patched(w, object)
        /\ /\ write[w].pc = "admit"
           /\ object.version # 0 /\ object.version = write[w].old
           => write[w].base = write[w].old
  /\ /\ write[w].pc = "ensure" /\ shape(w).method = "replacement"
     /\ object.version # 0 /\ object.version = write[w].version
     => object.includes \subseteq write[w].value.includes

\* A write past admission is what was admitted, unless there was no object to
\* admit; one of a single object has been seen as what it is, if it matters.
Passed(w) ==
  /\ write[w].pc = "ensure" =>
       /\ IF write[w].admitted # None THEN write[w].admitted = write[w].value
          ELSE ~decodes(shape(w)) /\ shape(w).method # "replacement"
       /\ shape(w).method \in {"POST", "PUT"} =>
            write[w].seen = operationFor(shape(w))
  /\ write[w].pc = "forward" /\ shape(w).method = "DELETE" =>
       \/ write[w].seen = "DELETE"
       \/ ~called(cluster, GVR, shape(w).sub, "DELETE")

\* Who believes in a namespace that is gone saw it before it was deleted, or
\* has been told by a request that began before.
Remembered ==
  /\ known # Never => known <= now
  /\ deletedAt # Never => deletedAt <= now
  /\ ~present =>
       /\ known # Never => /\ deletedAt # Never
                           /\ known <= deletedAt + RequestTimeout
       /\ \A w \in Writers : ensuring[w] = "confirmed" =>
            deletedAt # Never /\ write[w].began <= deletedAt

Sound(w) == Formed(w) /\ Resolved(w) /\ Passed(w)

IInv ==
  /\ TypeOK
  /\ latest \in Nat /\ object \in Objects
  /\ DOMAIN write = Writers
  /\ \A w \in Writers : Sound(w)
  /\ Remembered

-----------------------------------------------------------------------------
\* The constants as the arithmetic below needs them.
LEMMA Bounds ==
  /\ TTL \in Nat /\ RequestTimeout \in Nat /\ 1 <= TTL
  /\ MaxTime \in Nat /\ MaxDeletions \in Nat
  /\ MaxOthers \in Nat /\ MaxFailures \in Nat
  /\ None \notin Values /\ Never \notin Nat
  /\ Shapes \subseteq Forms
<1>1. Shapes \subseteq Forms
  BY WritePathAssumption DEF Forms
<1>2. /\ TTL \in Nat \ {0} /\ RequestTimeout \in Nat \ {0}
      /\ {MaxTime, MaxDeletions, MaxOthers, MaxFailures} \subseteq Nat
      /\ None \notin Values /\ Never \notin Nat
  BY WritePathAssumption
<1> QED BY <1>1, <1>2

\* What go does to a request: the fields that are named change.
LEMMA Go ==
  ASSUME NEW w \in Writers, NEW fields, go(w, fields),
         DOMAIN write = Writers, DOMAIN write[w] = Fields
  PROVE  /\ DOMAIN write' = Writers
         /\ DOMAIN write'[w] = Fields
         /\ \A f \in Fields :
              write'[w][f] = IF f \in DOMAIN fields THEN fields[f] ELSE write[w][f]
         /\ \A v \in Writers \ {w} : write'[v] = write[v]
  BY DEF go

\* What end leaves of a request.
LEMMA Ended ==
  ASSUME NEW w \in Writers, end(w), DOMAIN write = Writers
  PROVE  /\ DOMAIN write' = Writers
         /\ DOMAIN write'[w] = Fields
         /\ write'[w].pc = "over" /\ write'[w].began = 0
         /\ write'[w].version = 0 /\ write'[w].old = 0 /\ write'[w].base = 0
         /\ \A v \in Writers \ {w} : write'[v] = write[v]
  BY DEF end, NoWrite, Fields

\* Nothing is there, or an object of this version.
LEMMA InitInvariant == Init => IInv
<1> SUFFICES ASSUME Init PROVE IInv
  OBVIOUS
<1> USE Bounds DEF Init, MirrorInit
<1>1. /\ \A w \in Writers : write[w] = NoWrite
      /\ DOMAIN write = Writers
  OBVIOUS
<1>2. \A w \in Writers : ensuring[w] = "no"
  OBVIOUS
<1>3. DOMAIN NoWrite = Fields /\ NoWrite.pc = "idle" /\ NoWrite.began = 0
      /\ NoWrite.version = 0 /\ NoWrite.old = 0 /\ NoWrite.base = 0
  BY DEF NoWrite, Fields
<1>4. Missing \in Objects /\ Missing.version = 0
      /\ [Missing EXCEPT !.version = 1] \in Objects
      /\ [Missing EXCEPT !.version = 1].version = 1
  BY DEF Missing, Objects
<1>5. object \in Objects /\ latest \in Nat /\ latest = 1
      /\ ((object = Missing /\ object.version = 0) \/ (object.version = 1 /\ present))
  <2> DEFINE first == [Missing EXCEPT !.version = 1]
  <2>1. object = Missing \/ (present /\ object = first)
    BY Zenon
  <2>2. first \in Objects /\ first.version = 1
    BY <1>4
  <2> HIDE DEF first
  <2> QED BY <1>4, <2>1, <2>2
<1>6. TypeOK
  <2>1. MirrorTypeOK
    BY DEF MirrorTypeOK
  <2>2. \A w \in Writers : write[w].pc = "idle"
    BY <1>1, <1>3
  <2>3. /\ object.version \in 0..latest
        /\ object.version = 0 <=> object = Missing
        /\ object.version > 0 => present
    BY <1>4, <1>5
  <2> QED BY <2>1, <2>2, <2>3, <1>2 DEF TypeOK, InFlight
<1>7. \A w \in Writers : Sound(w)
  <2> SUFFICES ASSUME NEW w \in Writers PROVE Sound(w)
    OBVIOUS
  <2>1. Formed(w)
    BY <1>1, <1>3, <1>5 DEF Formed, InFlight
  <2>2. Resolved(w) /\ Passed(w)
    BY <1>1, <1>3 DEF Resolved, Passed
  <2> QED BY <2>1, <2>2 DEF Sound
<1>8. Remembered
  BY <1>2 DEF Remembered
<1> QED BY <1>1, <1>5, <1>6, <1>7, <1>8 DEF IInv

\* What kcp may do in one step: nothing, lose the object, or give out the next
\* version of it.
KcpMoves ==
  \/ UNCHANGED kcp
  \/ object' = Missing /\ latest' = latest
  \/ object' \in Objects /\ object'.version = latest + 1 /\ latest' = latest + 1

\* A writer that does not move keeps its part of the invariant, whatever
\* happens to the object: versions only grow.
LEMMA BystanderStays ==
  ASSUME NEW v \in Writers, Sound(v), latest \in Nat, now \in Nat, now' \in Nat,
         now <= now', write'[v] = write[v], cluster' = cluster, KcpMoves
  PROVE  Sound(v)'
<1>1. latest' \in Nat /\ latest <= latest'
  BY DEF KcpMoves, kcp
<1>2. Formed(v)'
  BY <1>1 DEF Sound, Formed, shape, deletes
<1>3. Missing.version = 0
  BY DEF Missing
<1>4. Resolved(v)'
  <2>1. CASE UNCHANGED kcp
    BY <2>1 DEF kcp, Sound, Resolved, shape, patched, valueOf, Missing
  <2>2. CASE object' = Missing
    BY <2>2, <1>3 DEF Sound, Resolved, shape, patched, valueOf, Missing
  <2>3. CASE object'.version = latest + 1
    <3>1. /\ object'.version # write[v].base
          /\ object'.version # write[v].old
          /\ object'.version # write[v].version
      BY <2>3 DEF Sound, Formed
    <3> QED BY <3>1 DEF Sound, Resolved, shape, patched, valueOf, Missing
  <2> QED BY <2>1, <2>2, <2>3 DEF KcpMoves
<1>5. Passed(v)'
  BY DEF Sound, Passed, shape
<1> QED BY <1>2, <1>4, <1>5 DEF Sound

\* A step of ServeHTTP between the request and the namespace.
LEMMA GoPreserves ==
  ASSUME IInv, NEW w \in Writers, UNCHANGED <<cluster, kcp, others, mirror>>,
         failures' \in 0..MaxFailures,
         DOMAIN write' = Writers,
         \A v \in Writers \ {w} : write'[v] = write[v],
         write[w].pc # "ensure", write'[w].pc \in InFlight,
         \/ write'[w].began = now
         \/ write'[w].began = write[w].began /\ write[w].pc \in InFlight,
         Sound(w)'
  PROVE  IInv'
<1> USE Bounds DEF IInv, kcp, mirror
<1>1. now \in Nat /\ ensuring[w] = "no"
  BY DEF TypeOK, MirrorTypeOK
<1>2. MirrorTypeOK'
  BY DEF TypeOK, MirrorTypeOK
<1>3. \A v \in Writers :
        /\ write'[v].pc \in InFlight \cup {"idle", "over"}
        /\ write'[v].pc \in InFlight => now' - write'[v].began <= RequestTimeout
        /\ ensuring'[v] # "no" => write'[v].pc = "ensure"
  BY <1>1 DEF TypeOK
<1>4. TypeOK'
  BY <1>2, <1>3 DEF TypeOK
<1>5. \A v \in Writers \ {w} : Sound(v)'
  BY <1>1, BystanderStays DEF KcpMoves
<1>6. Remembered'
  BY <1>1 DEF Remembered
<1> QED BY <1>4, <1>5, <1>6

\* The end of a request, with what kcp made of it.
LEMMA EndPreserves ==
  ASSUME IInv, NEW w \in Writers, end(w), UNCHANGED <<cluster, others, failures>>,
         KcpMoves, object' # Missing => present
  PROVE  IInv'
<1> USE Bounds DEF IInv
<1>1. /\ DOMAIN write' = Writers
      /\ DOMAIN write'[w] = Fields
      /\ write'[w].pc = "over" /\ write'[w].began = 0
      /\ write'[w].version = 0 /\ write'[w].old = 0 /\ write'[w].base = 0
      /\ \A v \in Writers \ {w} : write'[v] = write[v]
  BY Ended
<1>2. /\ UNCHANGED <<now, present, deletions, deletedAt, known>>
      /\ ensuring' = [ensuring EXCEPT ![w] = "no"]
      /\ now \in Nat
      /\ ensuring \in [Writers -> {"no", "fetch", "create", "confirmed", "done"}]
  BY DEF end, TypeOK, MirrorTypeOK
<1>3. MirrorTypeOK'
  BY <1>2 DEF TypeOK, MirrorTypeOK
<1>4. Missing \in Objects /\ Missing.version = 0
  BY DEF Missing, Objects
<1>5. /\ latest' \in Nat /\ object' \in Objects
      /\ object'.version \in 0..latest'
      /\ object'.version = 0 <=> object' = Missing
      /\ object'.version > 0 => present'
  BY <1>2, <1>4 DEF KcpMoves, kcp, TypeOK, Objects
<1>6. \A v \in Writers :
        /\ write'[v].pc \in InFlight \cup {"idle", "over"}
        /\ write'[v].pc \in InFlight => now' - write'[v].began <= RequestTimeout
        /\ ensuring'[v] # "no" => write'[v].pc = "ensure"
  BY <1>1, <1>2 DEF TypeOK, InFlight
<1>7. TypeOK'
  BY <1>3, <1>5, <1>6 DEF TypeOK
<1>8. \A v \in Writers \ {w} : Sound(v)'
  BY <1>1, <1>2, BystanderStays
<1>9. Sound(w)'
  <2>1. Formed(w)'
    BY <1>1, <1>2, <1>5 DEF Formed, InFlight
  <2>2. Resolved(w)' /\ Passed(w)'
    BY <1>1 DEF Resolved, Passed
  <2> QED BY <2>1, <2>2 DEF Sound
<1>10. Remembered'
  BY <1>1, <1>2 DEF Remembered
<1> QED BY <1>1, <1>5, <1>7, <1>8, <1>9, <1>10

-----------------------------------------------------------------------------
\* What happens around spillway preserves the invariant.
LEMMA WorldPreserves ==
  ASSUME IInv, Tick \/ OtherWrites \/ OtherDeletes \/ NamespaceIsDeleted
  PROVE  IInv'
<1> USE Bounds DEF IInv
<1>1. Missing \in Objects /\ Missing.version = 0
  BY DEF Missing, Objects
<1>2. now \in Nat
  BY DEF TypeOK, MirrorTypeOK
<1>3. CASE Tick
  <2> USE <1>3 DEF Tick, kcp
  <2>1. MirrorTypeOK'
    BY DEF TypeOK, MirrorTypeOK
  <2>2. TypeOK'
    <3>1. \A w \in Writers :
            /\ write'[w].pc \in InFlight \cup {"idle", "over"}
            /\ write'[w].pc \in InFlight => now' - write'[w].began <= RequestTimeout
            /\ ensuring'[w] # "no" => write'[w].pc = "ensure"
      <4>1. \A w \in Writers : write[w].began \in Nat
        BY DEF Sound, Formed
      <4> QED BY <1>2, <4>1 DEF TypeOK
    <3> QED BY <2>1, <3>1 DEF TypeOK
  <2>3. \A w \in Writers : Sound(w)'
    BY <1>2, BystanderStays DEF KcpMoves
  <2>4. Remembered'
    BY <1>2 DEF Remembered, TypeOK, MirrorTypeOK
  <2> QED BY <2>2, <2>3, <2>4
<1>4. CASE OtherWrites
  <2> USE <1>4 DEF OtherWrites, mirror
  <2>1. object' \in Objects /\ object'.version = latest + 1
    BY DEF Objects
  <2>2. MirrorTypeOK'
    BY DEF TypeOK, MirrorTypeOK
  <2>3. /\ object'.version \in 0..latest'
        /\ object'.version = 0 <=> object' = Missing
        /\ object'.version > 0 => present'
        /\ others' \in 0..MaxOthers
    BY <1>1, <2>1 DEF TypeOK
  <2>4. TypeOK'
    BY <2>2, <2>3 DEF TypeOK
  <2>5. \A w \in Writers : Sound(w)'
    <3>1. KcpMoves /\ now' = now /\ write' = write /\ cluster' = cluster
      BY <2>1 DEF KcpMoves
    <3> HIDE <1>4 DEF OtherWrites
    <3> QED BY <1>2, <3>1, BystanderStays
  <2>6. Remembered'
    BY DEF Remembered
  <2> QED BY <2>1, <2>4, <2>5, <2>6
<1>5. CASE OtherDeletes
  <2> USE <1>5 DEF OtherDeletes, mirror
  <2>1. MirrorTypeOK'
    BY DEF TypeOK, MirrorTypeOK
  <2>2. TypeOK'
    BY <1>1, <2>1 DEF TypeOK
  <2>3. \A w \in Writers : Sound(w)'
    BY <1>2, BystanderStays DEF KcpMoves
  <2>4. Remembered'
    BY DEF Remembered
  <2> QED BY <1>1, <2>2, <2>3, <2>4
<1>6. CASE NamespaceIsDeleted
  <2> USE <1>6 DEF NamespaceIsDeleted, DeleteNamespace
  <2>1. MirrorTypeOK'
    <3>1. present' \in BOOLEAN
      OBVIOUS
    <3>2. deletions' \in 0..MaxDeletions
      BY DEF TypeOK, MirrorTypeOK
    <3> QED BY <3>1, <3>2 DEF TypeOK, MirrorTypeOK
  <2>2. TypeOK'
    BY <1>1, <2>1 DEF TypeOK
  <2>3. \A w \in Writers : Sound(w)'
    BY <1>2, BystanderStays DEF KcpMoves
  <2>4. Remembered'
    <3>1. \A w \in Writers : write[w].began <= now
      BY DEF Sound, Formed
    <3>2. now # Never /\ (known # Never => known <= now /\ known \in Nat)
      BY <1>2 DEF Remembered, TypeOK, MirrorTypeOK
    <3> QED BY <1>2, <3>1, <3>2 DEF Remembered
  <2> QED BY <1>1, <2>2, <2>3, <2>4
<1> QED BY <1>3, <1>4, <1>5, <1>6

\* namespaceMirror.ensure preserves the invariant: only what has been seen is
\* remembered, and a request that saw it is not older than its deadline.
LEMMA EnsurePreserves ==
  ASSUME IInv, NEW w \in Writers, EnsureNamespace(w) \/ EnsureNamespaceFails(w)
  PROVE  IInv'
<1> USE Bounds DEF IInv
<1>1. /\ UNCHANGED <<cluster, kcp, others, write, now, deletions, deletedAt>>
      /\ write[w].pc = "ensure"
      /\ failures' \in 0..MaxFailures
  BY DEF EnsureNamespace, EnsureNamespaceFails, ensure, Ensure, FetchNamespace,
         CreateNamespace, FetchNamespaceFails, CreateNamespaceFails, Remember,
         TypeOK
<1>2. now \in Nat /\ write[w].began \in Nat
      /\ now - write[w].began <= RequestTimeout
  BY <1>1 DEF TypeOK, MirrorTypeOK, InFlight, Sound, Formed
<1>3. PICK where \in {"fetch", "create", "confirmed", "done"} :
        ensuring' = [ensuring EXCEPT ![w] = where]
  BY DEF EnsureNamespace, EnsureNamespaceFails, ensure, Ensure, FetchNamespace,
         CreateNamespace, FetchNamespaceFails, CreateNamespaceFails, Remember, at
<1>4. /\ present \in BOOLEAN /\ present' \in BOOLEAN
      /\ present => present'
      /\ known' \in {known, Never, now}
      /\ known' = now /\ known' # known => ensuring[w] = "confirmed"
      /\ where = "confirmed" => present'
  <2>1. present \in BOOLEAN /\ now # Never
    BY <1>2 DEF TypeOK, MirrorTypeOK
  <2>2. ensuring'[w] = where
    BY <1>3 DEF TypeOK, MirrorTypeOK
  <2>3. CASE Ensure(w)
    BY <2>1, <2>2, <2>3 DEF Ensure, at, TypeOK, MirrorTypeOK
  <2>4. CASE FetchNamespace(w)
    BY <2>1, <2>2, <2>4 DEF FetchNamespace, at, TypeOK, MirrorTypeOK
  <2>5. CASE CreateNamespace(w)
    BY <2>1, <2>2, <2>5 DEF CreateNamespace
  <2>6. CASE FetchNamespaceFails(w) \/ CreateNamespaceFails(w)
    BY <2>1, <2>2, <2>6 DEF FetchNamespaceFails, CreateNamespaceFails, at, TypeOK,
                            MirrorTypeOK
  <2>7. CASE Remember(w)
    BY <2>1, <2>2, <2>7 DEF Remember, at, TypeOK, MirrorTypeOK
  <2> QED BY <2>3, <2>4, <2>5, <2>6, <2>7
             DEF EnsureNamespace, EnsureNamespaceFails, ensure
<1>5. MirrorTypeOK'
  BY <1>1, <1>3, <1>4 DEF TypeOK, MirrorTypeOK
<1>6. TypeOK'
  BY <1>1, <1>3, <1>4, <1>5 DEF TypeOK, MirrorTypeOK, kcp
<1>7. \A v \in Writers : Sound(v)'
  BY <1>1, <1>2, BystanderStays DEF KcpMoves
<1>8. Remembered'
  <2>1. ensuring'[w] = where /\ \A v \in Writers \ {w} : ensuring'[v] = ensuring[v]
    BY <1>3 DEF TypeOK, MirrorTypeOK
  <2>2. CASE known' = known \/ known' = Never
    BY <1>1, <1>4, <2>1, <2>2 DEF Remembered
  <2>3. CASE known' = now /\ known' # known
    <3>1. ensuring[w] = "confirmed"
      BY <1>4, <2>3
    <3>2. ~present => deletedAt # Never /\ write[w].began <= deletedAt
      BY <3>1 DEF Remembered
    <3>3. deletedAt # Never => deletedAt \in Nat
      BY DEF TypeOK, MirrorTypeOK
    <3>4. ~present => deletedAt # Never /\ now <= deletedAt + RequestTimeout
      BY <1>2, <3>2, <3>3
    <3> QED BY <1>1, <1>2, <1>4, <2>1, <2>3, <3>4 DEF Remembered
  <2> QED BY <1>4, <2>2, <2>3
<1> QED BY <1>1, <1>6, <1>7, <1>8 DEF kcp

-----------------------------------------------------------------------------
\* A pair is made of its two parts.
LEMMA Pairs == \A r \in STRING \X STRING : r = <<r[1], r[2]>>
  OBVIOUS

\* No webhook is called for what the matcher lets pass (admissionmatch.go:29).
LEMMA MatcherIsCautious ==
  ASSUME cluster \in Clusters, NEW op, ~matches(cluster, GVR, op)
  PROVE  ~called(cluster, GVR, "", op)
<1> SUFFICES ASSUME NEW rule \in cluster.rules,
                    reaches(rule, GVR, "", op)
             PROVE  ruleMatches(rule, GVR, op)
  BY DEF matches, called
<1>1. PICK r \in rule.resources :
        /\ r[1] \in {"*", GVR.resource}
        /\ r[2] = "" \/ r = <<"*", "*">>
  BY DEF reaches
<1>2. r \in STRING \X STRING
  BY WritePathAssumption
<1>3. r = <<r[1], r[2]>>
  BY <1>2, Pairs
<1>4. r \in {<<"*", "">>, <<"*", "*">>, <<GVR.resource, "">>}
  BY <1>1, <1>3
<1> QED BY <1>4 DEF reaches, ruleMatches, containsResource

\* inspectWrite and the choice of the first call preserve the invariant.
LEMMA BeginPreserves ==
  ASSUME IInv, NEW w \in Writers, NEW s \in Shapes, Begin(w, s)
  PROVE  IInv'
<1> USE Bounds DEF IInv
<1> DEFINE fields ==
      [pc |-> firstStep(s), shape |-> s, began |-> now,
       version |-> IF s.method = "PUT" THEN object.version ELSE 0,
       value |-> [includes |-> {w} \cup IF s.method = "PUT"
                                        THEN object.includes ELSE {},
                  marked |-> FALSE]]
<1>1. /\ go(w, fields) /\ write[w].pc = "idle"
      /\ UNCHANGED <<cluster, kcp, others, failures, mirror>>
  BY DEF Begin
<1>2. /\ DOMAIN fields = {"pc", "shape", "began", "version", "value"}
      /\ fields.pc = firstStep(s) /\ fields.shape = s /\ fields.began = now
      /\ fields.version = IF s.method = "PUT" THEN object.version ELSE 0
      /\ fields.value = [includes |-> {w} \cup IF s.method = "PUT"
                                               THEN object.includes ELSE {},
                         marked |-> FALSE]
  OBVIOUS
<1> HIDE DEF fields
<1>3. DOMAIN write[w] = Fields /\ write[w] = NoWrite
  BY <1>1 DEF Sound, Formed
<1>4. /\ DOMAIN write' = Writers
      /\ DOMAIN write'[w] = Fields
      /\ \A f \in Fields :
           write'[w][f] = IF f \in DOMAIN fields THEN fields[f] ELSE write[w][f]
      /\ \A v \in Writers \ {w} : write'[v] = write[v]
  BY <1>1, <1>3, Go
<1>5. /\ write'[w].pc = firstStep(s) /\ write'[w].shape = s
      /\ write'[w].began = now
      /\ write'[w].version = IF s.method = "PUT" THEN object.version ELSE 0
      /\ write'[w].value = fields.value
      /\ write'[w].old = 0 /\ write'[w].base = 0
      /\ write'[w].admitted = None
  <2>1. /\ write'[w].pc = fields.pc /\ write'[w].shape = fields.shape
        /\ write'[w].began = fields.began /\ write'[w].version = fields.version
        /\ write'[w].value = fields.value
    BY <1>2, <1>4 DEF Fields
  <2>2. /\ write'[w].old = NoWrite.old /\ write'[w].base = NoWrite.base
        /\ write'[w].admitted = NoWrite.admitted
    BY <1>2, <1>3, <1>4 DEF Fields
  <2>3. NoWrite.old = 0 /\ NoWrite.base = 0 /\ NoWrite.admitted = None
    BY DEF NoWrite
  <2> QED BY <1>2, <2>1, <2>2, <2>3
<1>6. /\ s \in Forms
      /\ s.method \in {"POST", "PUT", "PATCH", "DELETE", "DELETECOLLECTION"}
      /\ s.method = "DELETE" => s.sub = ""
  BY WritePathAssumption
<1>7. fields.value \in Values
  BY <1>2 DEF Values, Objects
<1>8. /\ firstStep(s) \in InFlight \ {"dryrun"}
      /\ firstStep(s) = "old" => s.method # "POST"
      /\ firstStep(s) = "forward" => s.method \in {"DELETE", "DELETECOLLECTION"}
      /\ firstStep(s) = "forward" /\ s.method = "DELETE" => ~watched(s)
      /\ firstStep(s) = "admit" => s.method # "PATCH"
      /\ firstStep(s) = "ensure" => s.method = "PATCH"
      /\ s.method = "DELETECOLLECTION" => firstStep(s) = "forward"
  BY <1>6 DEF firstStep, operationFor, InFlight
<1>9. Sound(w)'
  <2>1. now \in Nat /\ object.version \in 0..latest /\ cluster \in Clusters
    BY DEF TypeOK, MirrorTypeOK
  <2>2. Formed(w)'
    <3> DEFINE at0 == firstStep(s)
    <3>1. /\ at0 \in InFlight /\ at0 # "dryrun" /\ at0 # "idle"
          /\ at0 = "old" => s.method # "POST"
          /\ at0 = "forward" => s.method \in {"DELETE", "DELETECOLLECTION"}
          /\ at0 = "ensure" => s.method \notin {"DELETE", "DELETECOLLECTION"}
          /\ at0 \in {"old", "admit"} => s.method # "DELETECOLLECTION"
      BY <1>8 DEF InFlight
    <3> HIDE DEF at0
    <3>2. /\ write'[w].pc = at0 /\ UNCHANGED <<now, object, latest>>
          /\ s.method # "replacement"
      BY <1>1, <1>5, <1>6 DEF at0, kcp, mirror
    <3>3. /\ (write[w].began)' \in Nat /\ (write[w].began <= now)'
          /\ (write[w].version \in 0..latest)'
          /\ (write[w].old \in 0..latest)' /\ (write[w].base \in 0..latest)'
      BY <1>5, <2>1, <3>2
    <3>4. (write[w].shape)' \in Forms /\ (write[w].value)' \in Values
      BY <1>5, <1>6, <1>7
    <3>5. /\ write'[w].shape = s /\ write'[w].old = 0
          /\ write'[w].admitted = None /\ (DOMAIN write[w])' = Fields
      BY <1>4, <1>5
    <3> QED BY <3>1, <3>2, <3>3, <3>4, <3>5, Zenon DEF Formed, shape, deletes
  <2>3. Resolved(w)'
    BY <1>5, <1>8 DEF Resolved, shape
  <2>4. firstStep(s) = "forward" /\ s.method = "DELETE" =>
          ~called(cluster, GVR, s.sub, "DELETE")
    BY <1>6, <1>8, <2>1, MatcherIsCautious DEF watched, operationFor
  <2>5. Passed(w)'
    BY <1>1, <1>5, <1>8, <2>4 DEF Passed, shape, decodes
  <2> QED BY <2>2, <2>3, <2>5 DEF Sound
<1>10. failures' \in 0..MaxFailures
  BY <1>1 DEF TypeOK
<1> QED BY <1>1, <1>4, <1>5, <1>8, <1>9, <1>10, GoPreserves

\* fetchOld, whether it succeeds or not, preserves the invariant.
LEMMA FetchOldPreserves ==
  ASSUME IInv, NEW w \in Writers, FetchOld(w) \/ FetchOldFails(w)
  PROVE  IInv'
<1> USE Bounds DEF IInv
<1>1. /\ write[w].pc = "old" /\ UNCHANGED <<cluster, kcp, others, mirror>>
      /\ failures' \in 0..MaxFailures
  BY DEF FetchOld, FetchOldFails, TypeOK
<1>2. Formed(w) /\ DOMAIN write[w] = Fields
  BY DEF Sound, Formed
<1>3. /\ DOMAIN write' = Writers
      /\ DOMAIN write'[w] = Fields
      /\ \A v \in Writers \ {w} : write'[v] = write[v]
      /\ write'[w].pc = afterOld(w)
      /\ write'[w].old \in {object.version, write[w].old}
      /\ \A f \in Fields \ {"pc", "old"} : write'[w][f] = write[w][f]
  <2>1. CASE FetchOld(w)
    <3> DEFINE fields == [pc |-> afterOld(w), old |-> object.version]
    <3>1. go(w, fields)
      BY <2>1 DEF FetchOld
    <3>2. /\ DOMAIN fields = {"pc", "old"}
          /\ fields.pc = afterOld(w) /\ fields.old = object.version
      OBVIOUS
    <3> HIDE DEF fields
    <3> QED BY <1>2, <3>1, <3>2, Go DEF Fields
  <2>2. CASE FetchOldFails(w)
    <3> DEFINE fields == [pc |-> afterOld(w)]
    <3>1. go(w, fields)
      BY <2>2 DEF FetchOldFails
    <3>2. DOMAIN fields = {"pc"} /\ fields.pc = afterOld(w)
      OBVIOUS
    <3> HIDE DEF fields
    <3> QED BY <1>2, <3>1, <3>2, Go DEF Fields
  <2> QED BY <2>1, <2>2
<1>4. /\ write'[w].began = write[w].began /\ write'[w].version = write[w].version
      /\ write'[w].base = write[w].base /\ write'[w].shape = write[w].shape
      /\ write'[w].value = write[w].value
      /\ write'[w].admitted = write[w].admitted
  BY <1>3 DEF Fields
<1>5. /\ afterOld(w) \in {"dryrun", "admit"}
      /\ afterOld(w) = "dryrun" <=> shape(w).method = "PATCH"
  BY DEF afterOld
<1>6. Sound(w)'
  <2>1. object.version \in 0..latest
    BY DEF TypeOK
  <2>2. Formed(w)'
    BY <1>1, <1>2, <1>3, <1>4, <1>5, <2>1 DEF Formed, shape, kcp, mirror, InFlight
  <2>3. Resolved(w)' /\ Passed(w)'
    BY <1>1, <1>2, <1>3, <1>4, <1>5 DEF Formed, Resolved, Passed, shape
  <2> QED BY <2>2, <2>3 DEF Sound
<1>7. write'[w].pc \in InFlight /\ write[w].pc \in InFlight
  BY <1>1, <1>3, <1>5 DEF InFlight
<1> QED BY <1>1, <1>3, <1>4, <1>6, <1>7, GoPreserves

\* The dry run of a patch preserves the invariant: what it yields is filed
\* under the version it was made on.
LEMMA DryRunPreserves ==
  ASSUME IInv, NEW w \in Writers, DryRun(w) \/ DryRunRefused(w) \/ DryRunFails(w)
  PROVE  IInv'
<1> USE Bounds DEF IInv
<1>1. /\ write[w].pc = "dryrun" /\ UNCHANGED <<cluster, kcp, others, mirror>>
      /\ failures' \in 0..MaxFailures
  BY DEF DryRun, DryRunRefused, DryRunFails, TypeOK
<1>2. Formed(w) /\ DOMAIN write[w] = Fields /\ shape(w).method = "PATCH"
      /\ write[w].admitted = None
  BY <1>1 DEF Sound, Formed
<1>3. CASE DryRun(w)
  <2> DEFINE fields == [pc |-> "admit", base |-> object.version,
                        value |-> patched(w, object)]
  <2>1. go(w, fields)
    BY <1>3 DEF DryRun
  <2>2. /\ DOMAIN fields = {"pc", "base", "value"} /\ fields.pc = "admit"
        /\ fields.base = object.version /\ fields.value = patched(w, object)
    OBVIOUS
  <2> HIDE DEF fields
  <2>3. /\ DOMAIN write' = Writers
        /\ DOMAIN write'[w] = Fields
        /\ \A v \in Writers \ {w} : write'[v] = write[v]
        /\ write'[w].pc = "admit" /\ write'[w].base = object.version
        /\ write'[w].value = patched(w, object)
        /\ write'[w].began = write[w].began /\ write'[w].version = write[w].version
        /\ write'[w].old = write[w].old /\ write'[w].shape = write[w].shape
        /\ write'[w].admitted = write[w].admitted
    BY <1>2, <2>1, <2>2, Go DEF Fields
  <2>4. object.version \in 0..latest /\ (object.version = 0 => object = Missing)
    BY DEF TypeOK
  <2>5. patched(w, object) \in Values
    BY DEF patched, valueOf, Values, Objects
  <2>6. Formed(w)'
    BY <1>1, <1>2, <2>3, <2>4, <2>5 DEF Formed, shape, kcp, mirror, InFlight
  <2>7. patched(w, object)' = patched(w, object)
    BY <1>1 DEF patched, valueOf, kcp
  <2>8. Resolved(w)'
    BY <1>1, <1>2, <2>3, <2>4, <2>7 DEF Resolved, shape, kcp
  <2>9. Passed(w)'
    BY <2>3 DEF Passed
  <2>10. Sound(w)'
    BY <2>6, <2>8, <2>9 DEF Sound
  <2>11. write'[w].pc \in InFlight /\ write[w].pc \in InFlight
    BY <1>1, <2>3 DEF InFlight
  <2> QED BY <1>1, <2>3, <2>10, <2>11, GoPreserves
<1>4. CASE DryRunRefused(w) \/ DryRunFails(w)
  <2> DEFINE fields == [pc |-> "ensure"]
  <2>1. go(w, fields)
    BY <1>4 DEF DryRunRefused, DryRunFails
  <2>2. DOMAIN fields = {"pc"} /\ fields.pc = "ensure"
    OBVIOUS
  <2> HIDE DEF fields
  <2>3. /\ DOMAIN write' = Writers
        /\ DOMAIN write'[w] = Fields
        /\ \A v \in Writers \ {w} : write'[v] = write[v]
        /\ write'[w].pc = "ensure"
        /\ write'[w].value = write[w].value /\ write'[w].base = write[w].base
        /\ write'[w].began = write[w].began /\ write'[w].version = write[w].version
        /\ write'[w].old = write[w].old /\ write'[w].shape = write[w].shape
        /\ write'[w].admitted = write[w].admitted
    BY <1>2, <2>1, <2>2, Go DEF Fields
  <2>4. Formed(w)'
    BY <1>1, <1>2, <2>3 DEF Formed, shape, deletes, kcp, mirror, InFlight
  <2>5. Resolved(w)' /\ Passed(w)'
    BY <1>2, <2>3 DEF Resolved, Passed, shape, decodes
  <2>6. Sound(w)'
    BY <2>4, <2>5 DEF Sound
  <2>7. write'[w].pc \in InFlight /\ write[w].pc \in InFlight
    BY <1>1, <2>3 DEF InFlight
  <2> QED BY <1>1, <2>3, <2>6, <2>7, GoPreserves
<1> QED BY <1>3, <1>4

\* The admission chain preserves the invariant: a patch that it changes becomes
\* a replacement of the version the dry run was made on, or of none.
LEMMA AdmitPreserves ==
  ASSUME IInv, NEW w \in Writers, NEW mutates \in BOOLEAN, Admit(w, mutates)
  PROVE  IInv'
<1> USE Bounds DEF IInv
<1> DEFINE x == write[w]
           admitted == IF ~subject(w) THEN None
                       ELSE [x.value EXCEPT !.marked = @ \/ mutates]
           changed == admitted # None /\ admitted # x.value
           version == IF shape(w).method = "PATCH"
                      THEN IF changed THEN replacementVersion(w) ELSE 0
                      ELSE x.version
           form == IF shape(w).method = "PATCH" /\ changed
                   THEN [shape(w) EXCEPT !.method = "replacement"] ELSE shape(w)
           step == IF shape(w).method = "DELETE" THEN "forward" ELSE "ensure"
           fields == [pc |-> step, admitted |-> admitted,
                      seen |-> operation(w), old |-> 0,
                      value |-> forwarded(x.value, admitted),
                      version |-> version, shape |-> form]
<1>1. /\ x.pc = "admit" /\ kindKnown(w) /\ go(w, fields)
      /\ UNCHANGED <<cluster, kcp, others, failures, mirror>>
  BY DEF Admit
<1>2. /\ DOMAIN fields = {"pc", "admitted", "seen", "old", "value", "version",
                           "shape"}
      /\ fields.pc = step /\ fields.admitted = admitted /\ fields.old = 0
      /\ fields.seen = operation(w)
      /\ fields.value = forwarded(x.value, admitted)
      /\ fields.version = version /\ fields.shape = form
  OBVIOUS
<1> HIDE DEF fields
<1>3. /\ Formed(w) /\ Resolved(w) /\ DOMAIN x = Fields
      /\ shape(w) \in Forms /\ x.value \in Values
      /\ shape(w).method \notin {"replacement", "DELETECOLLECTION"}
  BY <1>1 DEF Sound, Formed, InFlight, shape
<1>4. /\ DOMAIN write' = Writers
      /\ DOMAIN write'[w] = Fields
      /\ \A v \in Writers \ {w} : write'[v] = write[v]
      /\ write'[w].pc = fields.pc /\ write'[w].admitted = fields.admitted
      /\ write'[w].old = fields.old /\ write'[w].value = fields.value
      /\ write'[w].version = fields.version /\ write'[w].shape = fields.shape
      /\ write'[w].began = x.began /\ write'[w].base = x.base
      /\ write'[w].seen = fields.seen
  BY <1>1, <1>2, <1>3, Go DEF Fields
<1>5. /\ subject(w) => admitted \in Values /\ admitted.includes = x.value.includes
      /\ subject(w) => admitted # None
      /\ ~subject(w) => admitted = None
  BY <1>3 DEF Values
<1>6. forwarded(x.value, admitted) = IF admitted = None THEN x.value ELSE admitted
  BY DEF forwarded
<1>7. /\ version \in 0..latest
      /\ shape(w).method = "PATCH" /\ changed =>
           version = IF x.old # 0 THEN x.old ELSE x.base
  BY <1>3 DEF Formed, replacementVersion
<1>8. /\ form \in Forms /\ form.body = shape(w).body
      /\ shape(w).method = "PATCH" /\ changed => form.method = "replacement"
      /\ ~(shape(w).method = "PATCH" /\ changed) => form = shape(w)
  BY <1>3 DEF Forms
<1> HIDE DEF admitted, version, form
<1>9. Formed(w)'
  BY <1>1, <1>2, <1>3, <1>4, <1>5, <1>6, <1>7, <1>8
     DEF Formed, shape, deletes, kcp, mirror, InFlight
<1>10. Resolved(w)'
  <2>1. CASE shape(w).method = "PATCH" /\ changed
    <3>1. /\ write'[w].shape.method = "replacement"
          /\ write'[w].value.includes = x.value.includes
      BY <1>2, <1>4, <1>5, <1>6, <1>8, <2>1
    <3>2. ASSUME object.version # 0, object.version = version
          PROVE  object.includes \subseteq x.value.includes
      <4>1. object.version = x.base
        BY <1>1, <1>3, <1>7, <2>1, <3>2 DEF Resolved
      <4>2. x.value = patched(w, object)
        BY <1>1, <1>3, <2>1, <3>2, <4>1 DEF Resolved
      <4> QED BY <4>2 DEF patched, valueOf, Objects
    <3> QED BY <1>1, <1>2, <1>4, <3>1, <3>2 DEF Resolved, shape, kcp
  <2>2. CASE shape(w).method = "PATCH" /\ ~changed
    <3>1. /\ write'[w].shape = shape(w) /\ write'[w].value = x.value
          /\ write'[w].pc = "ensure"
      BY <1>2, <1>4, <1>6, <1>8, <2>2
    <3>2. /\ x.base = 0 => x.value = patched(w, Missing)
          /\ object.version # 0 /\ object.version = x.base =>
               x.value = patched(w, object)
      BY <1>1, <1>3, <2>2 DEF Resolved
    <3>3. patched(w, Missing)' = patched(w, Missing)
          /\ patched(w, object)' = patched(w, object)
      BY <1>1 DEF patched, valueOf, Missing, kcp
    <3> QED BY <1>1, <1>4, <2>2, <3>1, <3>2, <3>3 DEF Resolved, shape, kcp
  <2>3. CASE shape(w).method # "PATCH"
    BY <1>2, <1>3, <1>4, <1>8, <2>3 DEF Resolved, shape
  <2> QED BY <2>1, <2>2, <2>3
<1>11. Passed(w)'
  <2>1. shape(w).method # "PATCH" => operation(w) = operationFor(shape(w))
    BY DEF operation
  <2>2. CASE shape(w).method = "DELETE"
    BY <1>2, <1>4, <1>8, <2>1, <2>2 DEF Passed, shape, operationFor
  <2>3. CASE admitted # None /\ shape(w).method # "DELETE"
    <3>1. write'[w].pc = "ensure" /\ write'[w].admitted = write'[w].value
      BY <1>2, <1>4, <1>6, <2>3
    <3>2. write'[w].shape.method \in {"POST", "PUT"} =>
            write'[w].seen = operationFor(write'[w].shape)
      BY <1>2, <1>4, <1>8, <2>1
    <3> QED BY <1>2, <1>4, <2>3, <3>1, <3>2 DEF Passed, shape
  <2>4. CASE admitted = None /\ shape(w).method # "DELETE"
    <3>1. shape(w).method # "PATCH" /\ ~decodes(shape(w))
      BY <1>5, <2>4 DEF subject
    <3>2. /\ write'[w].pc = "ensure" /\ write'[w].shape = shape(w)
          /\ write'[w].admitted = None /\ write'[w].seen = operationFor(shape(w))
      BY <1>2, <1>4, <1>8, <2>1, <2>4, <3>1
    <3> QED BY <1>3, <3>1, <3>2 DEF Passed, shape
  <2> QED BY <2>2, <2>3, <2>4
<1>12. Sound(w)'
  BY <1>9, <1>10, <1>11 DEF Sound
<1>13. /\ write'[w].pc \in InFlight /\ write[w].pc \in InFlight
       /\ failures' \in 0..MaxFailures
  BY <1>1, <1>2, <1>4 DEF InFlight, TypeOK
<1> HIDE DEF step, x
<1> QED BY <1>1, <1>4, <1>12, <1>13, GoPreserves DEF x

\* A request that is stored is past admission, and its object is one.
LEMMA StoredObject ==
  ASSUME IInv, NEW w \in Writers, Store(w)
  PROVE  /\ write[w].pc = "ensure" /\ end(w) /\ accepts(w)
         /\ latest' = latest + 1 /\ present
         /\ object' \in Objects /\ object'.version = latest + 1
         /\ object'.includes = IF shape(w).method = "PATCH"
                               THEN patched(w, object).includes
                               ELSE write[w].value.includes
         /\ object'.marked = IF shape(w).method = "PATCH"
                             THEN patched(w, object).marked
                             ELSE write[w].value.marked
<1> USE Bounds DEF IInv
<1> DEFINE value == IF shape(w).method = "PATCH" THEN patched(w, object)
                    ELSE write[w].value
<1>1. /\ ready(w) /\ ~deletes(w) /\ accepts(w) /\ end(w)
      /\ latest' = latest + 1
      /\ object' = [version |-> latest', includes |-> value.includes,
                    marked |-> value.marked]
  BY DEF Store
<1>2. write[w].pc = "ensure" /\ write[w].value \in Values
  BY <1>1 DEF ready, Sound, Formed, InFlight
<1>3. patched(w, object) \in Values
  BY DEF patched, valueOf, Values, Objects
<1>4. value \in Values
  BY <1>2, <1>3
<1>5. present
  BY <1>1 DEF accepts, TypeOK, Objects
<1>6. object' \in Objects /\ object'.version = latest + 1
      /\ object'.includes = value.includes /\ object'.marked = value.marked
  BY <1>1, <1>4 DEF Values, Objects
<1> QED BY <1>1, <1>2, <1>5, <1>6

\* The ways a request ends preserve the invariant.
LEMMA EndsPreserve ==
  ASSUME IInv, NEW w \in Writers,
         \/ \E s \in Shapes : RefusedAtOnce(w, s)
         \/ Refused(w) \/ RefusedByKcp(w) \/ Abandon(w)
         \/ Store(w) \/ DeleteObject(w)
  PROVE  IInv'
<1>1. object # Missing => present
  BY DEF IInv, TypeOK, Objects
<1>2. CASE \/ \E s \in Shapes : RefusedAtOnce(w, s)
           \/ Refused(w) \/ RefusedByKcp(w) \/ Abandon(w)
  <2>1. end(w) /\ UNCHANGED <<cluster, kcp, others, failures>>
    BY <1>2 DEF RefusedAtOnce, Refused, RefusedByKcp, Abandon
  <2> QED BY <1>1, <2>1, EndPreserves DEF KcpMoves, kcp
<1>3. CASE Store(w)
  <2>1. UNCHANGED <<cluster, others, failures>>
    BY <1>3 DEF Store
  <2> QED BY <1>3, <2>1, StoredObject, EndPreserves DEF KcpMoves
<1>4. CASE DeleteObject(w)
  BY <1>4, EndPreserves DEF DeleteObject, KcpMoves
<1> QED BY <1>2, <1>3, <1>4

\* Every step preserves the invariant.
LEMMA NextInvariant == IInv /\ [Next]_vars => IInv'
<1> SUFFICES ASSUME IInv, [Next]_vars PROVE IInv'
  OBVIOUS
<1>1. CASE UNCHANGED vars
  <2> USE <1>1 DEF vars, kcp, mirror, IInv
  <2>1. TypeOK'
    BY DEF TypeOK, MirrorTypeOK
  <2>2. now \in Nat
    BY DEF TypeOK, MirrorTypeOK
  <2>3. \A w \in Writers : Sound(w)'
    BY <2>2, BystanderStays DEF KcpMoves
  <2>4. Remembered'
    BY DEF Remembered
  <2> QED BY <2>1, <2>3, <2>4
<1>2. ASSUME NEW w \in Writers, Serve(w) PROVE IInv'
  BY <1>2, BeginPreserves, FetchOldPreserves, DryRunPreserves, AdmitPreserves,
     EnsurePreserves, EndsPreserve DEF Serve
<1> QED BY <1>1, <1>2, WorldPreserves DEF Next

\* The invariant holds in every reachable state.
THEOREM Invariance == Spec => []IInv
  BY InitInvariant, NextInvariant, PTL DEF Spec

\* The request's fields stay within their types, nothing in flight outlives its
\* deadline (proxy.go's timeout), an object needs its namespace.
THEOREM TypeCorrect == Spec => []TypeOK
  BY Invariance, PTL DEF IInv

\* A namespace that is remembered although it is gone is forgotten within the
\* time to live and one request timeout of its deletion (namespaces.go:130-146).
THEOREM NamespaceGapIsBoundedHolds == Spec => []NamespaceGapIsBounded
<1>1. IInv => NamespaceGapIsBounded
  <2> SUFFICES ASSUME IInv, fresh, ~present
               PROVE  deletedAt # Never /\ now < deletedAt + TTL + RequestTimeout
    BY DEF NamespaceGapIsBounded
  <2>1. /\ deletedAt # Never /\ known # Never
        /\ known <= deletedAt + RequestTimeout /\ now - known < TTL
    BY DEF IInv, Remembered, fresh
  <2>2. deletedAt \in Nat /\ known \in Nat /\ now \in Nat
    BY <2>1 DEF IInv, TypeOK, MirrorTypeOK
  <2> QED BY <2>1, <2>2, Bounds
<1> QED BY <1>1, Invariance, PTL

\* Only a writer's own Store is a step in which its object is stored.
LEMMA StoresIsStore ==
  ASSUME IInv, [Next]_vars, NEW w \in Writers, Stores(w)
  PROVE  Store(w)
<1>1. write[w].pc # "over" /\ write'[w].pc = "over" /\ latest' # latest
      /\ latest \in Nat /\ DOMAIN write = Writers
  BY DEF Stores, ready, IInv
<1>2. PICK v \in Writers : Store(v)
  BY <1>1 DEF Next, vars, kcp, Serve, Begin, RefusedAtOnce, FetchOld,
      FetchOldFails, DryRun, DryRunRefused, DryRunFails, Admit, Refused,
      EnsureNamespace, EnsureNamespaceFails, DeleteObject, RefusedByKcp, Abandon,
      Tick, OtherWrites, OtherDeletes, NamespaceIsDeleted
<1>3. v # w => write'[w] = write[w]
  BY <1>1, <1>2, Ended DEF Store
<1> QED BY <1>1, <1>2, <1>3

\* A patch, or the replacement admission made of it, never overwrites what was
\* stored after the patch was read (admission.go:198).
THEOREM PatchesLoseNothingHolds == Spec => PatchesLoseNothing
<1>1. IInv /\ [Next]_vars =>
        [\A w \in Writers :
           Stores(w) /\ shape(w).method \in {"PATCH", "replacement"} =>
             object.includes \subseteq object'.includes]_vars
  <2> SUFFICES ASSUME IInv, [Next]_vars, NEW w \in Writers, Stores(w),
                      shape(w).method \in {"PATCH", "replacement"}
               PROVE  object.includes \subseteq object'.includes
    OBVIOUS
  <2>1. Store(w)
    BY StoresIsStore
  <2>2. CASE shape(w).method = "PATCH"
    BY <2>1, <2>2, StoredObject DEF IInv, Objects, patched, valueOf
  <2>3. CASE shape(w).method = "replacement"
    <3>1. object.version # 0 /\ object.version = write[w].version
      BY <2>1, <2>3, StoredObject DEF accepts, IInv, TypeOK
    <3>2. object.includes \subseteq write[w].value.includes
      BY <2>1, <2>3, <3>1, StoredObject DEF IInv, Sound, Resolved
    <3> QED BY <2>1, <2>3, <3>2, StoredObject
  <2> QED BY <2>2, <2>3
<1> QED BY <1>1, Invariance, PTL DEF Spec, PatchesLoseNothing

\* An object that arrives whole, or replaces a patch, is stored as admission
\* left it, and so is a patch kcp applies to what its dry run was made on
\* (admission.go:82-215, proxy.go's ServeHTTP).
THEOREM StoredWasAdmittedHolds == Spec => StoredWasAdmitted
<1> DEFINE Justified(w) ==
      /\ decodes(shape(w)) \/ shape(w).method = "replacement" =>
           write[w].admitted # None /\ valueOf(object') = write[w].admitted
      /\ /\ shape(w).method = "PATCH"
         /\ write[w].admitted # None /\ object.version = write[w].base
         => valueOf(object') = write[w].admitted
<1>1. IInv /\ [Next]_vars => [\A w \in Writers : Stores(w) => Justified(w)]_vars
  <2> SUFFICES ASSUME IInv, [Next]_vars, NEW w \in Writers, Stores(w)
               PROVE  Justified(w)
    OBVIOUS
  <2>1. Store(w) /\ write[w].pc = "ensure"
    BY StoresIsStore, StoredObject
  <2>2. Passed(w) /\ Resolved(w) /\ write[w].value \in Values
    BY <2>1 DEF IInv, Sound, Formed, InFlight
  <2>3. CASE decodes(shape(w)) \/ shape(w).method = "replacement"
    <3>1. shape(w).method # "PATCH"
      BY <2>3 DEF decodes
    <3>2. /\ object'.includes = write[w].value.includes
          /\ object'.marked = write[w].value.marked
          /\ write[w].admitted # None /\ write[w].admitted = write[w].value
      BY <2>1, <2>2, <2>3, <3>1, StoredObject DEF Passed
    <3>3. valueOf(object') = write[w].value
      BY <2>2, <3>2 DEF valueOf, Values
    <3> QED BY <3>1, <3>2, <3>3
  <2>4. CASE /\ write[w].admitted # None /\ shape(w).method = "PATCH"
             /\ object.version = write[w].base
    <3>1. write[w].value = patched(w, object)
      <4>1. object.version = 0 => object = Missing
        BY DEF IInv, TypeOK
      <4> QED BY <2>1, <2>2, <2>4, <4>1 DEF Resolved
    <3>2. /\ object'.includes = write[w].value.includes
          /\ object'.marked = write[w].value.marked
          /\ write[w].admitted = write[w].value
      BY <2>1, <2>2, <2>4, <3>1, StoredObject DEF Passed
    <3>3. valueOf(object') = write[w].value
      BY <2>2, <3>2 DEF valueOf, Values
    <3> QED BY <2>4, <3>2, <3>3 DEF decodes
  <2> QED BY <2>3, <2>4
<1> QED BY <1>1, Invariance, PTL DEF Spec, StoredWasAdmitted

\* A step that ends w's request and changes the object carries it out.
LEMMA EffectIsOwn ==
  ASSUME IInv, [Next]_vars, NEW w \in Writers, effect(w) # ""
  PROVE  Store(w) \/ DeleteObject(w)
<1>1. /\ write[w].pc # "over" /\ write'[w].pc = "over" /\ object' # object
      /\ DOMAIN write = Writers /\ DOMAIN write[w] = Fields
  BY DEF effect, ready, IInv, Sound, Formed
<1>2. PICK v \in Writers : Store(v) \/ DeleteObject(v)
  BY <1>1 DEF Next, vars, kcp, Serve, Begin, RefusedAtOnce, FetchOld,
      FetchOldFails, DryRun, DryRunRefused, DryRunFails, Admit, Refused,
      EnsureNamespace, EnsureNamespaceFails, RefusedByKcp, Abandon,
      Tick, OtherWrites, OtherDeletes, NamespaceIsDeleted
<1>3. v # w => write'[w] = write[w]
  BY <1>1, <1>2, Ended DEF Store, DeleteObject
<1> QED BY <1>1, <1>2, <1>3

\* The version of a stored object is not that of no object.
LEMMA NewVersion == \A n \in Nat : n + 1 # 0
  OBVIOUS

\* A create, an update and a delete of one object that is carried out has
\* passed every webhook and policy for it (admission.go:239-325), although a
\* delete is only shown to them when the matcher says so.
THEOREM PlainWritesFireHolds == Spec => PlainWritesFire
<1>1. IInv /\ [Next]_vars =>
        [\A w \in Writers :
           write[w].pc \in InFlight /\ shape(w).method \in {"POST", "PUT", "DELETE"} =>
             Fires(w)]_vars
  <2> SUFFICES ASSUME IInv, [Next]_vars, NEW w \in Writers,
                      shape(w).method \in {"POST", "PUT", "DELETE"}
               PROVE  Fires(w)
    OBVIOUS
  <2>0. ASSUME effect(w) # "" =>
                 \/ write[w].seen = effect(w)
                 \/ ~called(cluster, GVR, shape(w).sub, effect(w))
        PROVE  Fires(w)
    BY <2>0 DEF Fires, called
  <2> SUFFICES ASSUME effect(w) # ""
               PROVE  \/ write[w].seen = effect(w)
                      \/ ~called(cluster, GVR, shape(w).sub, effect(w))
    BY <2>0
  <2>1. Store(w) \/ DeleteObject(w)
    BY EffectIsOwn
  <2>2. Passed(w) /\ Formed(w)
    BY DEF IInv, Sound
  <2>3. ready(w) /\ write'[w].pc = "over" /\ object' # object
    BY DEF effect
  <2>4. CASE shape(w).method \in {"POST", "PUT"}
    <3>1. Store(w)
      BY <2>1, <2>4 DEF DeleteObject, deletes
    <3>2. /\ write[w].pc = "ensure" /\ accepts(w)
          /\ latest \in Nat /\ object'.version = latest + 1
      BY <3>1, StoredObject DEF IInv
    <3>3. object' # Missing
      <4>1. Missing.version = 0
        BY DEF Missing
      <4>2. object'.version # 0
        BY <3>2, NewVersion, Zenon
      <4> QED BY <4>1, <4>2, Zenon
    <3>4. effect(w) = operationFor(shape(w))
      BY <2>3, <2>4, <3>2, <3>3 DEF effect, accepts, operationFor
    <3> QED BY <2>2, <2>4, <3>2, <3>4 DEF Passed
  <2>5. CASE shape(w).method = "DELETE"
    <3>1. object' = Missing
      BY <2>1, <2>5 DEF Store, DeleteObject, deletes
    <3>2. write[w].pc = "forward"
      BY <2>2, <2>3, <2>5 DEF ready, Formed, deletes
    <3>3. effect(w) = "DELETE"
      BY <2>3, <3>1 DEF effect
    <3> QED BY <2>2, <2>5, <3>2, <3>3 DEF Passed
  <2> QED BY <2>4, <2>5
<1> QED BY <1>1, Invariance, PTL DEF Spec, PlainWritesFire
=============================================================================
