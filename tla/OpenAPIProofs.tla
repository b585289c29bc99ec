---------------------------- MODULE OpenAPIProofs ----------------------------
(***************************************************************************)
(* For any number of requesters, workspaces, edits, reloads and failures:  *)
(* the lock of the document cache is held exactly while a request looks at *)
(* the cache or builds the document, and every way out of a build, the     *)
(* failed one included, releases it.                                       *)
(*                                                                         *)
(* What TypeOK leaves out is added: a request has the fields of NoRequest, *)
(* its sources are workspaces, one at least while it filters an index, and *)
(* no schema is ahead of the edits.                                        *)
(***************************************************************************)
EXTENDS OpenAPI, WellFoundedInduction, TLAPS

Fields == {"pc", "generation", "revision", "announced", "group", "sources",
           "document", "fetched", "failed"}

\* A record with the fields of NoRequest.
IsRequest(q) == q = [f \in Fields |-> q[f]]

Requests ==
  /\ request = [r \in Requesters |-> request[r]]
  /\ \A r \in Requesters : /\ IsRequest(request[r])
                           /\ request[r].sources \in Seq(Workspaces)
                           /\ request[r].pc = "filter" => request[r].sources # <<>>

\* Every refresh found what an earlier edit left.
Edited ==
  /\ edits \in 0..MaxEdits
  /\ \A w \in Workspaces, g \in Groups : schema[w][g] <= 2 * edits + 1

IInv == TypeOK /\ Requests /\ Edited

\* The bounds and the configurations.
LEMMA Bounds ==
  /\ MaxEdits \in Nat /\ MaxGeneration \in Nat /\ 1 <= MaxGeneration
  /\ Configurations \subseteq Seq(Workspaces) /\ FirstConfiguration \in Configurations
  /\ Converting \in Workspaces /\ None \notin Requesters
  BY OpenAPIAssumption

\* What set does to a request.
LEMMA SetFields ==
  ASSUME Requests, NEW r \in Requesters, NEW fields, set(r, fields),
         DOMAIN fields \subseteq Fields
  PROVE  /\ request' = [q \in Requesters |-> request'[q]]
         /\ \A q \in Requesters \ {r} : request'[q] = request[q]
         /\ IsRequest(request'[r])
         /\ \A f \in Fields : request'[r][f] = IF f \in DOMAIN fields THEN fields[f]
                                               ELSE request[r][f]
<1> DEFINE new == [f \in DOMAIN request[r] |-> IF f \in DOMAIN fields THEN fields[f]
                                                ELSE request[r][f]]
<1>1. request' = [request EXCEPT ![r] = new]
  BY Zenon DEF set
<1>2. DOMAIN request[r] = Fields
  BY DEF Requests, IsRequest
<1>3. new = [f \in Fields |-> IF f \in DOMAIN fields THEN fields[f] ELSE request[r][f]]
  BY <1>2
<1> HIDE DEF new
<1>4. /\ request' = [q \in Requesters |-> request'[q]] /\ request'[r] = new
      /\ \A q \in Requesters \ {r} : request'[q] = request[q]
  BY <1>1 DEF Requests
<1> QED BY <1>3, <1>4 DEF IsRequest

\* A request that begins or is over has the fields of NoRequest too.
LEMMA Fresh ==
  /\ IsRequest(NoRequest) /\ NoRequest.pc = "idle" /\ NoRequest.sources = <<>>
  /\ NoRequest.failed = {} /\ DOMAIN NoRequest = Fields
<1>1. DOMAIN NoRequest = Fields
  BY DEF NoRequest, Fields
<1>2. NoRequest = [f \in DOMAIN NoRequest |-> NoRequest[f]]
  BY DEF NoRequest
<1> QED BY <1>1, <1>2 DEF IsRequest, NoRequest

Held == {"check", "fetch", "filter", "failed"}

\* A step of one requester.  It keeps the lock, takes it or releases it.
LEMMA RequestPreserves ==
  ASSUME IInv, NEW r \in Requesters, UNCHANGED <<world, kind>>,
         request' = [q \in Requesters |-> request'[q]],
         \A q \in Requesters \ {r} : request'[q] = request[q],
         IsRequest(request'[r]),
         request'[r].sources \in Seq(Workspaces), request'[r].failed \subseteq Workspaces,
         request'[r].pc \in {"idle", "lock", "check", "fetch", "filter",
                             "failed", "owns", "source", "spec"},
         request'[r].pc = "filter" => request'[r].sources # <<>>,
         \/ cache' = cache
         \/ cache'.built = TRUE /\ cache'.failed \subseteq Workspaces,
         \/ mu' = mu /\ (request'[r].pc \in Held <=> request[r].pc \in Held)
         \/ mu = None /\ mu' = r /\ request'[r].pc \in Held
         \/ mu = r /\ mu' = None /\ request'[r].pc \notin Held
  PROVE  IInv'
<1> USE DEF IInv
<1>1. UNCHANGED <<schema, edits, seen, announced, generation, workspaces, kind>>
  BY DEF world
<1>2. Requests' /\ Edited'
  BY <1>1 DEF Requests, Edited
<1>3. cache'.failed \subseteq Workspaces /\ (cache'.built <=> cache' # NotBuilt)
  <2>1. CASE cache' = cache
    BY <2>1 DEF TypeOK
  <2>2. CASE cache'.built = TRUE /\ cache'.failed \subseteq Workspaces
    <3>1. NotBuilt.built = FALSE
      BY DEF NotBuilt
    <3> QED BY <2>2, <3>1
  <2> QED BY <2>1, <2>2
<1>4. mu' \in Requesters \cup {None}
  BY DEF TypeOK
<1>5. \A q \in Requesters : mu' = q <=> request'[q].pc \in Held
  BY Bounds DEF TypeOK, Held
<1>6. \A q \in Requesters :
        /\ request'[q].pc \in {"idle", "lock", "check", "fetch", "filter",
                               "failed", "owns", "source", "spec"}
        /\ request'[q].failed \subseteq Workspaces
  BY DEF TypeOK
<1>7. TypeOK'
  BY <1>1, <1>3, <1>4, <1>5, <1>6 DEF TypeOK, Schemas, Held
<1> QED BY <1>2, <1>7

\* kcp, the caches and the configuration.
LEMMA WorldPreserves ==
  ASSUME IInv,
         \/ \E w \in Workspaces, g \in Groups, by \in {1, 2} : EditCRD(w, g, by)
         \/ \E w \in Workspaces : StoreSnapshot(w) \/ Announce(w)
         \/ \E c \in Configurations : Replace(c)
  PROVE  IInv'
<1> USE Bounds DEF IInv
<1>0. /\ schema \in [Workspaces -> [Groups -> 0..(2 * MaxEdits + 1)]]
      /\ seen \in [Workspaces -> [Groups -> 0..(2 * MaxEdits + 1)]]
      /\ announced \in [Workspaces -> [Groups -> 0..(2 * MaxEdits + 1)]]
      /\ generation \in [Workspaces -> 1..MaxGeneration]
  BY DEF TypeOK, Schemas
<1>1. ASSUME NEW w \in Workspaces, NEW g \in Groups, NEW by \in {1, 2}, EditCRD(w, g, by)
      PROVE  IInv'
  <2> DEFINE row == [schema[w] EXCEPT ![g] = schema[w][g] + by]
  <2>1. /\ edits < MaxEdits /\ edits' = edits + 1
        /\ schema' = [schema EXCEPT ![w] = row]
        /\ UNCHANGED <<seen, announced, generation, workspaces, revision, failures,
                       cache, mu, request, kind>>
    BY <1>1 DEF EditCRD
  <2>2. edits' \in 0..MaxEdits
    BY <2>1 DEF Edited
  <2>3. schema[w][g] \in Nat /\ schema[w][g] + by <= 2 * edits' + 1
    <3>1. /\ schema[w][g] \in Nat /\ edits \in Nat /\ schema[w][g] <= 2 * edits + 1
          /\ by \in Nat /\ by <= 2
      BY <1>0 DEF Edited
    <3> QED BY <2>1, <3>1
  <2>4. schema[w][g] + by \in 0..(2 * MaxEdits + 1)
    <3>1. ASSUME NEW n \in Nat, NEW e \in 0..n, NEW k \in Nat, k <= 2 * e + 1
          PROVE  k \in 0..(2 * n + 1)
      BY ONLY <3>1
    <3>2. schema[w][g] + by \in Nat /\ MaxEdits \in Nat
      BY <2>3
    <3> QED BY ONLY <2>2, <2>3, <3>1, <3>2
  <2>5. row \in [Groups -> 0..(2 * MaxEdits + 1)]
    BY <1>0, <2>4
  <2>6. /\ row[g] = schema[w][g] + by /\ \A h \in Groups \ {g} : row[h] = schema[w][h]
    BY <1>0
  <2> HIDE DEF row
  <2>7. schema' \in [Workspaces -> [Groups -> 0..(2 * MaxEdits + 1)]]
    BY <1>0, <2>1, <2>5
  <2>8. ASSUME NEW x \in Workspaces, NEW h \in Groups
        PROVE  schema'[x][h] <= 2 * edits' + 1
    <3>1. schema[x][h] \in Nat /\ schema[x][h] <= 2 * edits + 1 /\ edits \in Nat
      BY <1>0 DEF Edited
    <3>2. schema[x][h] <= 2 * edits' + 1
      BY <2>1, <3>1
    <3>3. schema'[x][h] = schema[x][h] \/ schema'[x][h] = schema[w][g] + by
      BY <1>0, <2>1, <2>6
    <3> QED BY <2>3, <3>2, <3>3
  <2>9. TypeOK'
    BY <2>1, <2>7 DEF TypeOK, Schemas
  <2>10. Requests' /\ Edited'
    BY <2>1, <2>2, <2>8 DEF Requests, Edited
  <2> QED BY <2>9, <2>10
<1>2. ASSUME NEW w \in Workspaces, StoreSnapshot(w) PROVE IInv'
  <2>1. /\ seen' = [seen EXCEPT ![w] = schema[w]]
        /\ UNCHANGED <<schema, edits, announced, generation, workspaces, revision,
                       failures, cache, mu, request, kind>>
    BY <1>2 DEF StoreSnapshot
  <2>2. seen' \in Schemas
    BY <1>0, <2>1 DEF Schemas
  <2> QED BY <2>1, <2>2 DEF TypeOK, Requests, Edited
<1>3. ASSUME NEW w \in Workspaces, Announce(w) PROVE IInv'
  <2>1. /\ generation[w] < MaxGeneration
        /\ generation' = [generation EXCEPT ![w] = generation[w] + 1]
        /\ announced' = [announced EXCEPT ![w] = seen[w]]
        /\ UNCHANGED <<schema, edits, seen, workspaces, revision, failures, cache,
                       mu, request, kind>>
    BY <1>3 DEF Announce
  <2>2. announced' \in Schemas
    BY <1>0, <2>1 DEF Schemas
  <2>3. generation[w] + 1 \in 1..MaxGeneration
    BY <1>0, <2>1
  <2>4. generation' \in [Workspaces -> 1..MaxGeneration]
    BY <1>0, <2>1, <2>3
  <2> QED BY <2>1, <2>2, <2>4 DEF TypeOK, Requests, Edited
<1>4. ASSUME NEW c \in Configurations, Replace(c) PROVE IInv'
  <2>1. /\ workspaces' = c
        /\ UNCHANGED <<schema, edits, seen, announced, generation, failures, cache,
                       mu, request, kind>>
    BY <1>4 DEF Replace
  <2> QED BY <2>1 DEF TypeOK, Requests, Edited
<1> QED BY <1>1, <1>2, <1>3, <1>4

\* The requests for a cached document and for the policy's CRDs.
LEMMA DocumentPreserves ==
  ASSUME IInv, NEW r \in Requesters,
         \/ AskDocument(r) \/ Lock(r) \/ Hit(r) \/ Miss(r) \/ Fetch(r) \/ Filter(r)
         \/ FetchFails(r) \/ Store(r) \/ BuildFails(r)
  PROVE  IInv'
<1>0. /\ Requests /\ IsRequest(request[r]) /\ request[r].sources \in Seq(Workspaces)
      /\ request[r].failed \subseteq Workspaces /\ fetchers \in Seq(Workspaces)
      /\ request[r].pc \in {"idle", "lock", "check", "fetch", "filter",
                            "failed", "owns", "source", "spec"}
      /\ mu = r <=> request[r].pc \in Held
  BY Bounds DEF IInv, TypeOK, Requests, fetchers, Held
<1>1. CASE AskDocument(r)
  <2> DEFINE new == [NoRequest EXCEPT !.pc = "lock", !.generation = Generation,
                       !.revision = revision, !.announced = announced]
  <2>1. /\ request[r].pc = "idle" /\ request' = [request EXCEPT ![r] = new]
        /\ UNCHANGED <<world, kind, cache, mu>>
    BY <1>1 DEF AskDocument
  <2>2. /\ new.pc = "lock" /\ new.sources = <<>> /\ new.failed = {}
        /\ IsRequest(new)
    BY Fresh DEF IsRequest, Fields
  <2> HIDE DEF new
  <2>3. /\ request' = [q \in Requesters |-> request'[q]] /\ request'[r] = new
        /\ \A q \in Requesters \ {r} : request'[q] = request[q]
    BY <1>0, <2>1 DEF Requests
  <2>4. new.sources \in Seq(Workspaces) /\ new.failed \subseteq Workspaces
    BY <2>2
  <2>5. "idle" \notin Held /\ "lock" \notin Held
    BY DEF Held
  <2> QED BY <2>1, <2>2, <2>3, <2>4, <2>5, RequestPreserves
<1>2. CASE Hit(r) \/ BuildFails(r) \/ Store(r)
  <2>1. /\ request[r].pc \in Held /\ request' = [request EXCEPT ![r] = NoRequest]
        /\ mu' = None /\ UNCHANGED <<world, kind>>
    BY <1>2 DEF Hit, BuildFails, Store, answer, over, Held
  <2>2. cache' = cache \/ (cache'.built = TRUE /\ cache'.failed \subseteq Workspaces)
    <3>1. CASE Hit(r) \/ BuildFails(r)
      BY <3>1 DEF Hit, BuildFails
    <3>2. CASE Store(r)
      BY <1>0, <3>2 DEF Store
    <3> QED BY <1>2, <3>1, <3>2
  <2>3. /\ request' = [q \in Requesters |-> request'[q]] /\ request'[r] = NoRequest
        /\ \A q \in Requesters \ {r} : request'[q] = request[q]
    BY <1>0, <2>1 DEF Requests
  <2>4. "idle" \notin Held
    BY DEF Held
  <2>5. NoRequest.sources \in Seq(Workspaces) /\ NoRequest.failed \subseteq Workspaces
    BY Fresh
  <2> QED BY <1>0, <2>1, <2>2, <2>3, <2>4, <2>5, Fresh, RequestPreserves
<1>3. ASSUME NEW fields, set(r, fields), DOMAIN fields \subseteq Fields,
             UNCHANGED <<world, kind, cache>>,
             "pc" \in DOMAIN fields => fields["pc"] \in Held,
             \/ "pc" \in DOMAIN fields /\ fields["pc"] # "filter"
             \/ "pc" \notin DOMAIN fields /\ request[r].pc # "filter"
             \/ "sources" \notin DOMAIN fields /\ request[r].sources # <<>>,
             "sources" \in DOMAIN fields => fields["sources"] \in Seq(Workspaces),
             "failed" \in DOMAIN fields => fields["failed"] \subseteq Workspaces,
             \/ mu' = mu /\ request[r].pc \in Held
             \/ mu = None /\ mu' = r /\ "pc" \in DOMAIN fields
      PROVE  IInv'
  <2>1. /\ request' = [q \in Requesters |-> request'[q]]
        /\ \A q \in Requesters \ {r} : request'[q] = request[q]
        /\ IsRequest(request'[r])
        /\ \A f \in Fields : request'[r][f] = IF f \in DOMAIN fields THEN fields[f]
                                              ELSE request[r][f]
    BY <1>0, <1>3, SetFields
  <2>2. "pc" \in Fields /\ "sources" \in Fields /\ "failed" \in Fields
    BY DEF Fields
  <2>3. request'[r].sources \in Seq(Workspaces) /\ request'[r].failed \subseteq Workspaces
    BY <1>0, <1>3, <2>1, <2>2
  <2>4. request'[r].pc \in Held
    <3>1. CASE "pc" \in DOMAIN fields
      BY <1>3, <2>1, <2>2, <3>1
    <3>2. CASE "pc" \notin DOMAIN fields
      BY <1>3, <2>1, <2>2, <3>2
    <3> QED BY <3>1, <3>2
  <2>5. request'[r].pc \in {"idle", "lock", "check", "fetch", "filter",
                            "failed", "owns", "source", "spec"}
    BY <2>4 DEF Held
  <2>6. request'[r].pc = "filter" => request'[r].sources # <<>>
    <3>1. CASE "pc" \in DOMAIN fields /\ fields["pc"] # "filter"
      BY <2>1, <2>2, <3>1
    <3>2. CASE "pc" \notin DOMAIN fields /\ request[r].pc # "filter"
      BY <2>1, <2>2, <3>2
    <3>3. CASE "sources" \notin DOMAIN fields /\ request[r].sources # <<>>
      BY <2>1, <2>2, <3>3
    <3> QED BY <1>3, <3>1, <3>2, <3>3
  <2> QED BY <1>3, <2>1, <2>3, <2>4, <2>5, <2>6, RequestPreserves
<1>4. CASE Lock(r)
  <2> DEFINE fields == [pc |-> "check",
                        generation |-> IF kind = "definitions" THEN Generation
                                       ELSE request[r].generation]
  <2>1. set(r, fields) /\ mu = None /\ mu' = r /\ UNCHANGED <<world, kind, cache>>
    BY <1>4 DEF Lock
  <2>2. /\ DOMAIN fields = {"pc", "generation"} /\ fields["pc"] = "check"
    OBVIOUS
  <2> HIDE DEF fields
  <2>3. DOMAIN fields \subseteq Fields /\ "pc" \in DOMAIN fields /\ "check" \in Held
        /\ "sources" \notin DOMAIN fields /\ "failed" \notin DOMAIN fields
    BY <2>2 DEF Fields, Held
  <2> QED BY <1>3, <2>1, <2>2, <2>3
<1>5. CASE Miss(r)
  <2> DEFINE fields == [pc |-> "fetch", sources |-> fetchers]
  <2>1. /\ set(r, fields) /\ request[r].pc \in Held /\ mu' = mu
        /\ UNCHANGED <<world, kind, cache>>
    BY <1>5 DEF Miss, Held
  <2>2. /\ DOMAIN fields = {"pc", "sources"} /\ fields["pc"] = "fetch"
        /\ fields["sources"] = fetchers
    OBVIOUS
  <2> HIDE DEF fields
  <2>3. DOMAIN fields \subseteq Fields /\ "fetch" \in Held /\ "failed" \notin DOMAIN fields
    BY <2>2 DEF Fields, Held
  <2> QED BY <1>0, <1>3, <2>1, <2>2, <2>3
<1>a. request[r].sources # <<>> =>
        /\ Head(request[r].sources) \in Workspaces
        /\ Tail(request[r].sources) \in Seq(Workspaces)
  BY <1>0
<1>6. CASE Fetch(r)
  <2> DEFINE w == Head(request[r].sources)
             one == [document |-> Merge(request[r].document, w, Groups, schema[w]),
                     fetched |-> TRUE, sources |-> Tail(request[r].sources)]
             two == [pc |-> "filter", group |-> schema[w]]
  <2>1. /\ set(r, one) \/ set(r, two)
        /\ request[r].pc = "fetch" /\ request[r].sources # <<>> /\ mu' = mu
        /\ UNCHANGED <<world, kind, cache>>
    BY <1>6 DEF Fetch
  <2>2. /\ DOMAIN one = {"document", "fetched", "sources"}
        /\ one["sources"] = Tail(request[r].sources)
        /\ DOMAIN two = {"pc", "group"} /\ two["pc"] = "filter"
    OBVIOUS
  <2> HIDE DEF one, two
  <2>3. /\ DOMAIN one \subseteq Fields /\ DOMAIN two \subseteq Fields /\ "filter" \in Held
        /\ "fetch" \in Held
        /\ "pc" \notin DOMAIN one /\ "failed" \notin DOMAIN one
        /\ "sources" \notin DOMAIN two /\ "failed" \notin DOMAIN two
    BY <2>2 DEF Fields, Held
  <2>4. CASE set(r, one)
    BY <1>3, <1>a, <2>1, <2>2, <2>3, <2>4
  <2>5. CASE set(r, two)
    BY <1>3, <2>1, <2>2, <2>3, <2>5
  <2> QED BY <2>1, <2>4, <2>5
<1>7. CASE Filter(r)
  <2> DEFINE fields == [pc |-> "fetch", group |-> None,
                        sources |-> Tail(request[r].sources),
                        document |-> Merge(request[r].document, Head(request[r].sources),
                                           ServedGroups, request[r].group)]
  <2>1. /\ set(r, fields) /\ request[r].pc = "filter" /\ mu' = mu
        /\ UNCHANGED <<world, kind, cache>>
    BY <1>7 DEF Filter
  <2>2. /\ DOMAIN fields = {"pc", "group", "sources", "document"}
        /\ fields["pc"] = "fetch" /\ fields["sources"] = Tail(request[r].sources)
    OBVIOUS
  <2> HIDE DEF fields
  <2>3. /\ DOMAIN fields \subseteq Fields /\ "fetch" \in Held /\ "filter" \in Held
        /\ "failed" \notin DOMAIN fields
    BY <2>2 DEF Fields, Held
  <2>4. request[r].sources # <<>>
    BY <1>0, <2>1 DEF Requests
  <2> QED BY <1>3, <1>a, <2>1, <2>2, <2>3, <2>4
<1>8. CASE FetchFails(r)
  <2> DEFINE one == [pc |-> "failed", sources |-> <<>>]
             two == [failed |-> request[r].failed \cup {Head(request[r].sources)},
                     sources |-> Tail(request[r].sources)]
  <2>1. /\ set(r, one) \/ set(r, two)
        /\ request[r].pc = "fetch" /\ request[r].sources # <<>> /\ mu' = mu
        /\ UNCHANGED <<world, kind, cache>>
    BY <1>8 DEF FetchFails
  <2>2. /\ DOMAIN one = {"pc", "sources"} /\ one["pc"] = "failed" /\ one["sources"] = <<>>
        /\ DOMAIN two = {"failed", "sources"}
        /\ two["failed"] = request[r].failed \cup {Head(request[r].sources)}
        /\ two["sources"] = Tail(request[r].sources)
    OBVIOUS
  <2> HIDE DEF one, two
  <2>3. /\ DOMAIN one \subseteq Fields /\ DOMAIN two \subseteq Fields /\ "failed" \in Held
        /\ "fetch" \in Held
        /\ "pc" \notin DOMAIN two /\ "failed" \notin DOMAIN one
        /\ <<>> \in Seq(Workspaces)
    BY <2>2 DEF Fields, Held
  <2>4. CASE set(r, one)
    BY <1>3, <2>1, <2>2, <2>3, <2>4
  <2>5. CASE set(r, two)
    BY <1>0, <1>3, <1>a, <2>1, <2>2, <2>3, <2>5
  <2> QED BY <2>1, <2>4, <2>5
<1> QED BY <1>1, <1>2, <1>4, <1>5, <1>6, <1>7, <1>8

\* Every set of numbers that is not empty has a least one.
LEMMA LeastNumber ==
  ASSUME NEW T, T \subseteq Nat, T # {}
  PROVE  \E n \in T : \A m \in T : n <= m
<1> DEFINE R == OpToRel(<, Nat)
<1>1. IsWellFoundedOn(R, Nat)
  BY NatLessThanWellFounded
<1>2. \A m, n \in Nat : m < n => <<m, n>> \in R
  BY DEF OpToRel
<1> HIDE DEF R
<1>3. PICK n \in T : \A m \in T : ~ (<<m, n>> \in R)
  BY <1>1, WFMin
<1>4. ASSUME NEW m \in T PROVE n <= m
  <2>1. m \in Nat /\ n \in Nat /\ ~(m < n)
    BY <1>2, <1>3
  <2> QED BY ONLY <2>1
<1> QED BY <1>3, <1>4

\* A group's workspace is one of the router's.
LEMMA FetcherIsWorkspace ==
  ASSUME IInv, NEW g, fetcherFor(g) # None
  PROVE  fetcherFor(g) \in Workspaces
<1> DEFINE serving == {i \in 1..Len(workspaces) : isServed(seen[workspaces[i]][g])}
<1>1. serving # {} /\ fetcherFor(g) = workspaces[Min(serving)]
  BY DEF fetcherFor
<1>2. workspaces \in Seq(Workspaces)
  BY Bounds DEF IInv, TypeOK
<1>3. serving \subseteq Nat
  OBVIOUS
<1>4. Min(serving) \in serving
  <2> HIDE DEF serving
  <2> QED BY <1>1, <1>3, LeastNumber DEF Min
<1> QED BY <1>1, <1>2, <1>4

\* The requests for one document of v3.
LEMMA SpecPreserves ==
  ASSUME IInv, NEW r \in Requesters,
         \/ \E g \in Groups : AskSpec(r, g)
         \/ OwnsSpec(r) \/ SourceForSpec(r) \/ FetchSpec(r)
  PROVE  IInv'
<1>0. /\ Requests /\ IsRequest(request[r]) /\ request[r].sources \in Seq(Workspaces)
      /\ request[r].failed \subseteq Workspaces
  BY DEF IInv, TypeOK, Requests
<1>a. /\ "idle" \notin Held /\ "owns" \notin Held /\ "source" \notin Held
      /\ "spec" \notin Held
  BY DEF Held
<1>1. CASE request[r].pc \in {"owns", "source", "spec"} /\ over(r)
           /\ UNCHANGED <<world, failures, cache, mu, kind>>
  <2>1. request' = [request EXCEPT ![r] = NoRequest]
    BY <1>1 DEF over
  <2>2. /\ request' = [q \in Requesters |-> request'[q]] /\ request'[r] = NoRequest
        /\ \A q \in Requesters \ {r} : request'[q] = request[q]
    BY <1>0, <2>1 DEF Requests
  <2>3. NoRequest.sources \in Seq(Workspaces) /\ NoRequest.failed \subseteq Workspaces
    BY Fresh
  <2> QED BY <1>1, <1>a, <2>2, <2>3, Fresh, RequestPreserves
<1>2. ASSUME NEW g \in Groups, AskSpec(r, g) PROVE IInv'
  <2> DEFINE new == [NoRequest EXCEPT !.pc = "owns", !.group = g]
  <2>1. /\ request[r].pc = "idle" /\ request' = [request EXCEPT ![r] = new]
        /\ UNCHANGED <<world, kind, cache, mu>>
    BY <1>2 DEF AskSpec
  <2>2. /\ new.pc = "owns" /\ new.sources = <<>> /\ new.failed = {} /\ IsRequest(new)
    BY Fresh DEF IsRequest, Fields
  <2> HIDE DEF new
  <2>3. /\ request' = [q \in Requesters |-> request'[q]] /\ request'[r] = new
        /\ \A q \in Requesters \ {r} : request'[q] = request[q]
    BY <1>0, <2>1 DEF Requests
  <2>4. new.sources \in Seq(Workspaces) /\ new.failed \subseteq Workspaces
    BY <2>2
  <2> QED BY <1>a, <2>1, <2>2, <2>3, <2>4, RequestPreserves
<1>3. CASE OwnsSpec(r) /\ owns(request[r].group)
  <2> DEFINE fields == [pc |-> "source"]
  <2>1. /\ set(r, fields) /\ request[r].pc = "owns"
        /\ UNCHANGED <<world, kind, cache, mu>>
    BY <1>3 DEF OwnsSpec
  <2>2. DOMAIN fields = {"pc"} /\ fields["pc"] = "source"
    OBVIOUS
  <2> HIDE DEF fields
  <2>3. /\ request' = [q \in Requesters |-> request'[q]]
        /\ \A q \in Requesters \ {r} : request'[q] = request[q]
        /\ IsRequest(request'[r])
        /\ \A f \in Fields : request'[r][f] = IF f \in DOMAIN fields THEN fields[f]
                                              ELSE request[r][f]
    <3>1. DOMAIN fields \subseteq Fields
      BY <2>2 DEF Fields
    <3> QED BY <1>0, <2>1, <3>1, SetFields
  <2>4. "pc" \in Fields /\ "sources" \in Fields /\ "failed" \in Fields
    BY DEF Fields
  <2>5. /\ request'[r].pc = "source" /\ request'[r].sources = request[r].sources
        /\ request'[r].failed = request[r].failed
    BY <2>2, <2>3, <2>4
  <2> QED BY <1>0, <1>a, <2>1, <2>3, <2>5, RequestPreserves
<1>4. CASE SourceForSpec(r) /\ fetcherFor(request[r].group) # None
  <2> DEFINE w == fetcherFor(request[r].group)
             fields == [pc |-> "spec", sources |-> <<w>>]
  <2>1. /\ set(r, fields) /\ request[r].pc = "source"
        /\ UNCHANGED <<world, kind, cache, mu>>
    BY <1>4 DEF SourceForSpec
  <2>2. /\ DOMAIN fields = {"pc", "sources"} /\ fields["pc"] = "spec"
        /\ fields["sources"] = <<w>>
    OBVIOUS
  <2>3. w \in Workspaces
    BY <1>4, FetcherIsWorkspace
  <2> HIDE DEF fields, w
  <2>4. /\ request' = [q \in Requesters |-> request'[q]]
        /\ \A q \in Requesters \ {r} : request'[q] = request[q]
        /\ IsRequest(request'[r])
        /\ \A f \in Fields : request'[r][f] = IF f \in DOMAIN fields THEN fields[f]
                                              ELSE request[r][f]
    <3>1. DOMAIN fields \subseteq Fields
      BY <2>2 DEF Fields
    <3> QED BY <1>0, <2>1, <3>1, SetFields
  <2>5. "pc" \in Fields /\ "sources" \in Fields /\ "failed" \in Fields
    BY DEF Fields
  <2>6. /\ request'[r].pc = "spec" /\ request'[r].sources = <<w>>
        /\ request'[r].failed = request[r].failed
    BY <2>2, <2>4, <2>5
  <2>7. <<w>> \in Seq(Workspaces)
    BY <2>3
  <2> QED BY <1>0, <1>a, <2>1, <2>4, <2>6, <2>7, RequestPreserves
<1>5. CASE OwnsSpec(r) /\ ~owns(request[r].group)
  BY <1>1, <1>5 DEF OwnsSpec
<1>6. CASE SourceForSpec(r) /\ fetcherFor(request[r].group) = None
  BY <1>1, <1>6 DEF SourceForSpec
<1>7. CASE FetchSpec(r)
  BY <1>1, <1>7 DEF FetchSpec
<1> QED BY <1>2, <1>3, <1>4, <1>5, <1>6, <1>7

\* Every workspace has been read when the server starts.
LEMMA InitInvariant == Init => IInv
<1> SUFFICES ASSUME Init PROVE IInv
  OBVIOUS
<1>1. schema \in Schemas /\ seen \in Schemas /\ announced \in Schemas
  BY Bounds DEF Init, Schemas
<1>2. generation \in [Workspaces -> 1..MaxGeneration]
  BY Bounds DEF Init
<1>3. request = [r \in Requesters |-> request[r]] /\ \A r \in Requesters : request[r] = NoRequest
  BY DEF Init
<1>4. Requests
  <2>1. NoRequest.sources \in Seq(Workspaces) /\ NoRequest.pc # "filter"
    BY Fresh
  <2> QED BY <1>3, <2>1, Fresh DEF Requests
<1>5. Edited
  BY Bounds DEF Init, Edited
<1>6. TypeOK
  <2>1. workspaces \in Configurations /\ kind \in Kinds /\ mu = None
    BY Bounds DEF Init
  <2>2. cache.failed \subseteq Workspaces /\ (cache.built <=> cache # NotBuilt)
    BY DEF Init, NotBuilt
  <2> QED BY <1>1, <1>2, <1>3, <2>1, <2>2, Fresh, Bounds DEF TypeOK
<1> QED BY <1>4, <1>5, <1>6 DEF IInv

\* The inductive invariant holds.
THEOREM Invariance == Spec => []IInv
<1>1. IInv /\ [Next]_vars => IInv'
  <2> SUFFICES ASSUME IInv, [Next]_vars PROVE IInv'
    OBVIOUS
  <2>1. CASE UNCHANGED vars
    BY <2>1 DEF IInv, TypeOK, Requests, Edited, vars, world
  <2>2. CASE Next
    BY <2>2, WorldPreserves, DocumentPreserves, SpecPreserves DEF Next, Serve
  <2> QED BY <2>1, <2>2
<1> QED BY <1>1, InitInvariant, PTL DEF Spec

\* openapicache.go:42-67: at most one request builds the document, it holds
\* documentCache.mu exactly while it looks at the cache or builds, and nothing
\* but a finished build fills the cache.
THEOREM TypeCorrect == Spec => []TypeOK
<1>1. IInv => TypeOK
  BY DEF IInv
<1> QED BY <1>1, Invariance, PTL
=============================================================================
