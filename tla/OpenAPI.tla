------------------------------- MODULE OpenAPI -------------------------------
(***************************************************************************)
(* The OpenAPI documents and their cache (pkg/apiserver/openapi.go and     *)
(* openapicache.go, with the fetchers of router.go), and the CRDs that the *)
(* conversion policy of a workspace holds (conversion.go).                 *)
(*                                                                         *)
(* /openapi/v3, the index, and /openapi/v2 are built by asking every       *)
(* workspace in turn, under a lock that requests for the same document     *)
(* wait for, and kept until the sum of the workspaces' generations, read   *)
(* before the lock, is another one.  A v3 document is fetched every time.  *)
(* The policy goes by the generation of its own workspace, read under its  *)
(* lock.                                                                   *)
(*                                                                         *)
(* A schema is the number of the edit of its CRD that made it, odd while   *)
(* the group is served.  Each group stands for its one group version.      *)
(***************************************************************************)
EXTENDS Naturals, Sequences, FiniteSets, FiniteSetsExt

CONSTANTS
  Workspaces, Groups,
  Publishes,        \* the groups whose CRDs each workspace may hold
  Configurations,   \* the sequences of workspaces replace may be given
  FirstConfiguration,
  Converting,       \* the workspace whose conversion policy is looked at
  Requesters,
  MaxEdits,         \* bound: changes of CRDs
  MaxGeneration,    \* bound: refreshes of one workspace
  MaxReplacements,  \* bound: reloads of the configuration
  MaxFailures,      \* bound: fetches that fail
  None

ASSUME OpenAPIAssumption ==
  /\ Publishes \in [Workspaces -> SUBSET Groups]
  /\ Configurations \subseteq Seq(Workspaces)
  /\ FirstConfiguration \in Configurations
  /\ Converting \in Workspaces
  /\ MaxEdits \in Nat
  /\ MaxGeneration \in Nat \ {0}
  /\ None \notin Requesters

VARIABLES
  schema,      \* what each workspace serves in kcp
  edits,
  seen,        \* what its last refresh found
  announced,   \* what it had found when its generation was last advanced
  generation,  \* ResourceCache.generation
  workspaces,  \* router.workspaces
  revision,    \* how often it was replaced
  failures,
  kind,        \* which of the cached documents this is about
  cache,       \* its documentCache, with the history of what it holds
  mu,          \* the holder of documentCache.mu
  request      \* the request each requester is making

world == <<schema, edits, seen, announced, generation, workspaces, revision>>
vars == <<world, failures, kind, cache, mu, request>>

Kinds == {"index", "v2", "definitions"}
Schemas == [Workspaces -> [Groups -> 0..(2 * MaxEdits + 1)]]
Members(seq) == {seq[i] : i \in 1..Len(seq)}
isServed(n) == n % 2 = 1

\* A document: the schema of every group in it, and whose it is.
NoDocument == [g \in Groups |-> None]
Merge(document, w, groups, schemas) ==
  [g \in Groups |-> IF g \in groups /\ isServed(schemas[g])
                    THEN [from |-> w, schema |-> schemas[g]] ELSE document[g]]
Only(document, groups) ==
  [g \in Groups |-> IF g \in groups THEN document[g] ELSE None]

NotBuilt == [built |-> FALSE, generation |-> 0, document |-> NoDocument,
             failed |-> {}, set |-> None]
NoRequest == [pc |-> "idle", generation |-> 0, revision |-> 0,
              announced |-> None, group |-> None, sources |-> <<>>,
              document |-> NoDocument, fetched |-> FALSE, failed |-> {}]

-----------------------------------------------------------------------------
(* router *)

owns(g) == \E w \in Members(workspaces) : isServed(seen[w][g])
ServedGroups == {g \in Groups : owns(g)}

\* The workspaces a document is made from.
fetchers == IF kind = "definitions" THEN <<Converting>> ELSE workspaces
Generation == MapThenSumSet(LAMBDA w : generation[w], Members(fetchers))

\* servingFor: the first workspace that serves the group.
fetcherFor(g) ==
  LET serving == {i \in 1..Len(workspaces) : isServed(seen[workspaces[i]][g])}
  IN IF serving = {} THEN None ELSE workspaces[Min(serving)]

-----------------------------------------------------------------------------
TypeOK ==
  /\ schema \in Schemas /\ seen \in Schemas /\ announced \in Schemas
  /\ generation \in [Workspaces -> 1..MaxGeneration]
  /\ workspaces \in Configurations
  /\ kind \in Kinds
  /\ cache.failed \subseteq Workspaces /\ (cache.built <=> cache # NotBuilt)
  /\ mu \in Requesters \cup {None}
  /\ \A r \in Requesters :
       /\ request[r].pc \in {"idle", "lock", "check", "fetch", "filter",
                             "failed", "owns", "source", "spec"}
       /\ request[r].failed \subseteq Workspaces
       \* The lock is held exactly from check to the answer.
       /\ mu = r <=> request[r].pc \in {"check", "fetch", "filter", "failed"}

\* Every workspace has been read once, by launch.
Init ==
  /\ schema = [w \in Workspaces |->
                 [g \in Groups |-> IF g \in Publishes[w] THEN 1 ELSE 0]]
  /\ seen = schema /\ announced = schema
  /\ generation = [w \in Workspaces |-> 1]
  /\ workspaces = FirstConfiguration
  /\ edits = 0 /\ revision = 0 /\ failures = 0
  /\ kind \in Kinds
  /\ cache = NotBuilt
  /\ mu = None
  /\ request = [r \in Requesters |-> NoRequest]

\* A CRD is created or removed (by one), or its schema edited (by two).
EditCRD(w, g, by) ==
  /\ edits < MaxEdits
  /\ g \in Publishes[w]
  /\ by = 2 => isServed(schema[w][g])
  /\ schema' = [schema EXCEPT ![w][g] = @ + by]
  /\ edits' = edits + 1
  /\ UNCHANGED <<seen, announced, generation, workspaces, revision, failures,
                 cache, mu, request, kind>>

\* ResourceCache.refresh: the snapshot is stored, then the generation moves.
StoreSnapshot(w) ==
  /\ generation[w] < MaxGeneration
  /\ seen[w] # schema[w]
  /\ seen' = [seen EXCEPT ![w] = schema[w]]
  /\ UNCHANGED <<schema, edits, announced, generation, workspaces, revision,
                 failures, cache, mu, request, kind>>

Announce(w) ==
  /\ generation[w] < MaxGeneration
  /\ generation' = [generation EXCEPT ![w] = @ + 1]
  /\ announced' = [announced EXCEPT ![w] = seen[w]]
  /\ UNCHANGED <<schema, edits, seen, workspaces, revision, failures, cache,
                 mu, request, kind>>

Replace(set) ==
  /\ revision < MaxReplacements
  /\ set # workspaces
  /\ workspaces' = set
  /\ revision' = revision + 1
  /\ UNCHANGED <<schema, edits, seen, announced, generation, failures, cache,
                 mu, request, kind>>

-----------------------------------------------------------------------------
(* serveDiscovery and serveV2: documentCache.get; conversionPolicy.relabels *)

set(r, fields) ==
  request' = [request EXCEPT ![r] =
                [f \in DOMAIN @ |-> IF f \in DOMAIN fields THEN fields[f]
                                    ELSE @[f]]]

\* The generation is read; the request may then wait for the lock.
AskDocument(r) ==
  /\ request[r].pc = "idle"
  /\ request' = [request EXCEPT ![r] =
                   [NoRequest EXCEPT !.pc = "lock",
                      !.generation = Generation, !.revision = revision,
                      !.announced = announced]]
  /\ UNCHANGED <<world, failures, cache, mu, kind>>

\* relabels reads the generation only now.
Lock(r) ==
  /\ request[r].pc = "lock"
  /\ mu = None
  /\ mu' = r
  /\ set(r, [pc |-> "check",
             generation |-> IF kind = "definitions" THEN Generation
                            ELSE request[r].generation])
  /\ UNCHANGED <<world, failures, cache, kind>>

over(r) == request' = [request EXCEPT ![r] = NoRequest]

\* The request is over, and the lock is released.
answer(r) == over(r) /\ mu' = None

Hit(r) ==
  /\ request[r].pc = "check"
  /\ cache.built /\ cache.generation = request[r].generation
  /\ answer(r)
  /\ UNCHANGED <<world, failures, cache, kind>>

\* build begins with sources().
Miss(r) ==
  /\ request[r].pc = "check"
  /\ ~cache.built \/ cache.generation # request[r].generation
  /\ set(r, [pc |-> "fetch", sources |-> fetchers])
  /\ UNCHANGED <<world, failures, cache, mu, kind>>

\* buildV2 and relabels collect every CRD, buildIndex looks at each index in
\* turn.
Fetch(r) ==
  LET w == Head(request[r].sources)
  IN /\ request[r].pc = "fetch" /\ request[r].sources # <<>>
     /\ IF kind # "index"
        THEN set(r, [document |-> Merge(request[r].document, w, Groups, schema[w]),
                     fetched |-> TRUE, sources |-> Tail(request[r].sources)])
        ELSE set(r, [pc |-> "filter", group |-> schema[w]])
     /\ UNCHANGED <<world, failures, cache, mu, kind>>

\* buildIndex keeps what spillway serves by now.
Filter(r) ==
  /\ request[r].pc = "filter"
  /\ set(r, [pc |-> "fetch", group |-> None, sources |-> Tail(request[r].sources),
             document |-> Merge(request[r].document, Head(request[r].sources),
                                ServedGroups, request[r].group)])
  /\ UNCHANGED <<world, failures, cache, mu, kind>>

\* A workspace that does not answer fails the index, and the policy's only
\* source the policy.  It is left out of v2, which only fails if no workspace
\* answers.
FetchFails(r) ==
  LET left == Tail(request[r].sources)
  IN /\ request[r].pc = "fetch" /\ request[r].sources # <<>>
     /\ failures < MaxFailures
     /\ failures' = failures + 1
     /\ IF kind = "index" \/ (left = <<>> /\ ~request[r].fetched)
        THEN set(r, [pc |-> "failed", sources |-> <<>>])
        ELSE set(r, [failed |-> request[r].failed \cup {Head(request[r].sources)},
                     sources |-> left])
     /\ UNCHANGED <<world, cache, mu, kind>>

\* Faulty: the document is filed under the generation as it is by now.
Store_Now(r) ==
  LET document == IF kind = "v2"
                  THEN Only(request[r].document, ServedGroups)
                  ELSE request[r].document
      fresh == [built |-> TRUE, generation |-> Generation,
                document |-> document, failed |-> request[r].failed,
                set |-> IF request[r].revision = revision THEN revision ELSE None]
  IN /\ request[r].pc = "fetch" /\ request[r].sources = <<>>
     /\ cache' = fresh
     /\ answer(r)
     /\ UNCHANGED <<world, failures, kind>>

\* The document is filed under the generation read before the lock.
Store(r) ==
  LET document == IF kind = "v2"
                  THEN Only(request[r].document, ServedGroups)
                  ELSE request[r].document
      fresh == [built |-> TRUE, generation |-> request[r].generation,
                document |-> document, failed |-> request[r].failed,
                set |-> IF request[r].revision = revision THEN revision ELSE None]
  IN /\ request[r].pc = "fetch" /\ request[r].sources = <<>>
     /\ cache' = fresh
     /\ answer(r)
     /\ UNCHANGED <<world, failures, kind>>

\* Faulty: the lock is not released when the build fails.
BuildFails_Locked(r) ==
  /\ request[r].pc = "failed"
  /\ over(r)
  /\ UNCHANGED <<world, failures, cache, mu, kind>>

\* A failed build answers with what is held, still of its older generation, or
\* with 503 if nothing is; relabels answers no.
BuildFails(r) ==
  /\ request[r].pc = "failed"
  /\ answer(r)
  /\ UNCHANGED <<world, failures, cache, kind>>

-----------------------------------------------------------------------------
(* serveSpec *)

AskSpec(r, g) ==
  /\ request[r].pc = "idle"
  /\ request' = [request EXCEPT ![r] =
                   [NoRequest EXCEPT !.pc = "owns", !.group = g]]
  /\ UNCHANGED <<world, failures, cache, mu, kind>>

OwnsSpec(r) ==
  /\ request[r].pc = "owns"
  /\ IF owns(request[r].group) THEN set(r, [pc |-> "source"])
     ELSE over(r)
  /\ UNCHANGED <<world, failures, cache, mu, kind>>

\* The group's workspace is asked for again, and may be gone.
SourceForSpec(r) ==
  LET w == fetcherFor(request[r].group)
  IN /\ request[r].pc = "source"
     /\ IF w = None THEN over(r)
        ELSE set(r, [pc |-> "spec", sources |-> <<w>>])
     /\ UNCHANGED <<world, failures, cache, mu, kind>>

\* What the workspace answers is passed on.
FetchSpec(r) ==
  /\ request[r].pc = "spec"
  /\ over(r)
  /\ UNCHANGED <<world, failures, cache, mu, kind>>

-----------------------------------------------------------------------------
Serve(r) ==
  \/ Hit(r) \/ Miss(r) \/ Fetch(r) \/ Filter(r) \/ FetchFails(r) \/ Store(r)
  \/ BuildFails(r) \/ OwnsSpec(r) \/ SourceForSpec(r) \/ FetchSpec(r)

Next ==
  \/ \E w \in Workspaces, g \in Groups, by \in {1, 2} : EditCRD(w, g, by)
  \/ \E w \in Workspaces : StoreSnapshot(w) \/ Announce(w)
  \/ \E c \in Configurations : Replace(c)
  \/ \E r \in Requesters :
       \/ AskDocument(r) \/ Lock(r) \/ Serve(r)
       \/ \E g \in Groups : AskSpec(r, g)

Spec == Init /\ [][Next]_vars

-----------------------------------------------------------------------------
(* Properties *)

\* Nothing that had been announced when the request came is missing from the
\* document, or older in it, unless its workspace did not answer.
Describes(document, failed, asked) ==
  \A g \in Groups :
    IF document[g] # None
    THEN document[g].schema >= asked.announced[document[g].from][g]
    ELSE \A w \in Members(fetchers) \ failed :
           isServed(asked.announced[w][g]) => schema[w][g] # asked.announced[w][g]

\* A request for the document is answered with what the cache now holds.
Answered(r) == mu = r /\ mu' = None /\ request[r].pc # "failed"

\* openapicache.go:18, "any change to one advances the generation and the
\* document is rebuilt on the next request": as long as the set of workspaces
\* is the one it was built for, a document that is handed out describes all
\* that had been announced when it was asked for, although its generation was
\* read before the wait for the lock and the workspaces were asked after it.
AnswersAreCurrent ==
  [][\A r \in Requesters :
       Answered(r) /\ request[r].revision = revision /\ cache'.set = revision =>
         Describes(cache'.document, cache'.failed, request[r])]_vars

=============================================================================
