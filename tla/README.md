# A TLA+ model of spillway

Spillway is an aggregated API server: it puts the API groups of one or more kcp
workspaces in front of a Kubernetes cluster.  It reads each workspace's
discovery, merges what they serve, answers discovery and OpenAPI from that,
proxies resource requests to the workspace that serves the group, and keeps the
cluster's APIServices in step.  This directory holds TLA+ modules for the parts
of it where goroutines, replicas, failures and the clock meet, the TLC runs
that check them, and TLAPS proofs of what matters most.

## The system

| component | state | operations | what makes it correct |
|---|---|---|---|
| backend transport (`backend.go`) | breaker: state, failures, openUntil, probing | RoundTrip, allow, record, retries | a half-open circuit always has a probe on its way; nothing unsafe is replayed; the circuit never stays shut |
| router (`router.go`) | workspaces, revision, merged | replace, Generation, current | a reader never gets less than what was published before it asked |
| resource cache (`kcp/discovery.go`) | snapshot, synced, generation | Refresh, Run | an untouched group never disappears; the cache converges |
| watch (`kcp/watch.go`) | one-slot channel | notify | a dropped signal loses no change |
| registrar (`apiservices.go`, `clusterapis.go`) | the cluster's APIServices, `warned` | reconcile, foreign | only spillway's own are written; what is served is not withdrawn; APIServices converge |
| leader election (`leader.go`) | leading | callbacks, leads | one writer; someone writes |
| start-up hook, health (`apiserver.go`) | wiring | hook, readyz, group checks | nothing is acted on before it has been read |
| workspace manager (`workspacemanager.go`) | running workspaces | start, launch, reconcile, stop | the running set follows the configuration, one bad entry does not hold back the rest |
| group patterns (`kcp/groups.go`), configuration (`cmd/server`) | none | parse, match, validate | exact names are claimed once |
| discovery handler (`discovery.go`) | published groups | serve, publish | what is published is what is served |
| OpenAPI (`openapi.go`, `openapicache.go`), conversion policy (`conversion.go`) | documents by generation | get, build, relabels | a document never outlives the API surface it was built from |
| write path (`proxy.go`, `ownerrefs.go`, `admission.go`, `admissionmatch.go`, `backendclient.go`) | none kept | ServeHTTP, inspectWrite, run, runPatch | no write reaches kcp past the checks that apply to it |
| credentials (`credentials.go`) | token, digest | reload, run | a rotated credential is picked up |
| namespace mirror (`namespaces.go`) | remembered namespaces | ensure | a namespaced write finds its namespace |
| metrics, clients, authorization options, scheme, version, main | | | not modelled: no protocol of their own |

How they interact: the start-up hook starts the election, then the manager,
which launches each workspace (first refresh, then informers, then the Run
loop) and, after the last one, puts all of them into the router at once.  Every refresh calls
onChange, which publishes discovery and reconciles the APIServices; so do the
hook, a reload of the configuration and an election.  Nothing serialises these
callers.  Requests read the router's merged view and go through the backend
transport of the workspace that serves the group.

Hard behaviours, all listed with their lines under `hazards` in PROJECT.json:
labels assembled from several atomic loads, late outcomes recorded into a
breaker that has moved on, signals that are dropped because one is pending,
refreshes made of many requests, reconcile rounds that overlap each other and
operators, leadership that ends in the middle of a round, callbacks that run
before what they need is there, a configuration that changes while it is being
applied, publishes that overtake each other, documents built while what they
describe changes, and writes whose checks and whose effect lie several calls to
kcp apart.

## Modules

**CircuitBreaker** models `backend.go`.  A member of `Requests` is a goroutine
that calls `RoundTrip` over and over; `pc` says where it is.  `Begin` and
`FailFast` are the two outcomes of `allow`, `AttemptReturns`, `Retry` and
`GiveUp` the loop of `roundTripWithRetries`, `Record` is `record` and the
return.  `allow` and `record` hold the mutex for their whole body, so each is
one step.  `cooldown` is `openUntil - now`.  kcp is a flag `up`; a 4xx is an
"ok", since `record` treats it so.  The histories `probes` and `streak` are
there for the properties alone.

**Router** models `router.go` and the three stores of `ResourceCache.refresh`.
Every atomic load and store is a step: `Call`, `SumOne` and `LoadRevision`
assemble the label, `FastPath` and `Lock` compare it, `StartMerge`, `MergeOne`
and `StoreMerged` rebuild the merge.  `StoreSnapshot`/`AddGeneration` and
`StoreWorkspaces`/`AddRevision` are the writers.  A snapshot is the number of
the refresh that made it and the set of groups in it.  A workspace enters the
set after its first refresh, as `launch` does it, and does not come back once
it has been replaced (a rebuilt workspace is a new instance).

**ResourceCache** models one workspace's `refresh` and `Run`, the informers of
`watch.go` and the order of `launch`.  The workspace's API surface is, per
group, the number of its last change and whether it is served.
`ServerGroups` and `ServerResources` are the requests of a refresh, between
which the surface may change; any of them may fail (`RequestFails`,
`VersionIsGone`).  One request stands for those of all versions of a group, and
what is read of a group bears the number it had when the groups were listed.
`Notify`
is the informer callback with the one-slot channel `changed`.

**Registrar** models `reconcile`, `foreign`, the election callbacks and the
hook for several replicas.  `Launch` starts the Run loop, `Hook` is the rest of
the hook from `router.replace` on; between them rounds meet a router without
workspaces.  A replica has one workspace here, which stands for all of them:
with several, the time between the first launch and `replace` is only longer.
A worker is one goroutine that reconciles: the hook, the Run loop, the election
callback.  Each request to the cluster is a
step (`ReadDiscovery`, `ReadRouting`, `List`, `Update`, `Delete`, `Create`), so
rounds interleave with each other and with operators.  `fresh` stands for
resourceVersions: a write to an APIService takes it out of `fresh` in every
round that has listed it, and an `Update` that is not fresh is a conflict.  The
workspace's refresh is one step here (ResourceCache has its inside).
client-go's elector and the Lease are external: `Acquire` and `LeaseExpires`.

**WorkspaceManager** models `start`, `run` and `reconcile` of
`workspacemanager.go`, the reading of the workspaces file (`loadWorkspaces`,
with **GroupMatcher** for `groups.go`) and the credentials of each workspace
(**Credentials**).  One goroutine goes through the entries: `Reload` reads the
file, `KeepRunning`, `Build` then `Launched`, or `LaunchFails` deal with one
entry each, `StopOld`, `Replace` and `OnChange` end the round.  Meanwhile the
file is edited (`EditFile`), kubeconfigs are rotated (`Rotate`), and every
running workspace reloads its credentials, whose file is read twice
(`ReadDigest`, `ReplaceTransport`).  What is replaced is the transport of the
proxy and its side channel (`current`); the discovery client and the informers
keep what the workspace was built from and are not modelled.  In `start` a failed launch ends the process
(`StartFails`), which begins anew.  A group name is a sequence of labels, and
an entry of `apiGroups` a record of what the parser tells apart; a kubeconfig is
the server it names and the number of its token, so no content comes back (a
file rolled back to the very content whose digest was remembered would not be
reloaded; that is left out); the per-workspace settings are
one value.  A workspace is a number, used again once nothing refers to it.

**ServedConfiguration** is the abstract specification: `wanted` is what the
configuration says, `serving` what requests are routed to.  The served set
changes in one step (`Apply`), in which a workspace that is not wanted leaves,
and one that is wanted is as configured or as it was.  `KeepsPromise` says that
WorkspaceManager implements it, with `desired` mapped to `wanted` and the
configurations of the router's set to `serving`.

**Discovery** models `discovery.go`.  Several goroutines run `publish`, each
write to `published`, `/apis` and aggregated discovery a step of its own; a
request (`Owns`, `ServeGroup`, `ServeUnderGroup`, `Forward`) reads the router
up to three times.  The set of workspaces (`Replace`) and the merged view
(`Merge`) change one after the other, the view as late as it likes.  `aggregatedVersion` is an operator, compared in
`ServedIsListed` with `Truth`, the plain set of what the resources say.

**OpenAPI** models `documentCache`, the builds of the v3 index and of v2, and
`serveSpec`; the conversion policy's `relabels` is a third cache of the same
kind, with the differences the code has: it goes by its own workspace's
generation, reads it under the lock, and never answers from what it held before.
`kind` says which of the three is looked at.  Each fetch is a step.  A schema is
the number of the edit that made it, so a document is a function from groups to
numbers; the conversion of CRDs into OpenAPI is left out.

**WritePath** models `ServeHTTP` for POST, PUT, PATCH and DELETE of one object
and the DELETE of a collection it is in:
`Begin` or `RefusedAtOnce` is `inspectWrite` with the owner reference check,
`FetchOld`, `DryRun`, `Admit` and `Refused` are `run` and `runPatch`,
`EnsureNamespace` is `ensure` of **NamespaceMirror**, `Store`, `DeleteObject`
and `RefusedByKcp` are what kcp makes of the forwarded request.  Every call to
kcp is a step, between which another client writes or deletes, the namespace
goes away, a side call fails or the deadline passes.  An object is the set of
writes it includes and the mark a mutating webhook leaves.  A body may be one
that `inspectWrite` passes over although kcp reads it: YAML, or a patch whose
content type has a parameter; its dry run has no body.  `seen` remembers as
which operation the webhooks saw a write.
**AdmissionMatcher** has the matcher of `admissionmatch.go` next to what the
cluster's own chain does with the same rules (`reaches`, `called`; external).
kcp is assumed to treat custom resources as an API server does: an update needs
the current resourceVersion and creates nothing, a create needs its namespace.

Definitions named `X_Something` and introduced by "Faulty:" are variants of `X` with
a plausible mistake; nothing refers to them.  PROJECT.json pairs each property
with one that breaks it.

The MC modules give the constants their values; `CircuitBreakerProofs`,
`RouterProofs`, `ResourceCacheProofs`, `RegistrarProofs`, `WorkspaceManagerProofs`,
`DiscoveryProofs`, `OpenAPIProofs` and `WritePathProofs` hold the theorems.

## Runs

| run | instance | shows |
|---|---|---|
| breaker | 2 requests, 1 retry, threshold 2, cooldown 2, callers leave | TypeOK, ProbeInFlight, ReplaysAreSafeAndBounded, FailuresAreConsecutive, OpensAtThreshold; NeverCutOff, although no request need ever arrive; Heals: once kcp is back for good and callers wait, the circuit is closed or ready for a probe |
| router_startup | 2 readers, 2 workspaces, 1 group, the set filled once | TypeOK, SnapshotsAreCurrent, SteadyGroupIsRouted |
| router_reload | 2 readers, sets `<<w1>>` and `<<w2, w1>>`, 2 replacements | SetIsCurrent, MergedNeverGoesBack |
| cache | an owned CRD group, an owned bound group (bindings watched or not), one that is not owned; 2 changes, 1 failure | TypeOK, SignalsAreNotLost, UnchangedGroupsStay, StopsWhenCancelled, Converges |
| registrar | 1 replica, 2 group versions; without election 2 changes and 1 failure, or 1 change and 1 operator write; with election 1 change, 1 failure or 1 lost lease | TypeOK, UpdatesOnlyManaged, RoutedIsNotWithdrawn, Converges |
| workspaces | 2 names, 8 files (3 of them refused), 2 failures; 3 edits, or 1 workspace to begin with and 3 rotations, or that and 2 rotations and 1 edit; 2 servers | TypeOK, LiveIsRouted, ClaimsAreSound, KeepsPromise (the refinement), FollowsFile, CredentialsFollow |
| discovery | 2 publishers, 1 request at a time, a group that is absent or has one or two versions, 3 changes of the set or of the view | TypeOK, SerialPublishWithdraws, AnswersAreJustified, ServedIsListed |
| openapi | 2 requests at a time, 2 workspaces with a group each, 1 edit, 1 replacement, 1 failed fetch, each of the three caches | TypeOK (with: the lock is always released), AnswersAreCurrent |
| writes | 2 writers, 10 kinds of request, 2 webhook configurations, another client, 1 deletion of the namespace, 1 failed side call, time to live and deadline 1 | TypeOK (with: nothing outlives its deadline), NamespaceGapIsBounded, PatchesLoseNothing, StoredWasAdmitted, PlainWritesFire |

Two requests are enough for the circuit's liveness; its safety properties are
proved for any number, so a straggler that lands during somebody else's probe
is covered too.
Two readers and two workspaces give every order of label, lock and store
against a refresh and a replacement; a third reader adds no new kind of race,
because the lock lets one rebuild at a time.  Two publishers, two requests for a
document and two writers meet in every order; all further ones do the same.
The patch of the writes run is an apply, which does what any other patch does
and creates as well.
Three edits of the workspaces file are a change, its reversal and a change
while the previous one is being applied.  Three rotations are one before a
reload reads the digest, one between that and the second read of the file, and
one after.  One replica has three workers,
hence three overlapping rounds; with election only replicas that lead write.
Bounds on changes, failures, operator writes and lost leases are constants
named `Max...`, Registrar's are `Budgets`, one of which is chosen at the start;
they appear in the guards of the environment's actions alone.  Init leaves open
how much of MaxEdits and MaxRotations is used up, whether election is enabled
and what is served, and the MC modules of WorkspaceManager and Registrar start
from those combinations that are worth their states (`MCInit`);
Router's `MaxGeneration` and `MaxReplacements` bound how often its writers run,
and WorkspaceManager's `Sources` how many workspaces exist at a time (`Build`
waits for a free one; there are enough of them in the run).

The following runs expect a violation, each of a sentence in the source or in
the repository's README:

| run | property | what is said | what happens |
|---|---|---|---|
| registrar_early | ServedIsNotWithdrawn | `apiservices.go:198` on acting before the workspace has been read | the Run loop that `launch` starts, or a replica that is elected, reconciles before `router.replace`; `HasSynced` is true of no workspaces and every APIService is withdrawn |
| discovery_overlapping | GoneIsWithdrawn | `discovery.go:188` "Anything published before and gone now is withdrawn" | a publish sets `published`, is overtaken by one that withdraws the group, and adds it afterwards: it stays in `/apis` for good |
| writes_fire | WebhooksFire | `README.md:67` "fire on create, update and delete", `admission.go:157` | the matcher is asked about updates, so an apply that creates passes by a webhook for creates |

The two ways of registrar_early are equally short, and TLC reports one of them.
PlainWritesFire is the part of WebhooksFire that holds: creates, updates and
deletes of one object that are not patches.  MCWritePath has the other ways in
which WebhooksFire fails; the cfg of writes_fire with these values for `Shapes`
and `Clusters` finds them:

| Shapes, Clusters | what happens |
|---|---|
| Apply, ForEverything | the dry run of an apply is refused for the missing namespace, `ensure` creates it (`proxy.go:272`), the apply is stored unadmitted, against `proxy.go:268` |
| PatchWithCharset, ForEverything | a patch type with a parameter is not read (`ownerrefs.go:68`); the dry run has no body and is refused, the patch is stored unadmitted, against `ownerrefs.go:63` "which are read too" |
| PatchOfStatus, ForStatus | a rule that names the subresource is no match for a patch of it (`admissionmatch.go:150`), against `admissionmatch.go:30` "biased towards yes" |
| DeleteCollection, ForEverything | a deletecollection is no operation of admission's (`admission.go:82`) |

That a patch goes on unadmitted when kcp cannot be reached for the dry run is a
choice the code documents (`admission.go:143`); no run expects otherwise.

### What the models show without a run of their own

Backend transport.  Requests cancelled by their callers count towards the
threshold (`backend.go:184`, against :28 "consecutive backend failures").  A
late success of a request sent before the circuit opened closes it without a
probe (:124, against :45), and a late failure reopens a half-open circuit, so
that two probes may be in flight (:131, against :105).

Router.  The sum of the generations of one set and the revision of the next are
a label that may come true later, and a stale merge is then served under it
(`router.go:192`, against :190 "rebuilding it if any workspace has moved on").

Registrar.  An APIService whose label an operator takes off between the list
and the delete is deleted (`apiservices.go:264`, against :175), because
`Delete`, unlike `Update`, carries no resourceVersion.  The two reads of
`foreign` may straddle another round's delete, and spillway's own group version
then counts as the cluster's for one round (`clusterapis.go:53`), which is why
RoutedIsNotWithdrawn excepts `foreign`.

Leader election.  `leads` is asked once per round (`apiservices.go:194`), so a
round writes after the lease is lost; and `OnStartedLeading` is a goroutine that
may set the flag after `OnStoppedLeading` has cleared it (`leader.go:123`), both
against `leader.go:89` "kept writing after losing the lease would be the one
thing this exists to prevent".  The elector is run once (`leader.go:140`): a
replica that lost the lease never contends again, against `leader.go:84`
"holding or contending for the lease", and when all have, the APIServices stay
as they are.  Converges is therefore about behaviours in which no lease is lost.

Workspaces.  A reload that only reorders entries counts as no change, so the
new order is not applied (`workspacemanager.go:197`, against `README.md:187` of
the repository, "the first workspace listed wins"); FollowsFile therefore
compares what is served under each name, not the order.  A workspace
that is kept because its replacement failed may name a group that the new file
gives to another, which `loadWorkspaces` refuses in one file; ClaimsAreSound
excepts it.  The old workspace is stopped before the router is replaced
(`workspacemanager.go:194`), so its cache is no longer refreshed for a moment
in which requests still reach it.  The group health checks are those of the
configuration at start-up (`apiserver.go:281`).

Credentials.  `newCredentialSource` takes the digest after the transport was
built from the file (`credentials.go:66`): a rotation in between is not noticed
until the next one.  CredentialsFollow excepts these sources (`overtaken`).
It is about the proxy: the discovery client and the informers are built from
the kubeconfig at launch (`apiserver.go:327`) and keep an old token, against
`README.md:365` of the repository, "a rotated token or an added workspace is
picked up without a restart".

Discovery.  A version that a group no longer has stays in aggregated discovery,
because `publish` removes groups only.

OpenAPI.  The key of the cache is the sum of the generations without the
revision of the set, so after a replacement with the same sum the document of
the old set is served until the next refresh (`openapicache.go:45`);
AnswersAreCurrent is about one set.  A group that two workspaces publish is in
the index as the last one has it, not the one that backs it (`openapi.go:130`,
against :113).  A v2 document without a workspace that failed is kept until the
next generation.  Waiting for the lock is not bounded by the request's deadline.

Writes.  A body that does not decode is said to be left to kcp
(`ownerrefs.go:87`), but a create with one is refused for lack of a kind
(`admission.go:357`).  Owner references are not checked in a patch, nor after a
webhook has changed them.  A patch that admission left alone is applied to
whatever the object is by then, which the webhooks have not seen
(`admission.go:191`, against `README.md:79` "a webhook must see the object the
patch produces"); StoredWasAdmitted is about patches that were not overtaken.
When the old object cannot be read, a patch of it is admitted as a create
(`admission.go:345`, against :333).  An update whose body is not JSON is admitted without
its content; StoredWasAdmitted is about bodies that decode.

### Fairness

* CircuitBreaker: an attempt ends (the request deadline, for a watch the
  response header timeout), pauses are timers, clocks run.  No request need
  arrive and kcp need not recover.  `Heals` supposes that callers stop leaving, since
  one who leaves counts as a failure.
* ResourceCache: requests are answered or fail, timers fire, onChange returns,
  informers deliver.  `Tick` and `Stop` are strongly fair, because Go's select
  picks at random among ready cases.  Nothing makes the workspace change.
* Registrar: requests are answered, launches end, the hook runs, refreshes
  recur, a free lease is taken by a replica that contends for it.  Failures, losses and operators are never forced.
* WorkspaceManager: the manager's ticker and the credentials' tickers fire for
  ever, and launches end.  Failures are bounded, edits and rotations never forced.
* Discovery: every workspace publishes after every refresh, hence at least once
  in a resync period, and `publish` does not block.
* OpenAPI and WritePath: only safety is stated.

The runs of ResourceCache, WorkspaceManager and WritePath do not check for
deadlock: Run may end, a file may stay unacceptable, and each writer makes one
request.

## Proofs

All theorems hold for every value of the constants that the modules' ASSUMEs
admit: bounds are naturals; the threshold, the cooldown, the time to live, the
deadline and the generation bound are positive; `None` and the like are no value
of the sets they are told apart from; configurations, files, rules and requests
have the shape the code gives them; and no configuration has a workspace twice
(`loadWorkspaces` refuses two entries with one name).

* `CircuitBreakerProofs`: the inductive invariant adds to the checked
  properties that every member of `probes` is in flight, how `pc`, `sent` and
  `safe` go together, and that in a closed circuit the counter is the streak.
  `ProbeInFlight` needs it: a straggler's record must not take the last probe
  away without leaving half-open.  Proved: TypeOK, ProbeInFlight,
  ReplaysAreSafeAndBounded, FailuresAreConsecutive and the action property
  OpensAtThreshold.
* `RouterProofs`: the invariant relates the revision a call began with, the
  one in its label, the one of the set it merged, and the current one, and says
  of every view, cached or being built, that it is filed under a revision no
  newer than its set.  Proved: TypeOK and SetIsCurrent.
  `MInv` adds what the lock gives: the one merge being built is, as far as it
  has got, no older than the cached one.  Proved from it: the action property
  MergedNeverGoesBack.
  `FInv` is for a router whose set is installed at most once
  (`MaxReplacements <= 1`, an assumption of these theorems: with reloads the
  properties fail, see above).  A merge's label is at most the sum of the
  generations with each cut down to what the merge has seen of that workspace,
  and a reader who may rely on more than the merge holds will compute a greater
  sum.  Proved: SnapshotsAreCurrent and SteadyGroupIsRouted.  The facts about
  sums are proved by the least counterexample (`LeastNumber`, from the library's
  theorem that `<` is well-founded), since induction is out of reach.
* `ResourceCacheProofs`: a snapshot is read in pieces, so the invariant says of
  each piece that it is no older than the snapshot it will replace, has every
  change that was signalled unless a signal is pending, and, once complete, is
  the group as it is or older than it; numbers of changes only grow, and nothing is signalled
  before the informers start.  Proved: TypeOK, SignalsAreNotLost and the action
  property UnchangedGroupsStay.
* `RegistrarProofs`: the invariant is `FreshIsCurrent`: a round that holds a
  current resourceVersion of an APIService has it as it is.  `Create` is the
  interesting step: it makes no listed copy stale, which is safe because it
  only writes where nothing is.  For withdrawals, `SteadyIsWanted` follows what
  the workspace has served since a round began through the view, the snapshot
  and `wanted`, for rounds that began with the workspace in the router.
  Proved: TypeOK and the action properties UpdatesOnlyManaged and
  RoutedIsNotWithdrawn, with and without election.
* `WorkspaceManagerProofs`: the invariant follows `reconcile` through the
  entries (`Picked`: what has been gathered has one workspace per name, built
  from its entry or taken over, and one for every entry whose name was running;
  `Marks`: `keep` names exactly those taken over), so that what is stopped at
  the end is what the next set leaves out.  Proved: TypeOK, LiveIsRouted,
  ClaimsAreSound, and KeepsPromise, the refinement of ServedConfiguration: every
  step is `Read`, `Apply` or leaves its variables alone.
* `DiscoveryProofs`: `Stage` says how far each document is from `published` at
  every point of a publish that nobody overlaps, and `Witnessed` that a
  request's history knows whether what is asked for is there now, and that what
  is found in the view after the group was looked up was owned too.  Proved:
  TypeOK, SerialPublishWithdraws and AnswersAreJustified.
* `OpenAPIProofs`: the sources of a build are workspaces, and schemas are not
  ahead of the edits.  Proved: TypeOK, which has the lock in it: it is held
  exactly from the check of the cache to the answer, on every path.
* `WritePathProofs`: a resourceVersion is never given out twice, so what a
  patch read under a version is what kcp holds as long as it holds that version
  (`Resolved`); `Passed` has the grounds on which a write got past admission:
  what it was seen as, or that no rule reaches it; `Remembered` when the
  namespace was last seen.  That the matcher never says no to a request of the
  resource itself that a rule reaches (`MatcherIsCautious`) is proved for all
  rules.  Proved: TypeOK, NamespaceGapIsBounded and the action properties
  PatchesLoseNothing, StoredWasAdmitted and PlainWritesFire.

Only model-checked: all liveness (fairness and ENABLED are outside the prover)
and OpenAPI's AnswersAreCurrent.  That two replicas hand the registration over
to each other is not checked for convergence: with two replicas, a lost lease
and a change the state space is beyond TLC's reach in reasonable time; the
safety of it (UpdatesOnlyManaged, RoutedIsNotWithdrawn) is proved for any
number of replicas.

## Plan

1. Proof of OpenAPI's AnswersAreCurrent: two requests with one sum of
   generations, of one set, were made while the same had been announced.
2. Convergence over a change of leader, with a Registrar whose rounds are
   coarser.

## Not modelled

Metrics, client construction, the declaration of flags, delegated authorization
options, scheme, version and main: construction and I/O without a protocol.
Of modelled components: impersonation and headers of proxied requests, reads and
watches (they pass the checks of Discovery and go to the transport), dry-run
writes, the conversion of objects and of CRDs, the case that aggregated
discovery is switched off, and the health checks, which only read what Router
and CircuitBreaker model.
