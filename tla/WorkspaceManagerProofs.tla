----------------------- MODULE WorkspaceManagerProofs -----------------------
(***************************************************************************)
(* For any workspaces file, any number of workspaces, edits, failures and  *)
(* rotations: the workspaces that run are those that are routed to, what   *)
(* they claim is sound, and the manager implements ServedConfiguration.    *)
(*                                                                         *)
(* reconcile goes through the desired entries one by one.  Picked says     *)
(* what it has gathered for the entries before at: at most one workspace   *)
(* per name, either built from the entry or taken over from the current    *)
(* set, and one for every entry whose name was running.  Marks says that   *)
(* keep names exactly the workspaces taken over, so that what is stopped   *)
(* at the end is what is not in the next set.                              *)
(***************************************************************************)
EXTENDS WorkspaceManager, FiniteSetTheorems, TLAPS

Sound == {c \in Configs : ParseGroupMatcher(c.groups)}
Current == Members(workspaces)
Gathered == Members(next)
Seen == 1..(at - 1)

\* What start and reconcile work from was accepted.
Wanted ==
  /\ desired \in Seq(Sound)
  /\ \A i, j \in 1..Len(desired) : i # j =>
       /\ desired[i].name # desired[j].name
       /\ NamedGroups(desired[i].groups) \cap NamedGroups(desired[j].groups) = {}

\* A workspace that is routed to or runs was built from an accepted entry.
Configured ==
  /\ workspaces \in Seq(Sources)
  /\ \A s \in Current \cup live : config[s] \in Sound
  /\ \A s, t \in Current : config[s].name = config[t].name => s = t

\* The workspace being built is nobody else's.
Building ==
  pc = "launch" => /\ at <= Len(desired)
                   /\ built \in Sources /\ built \notin Current \cup live
                   /\ config[built] = desired[at]

Picked ==
  /\ \A s \in Gathered : \E i \in Seen :
       /\ config[s].name = desired[i].name
       /\ config[s] = desired[i] \/ s \in Current
       /\ failures = 0 => NamedGroups(config[s].groups) = NamedGroups(desired[i].groups)
  /\ \A s, t \in Gathered : config[s].name = config[t].name => s = t
  /\ \A i \in Seen, s \in Current :
       config[s].name = desired[i].name =>
         \E t \in Gathered : config[t].name = desired[i].name

Marks ==
  \A s \in Current : s \in Gathered <=> config[s].name \in keep

Progress ==
  /\ pc \in {"entries", "launch"} =>
       /\ Picked /\ Marks
       /\ live = Current \cup Gathered
       /\ changes = 0 => Gathered \subseteq Current
  /\ pc = "replace" => Picked /\ live = Gathered /\ at = Len(desired) + 1
  /\ pc \in {"down", "idle", "announce"} => live = Current

Starting ==
  /\ pc = "down" => starting
  /\ starting => workspaces = <<>>
  /\ pc # "announce" => published = workspaces

IInv ==
  /\ TypeOK /\ Wanted /\ Configured /\ Building /\ Progress /\ Starting
  /\ ClaimsAreSound

-----------------------------------------------------------------------------
(* Group patterns *)

\* A wildcard long enough to have reserved groups under it covers the reserved
\* domain, and is refused: a reserved group is only matched by its name.
LEMMA ReservedIsNamed ==
  ASSUME NEW patterns \in Seq(Patterns(STRING)), ParseGroupMatcher(patterns),
         NEW g \in Seq(STRING), Matches(patterns, g), Under(g, Reserved)
  PROVE  g \in NamedGroups(patterns)
<1>1. CASE g \in Exacts(patterns)
  BY <1>1 DEF Matches, NamedGroups
<1>2. ASSUME NEW domain \in Suffixes(patterns), Under(g, domain) PROVE FALSE
  <2>1. PICK i \in 1..Len(patterns) :
          /\ patterns[i].labels = domain
          /\ patterns[i].not = FALSE /\ patterns[i].star = TRUE
    BY DEF Suffixes, Entries
  <2>2. domain \in Seq(STRING) /\ Len(domain) >= 2 /\ ~CoversReserved(domain)
    <3>1. patterns[i] \in Patterns(STRING)
      BY <2>1
    <3>2. AcceptsPattern(patterns[i])
      BY <2>1 DEF ParseGroupMatcher
    <3> QED BY <2>1, <3>1, <3>2 DEF AcceptsPattern, AcceptsWildcard, Patterns
  <2> DEFINE n == Len(domain)
             m == Len(g)
  <2>3. n \in Nat /\ m \in Nat /\ n >= 2 /\ m > n
    BY <1>2, <2>2 DEF Under
  <2>4. Len(Reserved) = 2 /\ Reserved[1] = "k8s" /\ Reserved[2] = "io"
    BY DEF Reserved
  <2>5. g[m - 1] = "k8s" /\ g[m] = "io"
    <3>1. \A j \in 1..2 : g[m - 2 + j] = Reserved[j]
      BY <2>4 DEF Under
    <3> QED BY <2>3, <2>4, <3>1
  <2>6. \A j \in 1..n : g[m - n + j] = domain[j]
    BY <1>2 DEF Under
  <2>7. domain[n - 1] = "k8s" /\ domain[n] = "io"
    <3>1. m - n + (n - 1) = m - 1 /\ m - n + n = m /\ n \in 1..n /\ n - 1 \in 1..n
      BY <2>3
    <3> HIDE DEF n, m
    <3> QED BY <2>5, <2>6, <3>1
  <2>8. CASE n = 2
    <3>1. domain = Reserved
      BY <2>2, <2>4, <2>7, <2>8 DEF Reserved
    <3> QED BY <2>2, <3>1 DEF CoversReserved
  <2>9. CASE n > 2
    <3>1. \A j \in 1..2 : domain[n - 2 + j] = Reserved[j]
      <4>1. n - 2 + 1 = n - 1 /\ n - 2 + 2 = n
        BY <2>3
      <4> HIDE DEF n
      <4> QED BY <2>4, <2>7, <4>1
    <3>2. Under(domain, Reserved)
      BY <2>4, <2>9, <3>1 DEF Under
    <3> QED BY <2>2, <3>2 DEF CoversReserved
  <2> HIDE DEF n, m
  <2> QED BY <2>3, <2>8, <2>9
<1> QED BY <1>1, <1>2 DEF Matches

\* Patterns that are rendered alike name the same groups.
LEMMA RenderedNames ==
  ASSUME NEW a \in Seq(Patterns(STRING)), NEW b \in Seq(Patterns(STRING)),
         Rendered(a) = Rendered(b)
  PROVE  NamedGroups(a) = NamedGroups(b)
<1>1. /\ Exacts(a) = Exacts(b) /\ ExcludedExacts(a) = ExcludedExacts(b)
      /\ InOrder(a, TRUE) = InOrder(b, TRUE)
  BY DEF Rendered
<1>2. ASSUME NEW p \in Seq(Patterns(STRING))
      PROVE  ExcludedSuffixes(p) = {e[2] : e \in InOrder(p, TRUE)}
  <2> DEFINE wildcards == {i \in 1..Len(p) : p[i].not = TRUE /\ p[i].star}
             place(i) == Cardinality({j \in wildcards : j <= i})
  <2>1. InOrder(p, TRUE) = {<<place(i), p[i].labels>> : i \in wildcards}
    BY DEF InOrder
  <2>2. ExcludedSuffixes(p) = {p[i].labels : i \in wildcards}
    <3>1. \A i \in 1..Len(p) : p[i] \in Patterns(STRING)
      OBVIOUS
    <3>2. \A i \in 1..Len(p) : p[i].star \in BOOLEAN
      BY <3>1 DEF Patterns
    <3> QED BY <3>2 DEF ExcludedSuffixes, Entries
  <2> HIDE DEF place, wildcards
  <2>3. \A i \in wildcards : <<place(i), p[i].labels>>[2] = p[i].labels
    OBVIOUS
  <2>4. {e[2] : e \in {<<place(i), p[i].labels>> : i \in wildcards}}
          = {p[i].labels : i \in wildcards}
    <3>1. ASSUME NEW i \in wildcards
          PROVE  \E e \in {<<place(j), p[j].labels>> : j \in wildcards} : e[2] = p[i].labels
      BY <2>3
    <3>2. ASSUME NEW e \in {<<place(j), p[j].labels>> : j \in wildcards}
          PROVE  \E i \in wildcards : e[2] = p[i].labels
      BY <2>3
    <3> QED BY <3>1, <3>2
  <2> QED BY <2>1, <2>2, <2>4
<1>3. ExcludedSuffixes(a) = ExcludedSuffixes(b)
  BY <1>1, <1>2
<1> QED BY <1>1, <1>3 DEF NamedGroups, Excluded

-----------------------------------------------------------------------------
(* Sequences of workspaces and of configurations *)

LEMMA MembersOf ==
  ASSUME NEW S, NEW seq \in Seq(S)
  PROVE  Members(seq) \subseteq S /\ IsFiniteSet(Members(seq))
<1>1. IsFiniteSet(1..Len(seq))
  BY FS_Interval
<1>2. seq \in Surjection(1..Len(seq), Members(seq))
  BY DEF Surjection, Members
<1>3. IsFiniteSet(Members(seq))
  BY <1>1, <1>2, FS_Surjection
<1> QED BY <1>3 DEF Members

LEMMA SequenceOver ==
  ASSUME NEW S, NEW T, NEW seq \in Seq(S), Members(seq) \subseteq T
  PROVE  seq \in Seq(T)
<1>1. \A i \in 1..Len(seq) : seq[i] \in T
  BY DEF Members
<1> QED BY <1>1

LEMMA MembersAppend ==
  ASSUME NEW S, NEW seq \in Seq(S), NEW e
  PROVE  Members(Append(seq, e)) = Members(seq) \cup {e}
<1>1. seq \in Seq(S \cup {e})
  OBVIOUS
<1>2. /\ Len(Append(seq, e)) = Len(seq) + 1
      /\ \A i \in 1..Len(seq) : Append(seq, e)[i] = seq[i]
      /\ Append(seq, e)[Len(seq) + 1] = e
  BY <1>1
<1>3. Len(seq) \in Nat
  OBVIOUS
<1> QED BY <1>2, <1>3 DEF Members

\* What is loaded from a file that is accepted.
LEMMA Loaded ==
  ASSUME NEW f \in Files, Accepted(f)
  PROVE  LET d == loadWorkspaces(f)
         IN /\ d \in Seq(Sound)
            /\ \A i, j \in 1..Len(d) : i # j =>
                 /\ d[i].name # d[j].name
                 /\ NamedGroups(d[i].groups) \cap NamedGroups(d[j].groups) = {}
<1> DEFINE d == loadWorkspaces(f)
<1>1. f \in Seq([name : Names, kubeconfig : Paths,
                 apiGroups : Seq(Patterns(STRING)), settings : Settings \cup {Unset}])
  BY ManagerAssumption
<1>2. /\ Len(f) \in Nat /\ DOMAIN d = 1..Len(f)
      /\ \A i \in 1..Len(f) :
           d[i].name = f[i].name /\ d[i].groups = f[i].apiGroups
  BY <1>1 DEF loadWorkspaces
<1>3. \A i \in 1..Len(f) : d[i] \in Configs
  BY DEF Configs
<1>4. \A i \in 1..Len(f) : d[i] \in Sound
  BY <1>2, <1>3 DEF Sound, Accepted
<1>5. d = [i \in 1..Len(f) |-> d[i]]
  BY DEF loadWorkspaces
<1> HIDE DEF d
<1>6. d \in Seq(Sound) /\ Len(d) = Len(f)
  BY <1>2, <1>4, <1>5
<1>7. \A i, j \in 1..Len(d) : i # j =>
        /\ d[i].name # d[j].name
        /\ NamedGroups(d[i].groups) \cap NamedGroups(d[j].groups) = {}
  BY <1>2, <1>6 DEF Accepted, claimsDiffer
<1> QED BY <1>6, <1>7 DEF d

\* What a configuration is made of.
LEMMA ConfigParts ==
  ASSUME NEW c \in Configs
  PROVE  /\ c.name \in Names /\ c.kubeconfig \in Paths
         /\ c.groups \in Seq(Patterns(STRING)) /\ c # NoConfig
<1>1. PICK f \in Files : \E i \in 1..Len(f) : c = loadWorkspaces(f)[i]
  BY DEF Configs
<1> DEFINE entries == [name : Names, kubeconfig : Paths,
                       apiGroups : Seq(Patterns(STRING)),
                       settings : Settings \cup {Unset}]
<1>2. f \in Seq(entries)
  BY ManagerAssumption
<1> PICK i \in 1..Len(f) : c = loadWorkspaces(f)[i]
  BY <1>1
<1>3. /\ c.name = f[i].name /\ c.kubeconfig = f[i].kubeconfig
      /\ c.groups = f[i].apiGroups
  BY DEF loadWorkspaces
<1> HIDE DEF entries
<1>4. f[i] \in entries
  BY <1>2
<1>5. /\ f[i].name \in Names /\ f[i].kubeconfig \in Paths
      /\ f[i].apiGroups \in Seq(Patterns(STRING))
  BY <1>4 DEF entries
<1> QED BY <1>3, <1>5, ManagerAssumption

-----------------------------------------------------------------------------
(* Credentials: every step of them keeps their type *)

\* What a step of the credentials of workspace s, read from path, may be.
CredentialsStep(s, path) ==
  \/ BuildTransport(s, path) \/ RememberDigest(s, path)
  \/ ReadDigest(s, path) \/ ReplaceTransport(s, path) \/ ReloadFails(s)

LEMMA CredentialsTyped ==
  ASSUME CredentialsTypeOK, NEW s \in Sources, NEW path \in Paths,
         CredentialsStep(s, path)
  PROVE  CredentialsTypeOK'
<1> USE DEF CredentialsTypeOK, files, credentials
<1>1. kubeconfig[path] \in Contents
  OBVIOUS
<1> HIDE DEF Contents
<1>2. CASE BuildTransport(s, path)
  BY <1>1, <1>2 DEF BuildTransport
<1>3. CASE RememberDigest(s, path)
  BY <1>1, <1>3 DEF RememberDigest
<1>4. CASE ReadDigest(s, path)
  BY <1>1, <1>4 DEF ReadDigest
<1>5. CASE ReplaceTransport(s, path)
  BY <1>1, <1>5 DEF ReplaceTransport
<1>6. CASE ReloadFails(s)
  BY <1>6 DEF ReloadFails
<1> QED BY <1>2, <1>3, <1>4, <1>5, <1>6 DEF CredentialsStep

LEMMA RotateTyped ==
  ASSUME CredentialsTypeOK, NEW path \in Paths, NEW server \in Servers,
         Rotate(path, server)
  PROVE  CredentialsTypeOK'
<1> USE CredentialsAssumption DEF CredentialsTypeOK
<1>1. rotations' \in 0..MaxRotations
  BY DEF Rotate
<1>2. [server |-> server, token |-> rotations'] \in Contents
  BY <1>1 DEF Contents
<1> HIDE DEF Contents
<1> QED BY <1>1, <1>2 DEF Rotate, credentials

LEMMA RetainTyped ==
  ASSUME CredentialsTypeOK, NEW sources, Retain(sources)
  PROVE  CredentialsTypeOK'
<1> HIDE DEF Contents
<1> QED BY DEF CredentialsTypeOK, Retain, files

LEMMA QuietTyped ==
  ASSUME CredentialsTypeOK, UNCHANGED <<files, credentials>>
  PROVE  CredentialsTypeOK'
  BY DEF CredentialsTypeOK, files, credentials

-----------------------------------------------------------------------------
(* Steps of the manager: what each must show *)

\* The facts about the sets of workspaces that every step starts from.
LEMMA Facts ==
  ASSUME IInv
  PROVE  /\ live \subseteq Sources /\ Current \subseteq Sources
         /\ Gathered \subseteq live /\ IsFiniteSet(Current)
         /\ next \in Seq(Sources) /\ workspaces \in Seq(Sources)
         /\ Len(desired) \in Nat /\ at \in Nat /\ at >= 1 /\ at <= Len(desired) + 1
         /\ \A i \in 1..Len(desired) : desired[i] \in Sound
         /\ \A i \in Seen : i \in 1..Len(desired) /\ i < at
<1> USE DEF IInv, TypeOK
<1>1. live \subseteq Sources /\ next \in Seq(live)
  OBVIOUS
<1>2. Gathered \subseteq live
  BY <1>1, MembersOf DEF Gathered
<1>3. next \in Seq(Sources)
  BY <1>1, <1>2, SequenceOver DEF Gathered
<1>4. workspaces \in Seq(Sources) /\ desired \in Seq(Sound)
  BY DEF Configured, Wanted
<1>5. Current \subseteq Sources /\ IsFiniteSet(Current)
  BY <1>4, MembersOf DEF Current
<1>6. /\ Len(desired) \in Nat /\ at \in Nat /\ at >= 1 /\ at <= Len(desired) + 1
      /\ \A i \in 1..Len(desired) : desired[i] \in Sound
  BY <1>4
<1>7. \A i \in Seen : i \in 1..Len(desired) /\ i < at
  BY <1>6 DEF Seen
<1> QED BY <1>1, <1>2, <1>3, <1>4, <1>5, <1>6, <1>7

\* As long as the current set and what it was built from stay, so does what
\* is known about it.
LEMMA CurrentStays ==
  ASSUME IInv, UNCHANGED <<workspaces, desired>>,
         \A s \in Current \cup live : config'[s] = config[s],
         \A s \in live' \ (Current \cup live) : config'[s] \in Sound,
         failures' = 0 => failures = 0
  PROVE  Wanted' /\ Configured' /\ ClaimsAreSound' /\ Current' = Current
<1> USE DEF IInv
<1>1. Current' = Current
  BY DEF Current
<1>2. Wanted'
  BY DEF Wanted
<1>3. Configured'
  BY <1>1 DEF Configured
<1>4. ClaimsAreSound'
  BY <1>1 DEF ClaimsAreSound, Current
<1> QED BY <1>1, <1>2, <1>3, <1>4

\* The next entry is settled with workspace s.
LEMMA OneIsPicked ==
  ASSUME IInv, Picked, at <= Len(desired), UNCHANGED <<workspaces, desired>>,
         \A t \in Current \cup live : config'[t] = config[t],
         NEW s, Gathered' = Gathered \cup {s}, at' = at + 1,
         config'[s].name = desired[at].name,
         config'[s] = desired[at] \/ s \in Current,
         failures' = 0 =>
           /\ failures = 0
           /\ NamedGroups(config'[s].groups) = NamedGroups(desired[at].groups)
  PROVE  Picked'
<1>0. /\ Gathered \subseteq live /\ Len(desired) \in Nat /\ at \in 1..Len(desired)
      /\ \A i \in Seen : i \in 1..Len(desired) /\ i < at
  BY Facts
<1>1. Current' = Current /\ Seen' = Seen \cup {at} /\ at \notin Seen
  BY <1>0 DEF Current, Seen
<1>2. \A i \in Seen : desired[i].name # desired[at].name
  BY <1>0, <1>1 DEF IInv, Wanted
<1>3. ASSUME NEW t \in Gathered'
      PROVE  \E i \in Seen' :
               /\ config'[t].name = desired[i].name
               /\ config'[t] = desired[i] \/ t \in Current
               /\ failures' = 0 => NamedGroups(config'[t].groups)
                                     = NamedGroups(desired[i].groups)
  <2>1. CASE t \in Gathered
    <3>1. config'[t] = config[t]
      BY <1>0, <2>1
    <3> QED BY <1>1, <2>1, <3>1 DEF Picked
  <2>2. CASE t = s
    BY <1>1, <2>2
  <2> QED BY <2>1, <2>2
<1>4. \A t \in Gathered : config'[t] = config[t] /\ config'[t].name # desired[at].name
  BY <1>0, <1>2 DEF Picked
<1>5. \A t, u \in Gathered' : config'[t].name = config'[u].name => t = u
  BY <1>4 DEF Picked
<1>6. ASSUME NEW i \in Seen', NEW t \in Current, config'[t].name = desired[i].name
      PROVE  \E u \in Gathered' : config'[u].name = desired[i].name
  <2>1. CASE i \in Seen
    BY <1>4, <1>6, <2>1 DEF Picked
  <2>2. CASE i = at
    BY <2>2
  <2> QED BY <1>1, <2>1, <2>2
<1> QED BY <1>1, <1>3, <1>5, <1>6 DEF Picked

\* The next entry is given up, and nothing runs in its name.
LEMMA NoneIsPicked ==
  ASSUME IInv, Picked, at <= Len(desired), UNCHANGED <<workspaces, desired, next>>,
         \A t \in Current \cup live : config'[t] = config[t],
         \A t \in Current : config[t].name # desired[at].name,
         at' = at + 1, failures' = 0 => failures = 0
  PROVE  Picked'
<1>0. /\ Gathered \subseteq live /\ Len(desired) \in Nat /\ at \in 1..Len(desired)
      /\ \A i \in Seen : i \in 1..Len(desired) /\ i < at
  BY Facts
<1>1. /\ Current' = Current /\ Seen' = Seen \cup {at} /\ Gathered' = Gathered
  BY <1>0 DEF Current, Seen, Gathered
<1>2. \A t \in Gathered : config'[t] = config[t]
  BY <1>0
<1>3. ASSUME NEW t \in Gathered
      PROVE  \E i \in Seen' :
               /\ config'[t].name = desired[i].name
               /\ config'[t] = desired[i] \/ t \in Current
               /\ failures' = 0 => NamedGroups(config'[t].groups)
                                     = NamedGroups(desired[i].groups)
  BY <1>1, <1>2 DEF Picked
<1>4. \A i \in Seen', t \in Current : config'[t].name = desired[i].name =>
        \E u \in Gathered : config'[u].name = desired[i].name
  BY <1>1, <1>2 DEF Picked
<1> QED BY <1>1, <1>2, <1>3, <1>4 DEF Picked

\* Nothing is settled.
LEMMA PickedStays ==
  ASSUME IInv, Picked, UNCHANGED <<workspaces, desired, next, at>>,
         \A t \in Current \cup live : config'[t] = config[t],
         failures' = 0 => failures = 0
  PROVE  Picked'
<1>1. Current' = Current /\ Seen' = Seen /\ Gathered' = Gathered
  BY DEF Current, Seen, Gathered
<1>2. \A t \in Gathered : config'[t] = config[t]
  BY Facts
<1> QED BY <1>1, <1>2 DEF Picked

\* At most one workspace of the current set has the entry's name.
LEMMA RunningIsOne ==
  ASSUME IInv, at <= Len(desired)
  PROVE  \/ /\ running = {} /\ AppendAll(next, running) = next
            /\ \A t \in Current : config[t].name # desired[at].name
         \/ \E s \in Current :
              /\ running = {s} /\ AppendAll(next, running) = Append(next, s)
              /\ config[s].name = desired[at].name
<1>1. running = {s \in Current : config[s].name = desired[at].name}
  BY DEF running, entry, Current
<1>2. CASE running = {}
  BY <1>1, <1>2 DEF AppendAll
<1>3. CASE running # {}
  <2>1. PICK s \in Current : config[s].name = desired[at].name
    BY <1>1, <1>3
  <2>2. running = {s}
    BY <1>1, <2>1 DEF IInv, Configured
  <2>3. (CHOOSE t \in running : TRUE) = s
    BY <2>2
  <2> QED BY <1>3, <2>1, <2>2, <2>3 DEF AppendAll
<1> QED BY <1>2, <1>3

-----------------------------------------------------------------------------
(* The initial state *)

LEMMA InitInvariant == Init => IInv
<1> SUFFICES ASSUME Init PROVE IInv
  OBVIOUS
<1> USE DEF Init
<1>1. Len(<<>>) = 0 /\ \A S : <<>> \in Seq(S)
  OBVIOUS
<1>2. Current = {} /\ Gathered = {} /\ Members(workspaces) = {}
  BY <1>1 DEF Current, Gathered, Members
<1>3. CredentialsTypeOK
  <2>1. [server |-> FirstServer, token |-> 0] \in Contents
    BY CredentialsAssumption DEF Contents
  <2> HIDE DEF Contents
  <2> QED BY <2>1, CredentialsAssumption DEF CredentialsInit, CredentialsTypeOK
<1>4. TypeOK
  <2>1. config \in [Sources -> Configs \cup {NoConfig}] /\ starting \in BOOLEAN
    OBVIOUS
  <2> QED BY <1>1, <1>3, <2>1, ManagerAssumption DEF TypeOK
<1>5. Wanted /\ Configured
  BY <1>1, <1>2 DEF Wanted, Configured
<1>6. Building /\ Progress /\ Starting /\ ClaimsAreSound
  BY <1>2 DEF Building, Progress, Starting, ClaimsAreSound
<1> QED BY <1>4, <1>5, <1>6 DEF IInv

-----------------------------------------------------------------------------
(* Each action preserves the invariant *)

\* A step that is not the manager's, or that changes nothing.
LEMMA QuietPreserves ==
  ASSUME IInv, CredentialsTypeOK',
         UNCHANGED <<config, live, workspaces, published, built, starting, pc,
                     locals>>,
         file' \in Files, edits' \in 0..MaxEdits, failures' \in 0..MaxFailures,
         failures' = 0 => failures = 0
  PROVE  IInv'
<1> USE DEF IInv, locals
<1>1. TypeOK'
  BY DEF TypeOK
<1>2. Wanted' /\ Configured' /\ ClaimsAreSound' /\ Current' = Current
  BY CurrentStays
<1>3. Gathered' = Gathered /\ (Picked => Picked')
  BY PickedStays DEF Gathered
<1>4. Building' /\ Starting'
  BY <1>2 DEF Building, Starting
<1>5. Progress'
  BY <1>2, <1>3 DEF Progress, Marks
<1> QED BY <1>1, <1>2, <1>4, <1>5

LEMMA ReloadPreserves ==
  ASSUME IInv, Reload
  PROVE  IInv'
<1> USE DEF IInv, Reload, environment
<1>1. CredentialsTypeOK'
  BY QuietTyped DEF TypeOK
<1>2. /\ desired' \in Seq(Sound)
      /\ \A i, j \in 1..Len(desired') : i # j =>
           /\ desired'[i].name # desired'[j].name
           /\ NamedGroups(desired'[i].groups) \cap NamedGroups(desired'[j].groups) = {}
  <2>1. file \in Files /\ Accepted(file) /\ desired' = loadWorkspaces(file)
    BY DEF TypeOK
  <2>2. loadWorkspaces(file) \in Seq(Sound)
    BY <2>1, Loaded
  <2>3. \A i, j \in 1..Len(loadWorkspaces(file)) : i # j =>
          /\ loadWorkspaces(file)[i].name # loadWorkspaces(file)[j].name
          /\ NamedGroups(loadWorkspaces(file)[i].groups)
               \cap NamedGroups(loadWorkspaces(file)[j].groups) = {}
    BY <2>1, Loaded
  <2> QED BY <2>1, <2>2, <2>3
<1>3. /\ Gathered' = {} /\ Seen' = {} /\ Current' = Current
  <2>1. Len(<<>>) = 0 /\ 1..0 = {}
    OBVIOUS
  <2> QED BY <2>1 DEF Gathered, Seen, Current, Members
<1>4. live = Current /\ published = workspaces
  BY DEF Progress, Starting
<1>5. TypeOK'
  <2>1. desired' \in Seq(Configs) /\ at' \in 1..(Len(desired') + 1)
    BY <1>2 DEF Sound
  <2>2. workspaces \in Seq(live)
    BY DEF TypeOK
  <2>3. next' \in Seq(live')
    OBVIOUS
  <2> QED BY <1>1, <2>1, <2>2, <2>3 DEF TypeOK
<1>6. Wanted'
  BY <1>2 DEF Wanted
<1>7. Configured' /\ ClaimsAreSound'
  BY <1>3 DEF Configured, ClaimsAreSound, Current
<1>8. Progress'
  BY <1>3, <1>4 DEF Progress, Picked, Marks
<1>9. Building' /\ Starting'
  BY <1>4 DEF Building, Starting
<1> QED BY <1>5, <1>6, <1>7, <1>8, <1>9

LEMMA KeepPreserves ==
  ASSUME IInv, KeepRunning
  PROVE  IInv'
<1> USE DEF IInv, KeepRunning, environment
<1>1. CredentialsTypeOK'
  BY QuietTyped DEF TypeOK
<1>2. /\ at \in 1..Len(desired) /\ desired[at] \in Sound
      /\ Len(desired) \in Nat /\ live \subseteq Sources /\ Current \subseteq Sources
  BY Facts
<1>3. PICK s \in Current :
        /\ running = {s} /\ next' = Append(next, s)
        /\ config[s].name = desired[at].name
  BY RunningIsOne DEF unchanged
<1>4. NamedGroups(config[s].groups) = NamedGroups(desired[at].groups)
  <2>1. fingerprint(config[s]) = fingerprint(desired[at])
    BY <1>3 DEF unchanged, entry
  <2>2. Rendered(config[s].groups) = Rendered(desired[at].groups)
    BY <2>1 DEF fingerprint
  <2>3. config[s] \in Configs /\ desired[at] \in Configs
    BY <1>2 DEF Configured, Sound
  <2> QED BY <2>2, <2>3, RenderedNames, ConfigParts
<1>5. Wanted' /\ Configured' /\ ClaimsAreSound' /\ Current' = Current
  BY CurrentStays
<1>6. Picked /\ Marks /\ live = Current \cup Gathered
  BY DEF Progress
<1>7. Gathered' = Gathered \cup {s} /\ next' \in Seq(live)
  <2>1. next \in Seq(live) /\ s \in live
    BY <1>6 DEF TypeOK
  <2>2. Append(next, s) \in Seq(live)
    BY <2>1
  <2>3. Members(Append(next, s)) = Members(next) \cup {s}
    BY <2>1, MembersAppend
  <2> QED BY <1>3, <2>2, <2>3 DEF Gathered
<1>8. Picked'
  BY <1>2, <1>3, <1>4, <1>6, <1>7, OneIsPicked
<1>9. Marks'
  <2>1. \A t \in Current : config[t].name = desired[at].name => t = s
    BY <1>3 DEF Configured
  <2> QED BY <1>3, <1>5, <1>6, <1>7, <2>1 DEF Marks, entry
<1>10. TypeOK'
  <2>1. keep' \in SUBSET Names
    BY <1>2, ConfigParts DEF TypeOK, entry, Sound
  <2>2. at' \in 1..(Len(desired) + 1)
    BY <1>2
  <2> QED BY <1>1, <1>7, <2>1, <2>2 DEF TypeOK
<1>11. Progress'
  BY <1>3, <1>5, <1>6, <1>7, <1>8, <1>9 DEF Progress
<1>12. Building' /\ Starting'
  BY DEF Building, Starting
<1> QED BY <1>5, <1>10, <1>11, <1>12

LEMMA BuildPreserves ==
  ASSUME IInv, Build
  PROVE  IInv'
<1> USE DEF IInv, environment, locals
<1>1. PICK s \in free :
        /\ built' = s /\ config' = [config EXCEPT ![s] = desired[at]]
        /\ BuildTransport(s, desired[at].kubeconfig)
  BY DEF Build, entry
<1>2. /\ pc = "entries" /\ pc' = "launch"
      /\ UNCHANGED <<environment, failures, live, workspaces, published, locals,
                     starting>>
  BY DEF Build
<1>3. /\ at \in 1..Len(desired) /\ desired[at] \in Sound
      /\ Len(desired) \in Nat /\ live \subseteq Sources /\ Current \subseteq Sources
  BY Facts DEF Build
<1>4. desired[at] \in Configs /\ desired[at].kubeconfig \in Paths
  BY <1>3, ConfigParts DEF Sound
<1>5. s \in Sources /\ s \notin Current \cup live
  <2>1. s \in Sources /\ config[s] = NoConfig
    BY DEF free
  <2> QED BY <2>1, ManagerAssumption DEF Configured, Sound
<1>6. /\ config' \in [Sources -> Configs \cup {NoConfig}]
      /\ config'[s] = desired[at]
      /\ \A t \in Current \cup live : config'[t] = config[t]
  BY <1>1, <1>3, <1>4, <1>5 DEF TypeOK
<1>7. CredentialsTypeOK'
  BY <1>1, <1>4, <1>5, CredentialsTyped DEF CredentialsStep, TypeOK
<1>8. Wanted' /\ Configured' /\ ClaimsAreSound' /\ Current' = Current
  BY <1>2, <1>6, CurrentStays
<1>9. Picked' /\ Gathered' = Gathered
  BY <1>2, <1>6, PickedStays DEF Gathered, Progress
<1>10. TypeOK'
  BY <1>1, <1>2, <1>5, <1>6, <1>7 DEF TypeOK
<1>11. Progress'
  BY <1>2, <1>6, <1>8, <1>9 DEF Progress, Marks
<1>12. Building' /\ Starting'
  BY <1>1, <1>2, <1>3, <1>5, <1>6, <1>8 DEF Building, Starting
<1> QED BY <1>8, <1>10, <1>11, <1>12

LEMMA LaunchedPreserves ==
  ASSUME IInv, Launched
  PROVE  IInv'
<1> USE DEF IInv, Launched, environment
<1>1. /\ at \in 1..Len(desired) /\ desired[at] \in Sound
      /\ Len(desired) \in Nat /\ live \subseteq Sources
      /\ built \in Sources /\ built \notin Current \cup live
      /\ config[built] = desired[at]
  BY Facts DEF Building
<1>2. CredentialsTypeOK'
  <2>1. desired[at].kubeconfig \in Paths
    BY <1>1, ConfigParts DEF Sound
  <2> QED BY <1>1, <2>1, CredentialsTyped DEF CredentialsStep, TypeOK, entry
<1>3. Wanted' /\ Configured' /\ ClaimsAreSound' /\ Current' = Current
  BY <1>1, CurrentStays
<1>4. Picked /\ Marks /\ live = Current \cup Gathered
  BY DEF Progress
<1>5. Gathered' = Gathered \cup {built} /\ next' \in Seq(live')
  <2>1. next \in Seq(live') /\ built \in live'
    BY DEF TypeOK
  <2> QED BY <2>1, MembersAppend DEF Gathered
<1>6. Picked'
  BY <1>1, <1>4, <1>5, OneIsPicked
<1>7. Marks'
  BY <1>1, <1>3, <1>4, <1>5 DEF Marks
<1>8. TypeOK'
  <2>1. at' \in 1..(Len(desired) + 1) /\ changes' \in Nat /\ changes' # 0
    BY <1>1 DEF TypeOK
  <2>2. workspaces \in Seq(live')
    BY DEF TypeOK
  <2> QED BY <1>1, <1>2, <1>5, <2>1, <2>2 DEF TypeOK
<1>9. Progress'
  <2>1. changes' # 0
    BY DEF TypeOK
  <2> QED BY <1>3, <1>4, <1>5, <1>6, <1>7, <2>1 DEF Progress
<1>10. Building' /\ Starting'
  BY DEF Building, Starting
<1> QED BY <1>3, <1>8, <1>9, <1>10

LEMMA LaunchFailsPreserves ==
  ASSUME IInv, LaunchFails
  PROVE  IInv'
<1> USE DEF IInv, environment
<1>1. /\ pc = "launch" /\ pc' = "entries" /\ at' = at + 1
      /\ keep' = keep \cup {config[s].name : s \in running}
      /\ next' = AppendAll(next, running)
      /\ config' = [config EXCEPT ![built] = NoConfig] /\ built' = 0
      /\ UNCHANGED <<environment, live, workspaces, published, desired, changes,
                     starting>>
      /\ failures' = failures + 1 /\ failures < MaxFailures /\ Retain(live)
  BY DEF LaunchFails
<1>2. failures' # 0 /\ failures' \in 0..MaxFailures
  BY <1>1, ManagerAssumption DEF TypeOK
<1>3. /\ at \in 1..Len(desired) /\ desired[at] \in Sound
      /\ Len(desired) \in Nat /\ Current \subseteq Sources
      /\ built \in Sources /\ built \notin Current \cup live
      /\ live \subseteq Sources
  BY <1>1, Facts DEF Building
<1>4. CredentialsTypeOK'
  BY <1>1, RetainTyped DEF TypeOK
<1>5. /\ config' \in [Sources -> Configs \cup {NoConfig}]
      /\ \A t \in Current \cup live : config'[t] = config[t]
  BY <1>1, <1>3 DEF TypeOK
<1>6. Wanted' /\ Configured' /\ ClaimsAreSound' /\ Current' = Current
  BY <1>1, <1>2, <1>5, CurrentStays
<1>7. /\ Picked /\ Marks /\ live = Current \cup Gathered
      /\ changes = 0 => Gathered \subseteq Current
  BY <1>1 DEF Progress
<1>8. /\ Picked' /\ Marks' /\ next' \in Seq(live) /\ Gathered' \subseteq Gathered \cup Current
      /\ Gathered \subseteq Gathered'
  <2>1. CASE /\ running = {} /\ AppendAll(next, running) = next
             /\ \A t \in Current : config[t].name # desired[at].name
    <3>1. next' = next /\ keep' = keep /\ Gathered' = Gathered
      BY <1>1, <2>1 DEF Gathered
    <3>2. Picked'
      BY <1>1, <1>2, <1>3, <1>5, <1>7, <2>1, <3>1, NoneIsPicked
    <3>3. Marks'
      BY <1>5, <1>6, <1>7, <3>1 DEF Marks
    <3> QED BY <3>1, <3>2, <3>3 DEF TypeOK
  <2>2. ASSUME NEW s \in Current, running = {s},
               AppendAll(next, running) = Append(next, s),
               config[s].name = desired[at].name
        PROVE  /\ Picked' /\ Marks' /\ next' \in Seq(live)
               /\ Gathered' \subseteq Gathered \cup Current
               /\ Gathered \subseteq Gathered'
    <3>1. next' = Append(next, s) /\ keep' = keep \cup {desired[at].name}
      BY <1>1, <2>2
    <3>2. next \in Seq(live) /\ s \in live
      BY <1>7 DEF TypeOK
    <3>3. Append(next, s) \in Seq(live)
      BY <3>2
    <3>4. Members(Append(next, s)) = Members(next) \cup {s}
      BY <3>2, MembersAppend
    <3>5. Gathered' = Gathered \cup {s} /\ next' \in Seq(live)
      BY <3>1, <3>3, <3>4 DEF Gathered
    <3>6. Picked'
      BY <1>1, <1>2, <1>3, <1>5, <1>7, <2>2, <3>5, OneIsPicked
    <3>7. \A t \in Current : config[t].name = desired[at].name => t = s
      BY <2>2 DEF Configured
    <3>8. Marks'
      BY <1>5, <1>6, <1>7, <2>2, <3>1, <3>5, <3>7 DEF Marks
    <3> QED BY <3>5, <3>6, <3>8
  <2> QED BY <1>3, <2>1, <2>2, RunningIsOne
<1>9. TypeOK'
  <2>1. keep' \in SUBSET Names
    <3>1. \A s \in running : config[s].name \in Names
      BY ConfigParts DEF running, Current, Configured, Sound
    <3> QED BY <1>1, <3>1 DEF TypeOK
  <2>2. at' \in 1..(Len(desired) + 1) /\ workspaces \in Seq(live)
    BY <1>1, <1>3 DEF TypeOK
  <2> QED BY <1>1, <1>2, <1>4, <1>5, <1>8, <2>1, <2>2 DEF TypeOK
<1>10. Progress'
  BY <1>1, <1>6, <1>7, <1>8 DEF Progress
<1>11. Building' /\ Starting'
  BY <1>1 DEF Building, Starting
<1> QED BY <1>6, <1>9, <1>10, <1>11

LEMMA StartFailsPreserves ==
  ASSUME IInv, StartFails
  PROVE  IInv'
<1> USE DEF IInv, StartFails, environment
<1>1. CredentialsTypeOK'
  BY RetainTyped DEF TypeOK
<1>2. failures' \in 0..MaxFailures
  BY ManagerAssumption DEF TypeOK
<1>3. workspaces' = <<>> /\ published' = <<>> /\ starting'
  BY DEF Starting
<1>4. Len(<<>>) = 0 /\ \A S : <<>> \in Seq(S)
  OBVIOUS
<1>5. Current' = {} /\ Members(workspaces') = {}
  BY <1>3, <1>4 DEF Current, Members
<1>6. TypeOK'
  <2>1. config' \in [Sources -> Configs \cup {NoConfig}] /\ starting' \in BOOLEAN
    BY DEF TypeOK
  <2> QED BY <1>1, <1>2, <1>3, <1>4, <2>1 DEF TypeOK
<1>7. Wanted' /\ Configured'
  BY <1>3, <1>4, <1>5 DEF Wanted, Configured
<1>8. Building' /\ Progress' /\ Starting' /\ ClaimsAreSound'
  BY <1>3, <1>5 DEF Building, Progress, Starting, ClaimsAreSound
<1> QED BY <1>6, <1>7, <1>8

LEMMA StopOldPreserves ==
  ASSUME IInv, StopOld
  PROVE  IInv'
<1> USE DEF IInv, environment
<1> DEFINE stopped == {s \in Current : config[s].name \notin keep}
           gone == stopped \ Gathered
<1>1. /\ pc = "entries" /\ at > Len(desired) /\ live' = live \ stopped
      /\ changes' = changes + Cardinality(gone)
      /\ pc' = IF changes' = 0 THEN "idle" ELSE "replace"
      /\ UNCHANGED <<environment, failures, config, workspaces, published,
                     built, desired, next, keep, at, files, credentials,
                     starting>>
  BY DEF StopOld, Current, Gathered
<1>2. CredentialsTypeOK'
  BY <1>1, QuietTyped DEF TypeOK
<1>3. /\ IsFiniteSet(Current) /\ live \subseteq Sources
      /\ Len(desired) \in Nat /\ at = Len(desired) + 1
  BY <1>1, Facts
<1>4. /\ Picked /\ live = Current \cup Gathered
      /\ changes = 0 => Gathered \subseteq Current
      /\ \A s \in Current : s \in Gathered <=> s \notin stopped
  BY <1>1 DEF Progress, Marks
<1>5. Cardinality(gone) \in Nat /\ (Cardinality(gone) = 0 <=> gone = {})
  <2>1. gone \subseteq Current
    OBVIOUS
  <2>2. IsFiniteSet(gone)
    BY <1>3, <2>1, FS_Subset
  <2> QED BY <2>2, FS_CardinalityType, FS_EmptySet
<1>6. /\ changes' \in Nat
      /\ changes' = 0 => changes = 0 /\ gone = {}
  <2>1. changes \in Nat
    BY DEF TypeOK
  <2> HIDE DEF gone
  <2> QED BY <1>1, <1>5, <2>1
<1>7. /\ live' = Gathered
      /\ changes' = 0 => live' = Current
  BY <1>1, <1>4, <1>6
<1>8. Wanted' /\ Configured' /\ ClaimsAreSound' /\ Current' = Current
  BY <1>1, CurrentStays
<1>9. Picked' /\ Gathered' = Gathered
  BY <1>1, <1>4, PickedStays DEF Gathered
<1>10. TypeOK'
  <2>1. next' \in Seq(live')
    BY <1>1, <1>7, SequenceOver DEF TypeOK, Gathered
  <2>2. workspaces' \in Seq(live') \/ pc' = "replace"
    BY <1>1, <1>7, SequenceOver DEF Configured, Current
  <2> QED BY <1>1, <1>2, <1>3, <1>6, <2>1, <2>2 DEF TypeOK
<1>11. Progress'
  BY <1>1, <1>3, <1>6, <1>7, <1>8, <1>9 DEF Progress
<1>12. Building' /\ Starting'
  BY <1>1 DEF Building, Starting
<1> QED BY <1>8, <1>10, <1>11, <1>12

LEMMA ReplacePreserves ==
  ASSUME IInv, Replace
  PROVE  IInv'
<1> USE DEF IInv, Replace, environment, locals
<1>1. CredentialsTypeOK'
  BY RetainTyped DEF TypeOK
<1>2. /\ live \subseteq Sources /\ Gathered \subseteq live /\ next \in Seq(Sources)
      /\ \A i \in Seen : i \in 1..Len(desired)
  BY Facts
<1>3. Picked /\ live = Gathered
  BY DEF Progress
<1>4. Current' = Gathered /\ Members(workspaces') = Gathered
  BY DEF Current, Gathered
<1>5. \A s \in Gathered : config'[s] = config[s] /\ config[s] \in Sound
  BY <1>2 DEF Gathered, Configured
<1>6. TypeOK'
  <2>1. config' \in [Sources -> Configs \cup {NoConfig}]
    BY DEF TypeOK
  <2>2. workspaces' \in Seq(live') /\ starting' \in BOOLEAN
    BY DEF TypeOK
  <2> QED BY <1>1, <2>1, <2>2 DEF TypeOK
<1>7. Wanted'
  BY DEF Wanted
<1>8. Configured'
  BY <1>2, <1>3, <1>4, <1>5 DEF Configured, Picked
<1>9. ClaimsAreSound'
  <2> SUFFICES ASSUME NEW s \in Gathered, NEW t \in Gathered, NEW g \in Groups
               PROVE  /\ Matches(config[s].groups, g) /\ Under(g, Reserved) =>
                           g \in NamedGroups(config[s].groups)
                      /\ failures = 0 /\ s # t =>
                           g \notin NamedGroups(config[s].groups)
                                      \cap NamedGroups(config[t].groups)
    BY <1>4, <1>5 DEF ClaimsAreSound
  <2>1. Matches(config[s].groups, g) /\ Under(g, Reserved) =>
          g \in NamedGroups(config[s].groups)
    <3>1. config[s] \in Configs /\ ParseGroupMatcher(config[s].groups)
      BY <1>5 DEF Sound
    <3>2. config[s].groups \in Seq(Patterns(STRING)) /\ g \in Seq(STRING)
      BY <3>1, ConfigParts, ManagerAssumption
    <3> QED BY <3>1, <3>2, ReservedIsNamed
  <2>2. ASSUME failures = 0, s # t
        PROVE  NamedGroups(config[s].groups) \cap NamedGroups(config[t].groups) = {}
    <3>1. PICK i \in Seen :
            /\ config[s].name = desired[i].name
            /\ NamedGroups(config[s].groups) = NamedGroups(desired[i].groups)
      BY <1>3, <2>2 DEF Picked
    <3>2. PICK j \in Seen :
            /\ config[t].name = desired[j].name
            /\ NamedGroups(config[t].groups) = NamedGroups(desired[j].groups)
      BY <1>3, <2>2 DEF Picked
    <3>3. i # j
      BY <1>3, <2>2, <3>1, <3>2 DEF Picked
    <3> QED BY <1>2, <3>1, <3>2, <3>3 DEF Wanted
  <2> QED BY <2>1, <2>2
<1>10. Progress' /\ Building' /\ Starting'
  BY <1>3, <1>4 DEF Progress, Building, Starting
<1> QED BY <1>6, <1>7, <1>8, <1>9, <1>10

LEMMA OnChangePreserves ==
  ASSUME IInv, OnChange
  PROVE  IInv'
<1> USE DEF IInv, OnChange, environment, locals
<1>1. CredentialsTypeOK'
  BY QuietTyped DEF TypeOK
<1>2. workspaces \in Seq(Sources)
  BY Facts
<1>3. TypeOK'
  BY <1>1, <1>2 DEF TypeOK
<1>4. Wanted' /\ Configured' /\ ClaimsAreSound' /\ Current' = Current
  BY CurrentStays
<1>5. Progress' /\ Building' /\ Starting'
  BY <1>4 DEF Progress, Building, Starting
<1> QED BY <1>3, <1>4, <1>5

-----------------------------------------------------------------------------
\* Every step preserves the invariant.
LEMMA NextInvariant == IInv /\ [Next]_vars => IInv'
<1> SUFFICES ASSUME IInv, [Next]_vars PROVE IInv'
  OBVIOUS
<1>0. /\ file \in Files /\ edits \in 0..MaxEdits /\ failures \in 0..MaxFailures
      /\ CredentialsTypeOK /\ MaxEdits \in Nat /\ MaxFailures \in Nat
  BY ManagerAssumption DEF IInv, TypeOK
<1>1. CASE Manage
  BY <1>1, ReloadPreserves, KeepPreserves, BuildPreserves, LaunchedPreserves,
     LaunchFailsPreserves, StartFailsPreserves, StopOldPreserves,
     ReplacePreserves, OnChangePreserves DEF Manage
<1>2. ASSUME NEW f \in Files, EditFile(f) PROVE IInv'
  BY <1>0, <1>2, QuietPreserves, QuietTyped DEF EditFile, manager
<1>3. ASSUME NEW p \in Paths, NEW u \in Servers, Rotate(p, u),
             UNCHANGED <<environment, manager>>
      PROVE  IInv'
  BY <1>0, <1>3, QuietPreserves, RotateTyped DEF environment, manager
<1>4. ASSUME NEW s \in Sources, ReloadCredentials(s) \/ ReloadCredentialsFails(s)
      PROVE  IInv'
  <2>1. s \in live /\ config[s] \in Configs
    BY <1>4 DEF ReloadCredentials, ReloadCredentialsFails, IInv, Configured, Sound
  <2>2. config[s].kubeconfig \in Paths
    BY <2>1, ConfigParts
  <2>3. CredentialsTypeOK'
    BY <1>0, <1>4, <2>2, CredentialsTyped
       DEF ReloadCredentials, ReloadCredentialsFails, CredentialsStep
  <2>4. /\ UNCHANGED <<config, live, workspaces, published, built, starting, pc,
                       locals>>
        /\ UNCHANGED <<file, edits>>
        /\ failures' \in 0..MaxFailures /\ (failures' = 0 => failures = 0)
    BY <1>0, <1>4 DEF ReloadCredentials, ReloadCredentialsFails, environment, manager
  <2> QED BY <1>0, <2>3, <2>4, QuietPreserves
<1>5. CASE UNCHANGED vars
  BY <1>0, <1>5, QuietPreserves, QuietTyped DEF vars, environment, manager
<1> QED BY <1>1, <1>2, <1>3, <1>4, <1>5 DEF Next

\* The inductive invariant, whatever the file may hold.
THEOREM Invariance == Spec => []IInv
  BY InitInvariant, NextInvariant, PTL DEF Spec

\* The manager's variables and the credentials keep their types; a workspace
\* that is routed to runs, except while a replacement is about to be published.
THEOREM TypeCorrect == Spec => []TypeOK
<1>1. IInv => TypeOK
  BY DEF IInv
<1> QED BY <1>1, Invariance, PTL

\* workspacemanager.go:138-209: whenever reconcile is not running, what runs is
\* what is routed to and was announced.
THEOREM LiveIsRoutedHolds == Spec => []LiveIsRouted
<1>1. IInv => LiveIsRouted
  BY DEF IInv, Progress, Starting, LiveIsRouted, Current
<1> QED BY <1>1, Invariance, PTL

\* groups.go:76 and workspaces.go:68: what is served claims a reserved group by
\* its name only, and, unless a launch failed, no group twice.
THEOREM ClaimsAreSoundHolds == Spec => []ClaimsAreSound
<1>1. IInv => ClaimsAreSound
  BY DEF IInv
<1> QED BY <1>1, Invariance, PTL

-----------------------------------------------------------------------------
(* The manager implements ServedConfiguration *)

Assignments == [Names -> Configs \cup {NoConfig}]

LEMMA AssignmentTyped ==
  ASSUME NEW configs, configs \subseteq Configs
  PROVE  AsAssignment(configs) \in Assignments
<1> DEFINE named(n) == {c \in configs : c.name = n}
<1>1. \A n \in Names : named(n) # {} => (CHOOSE c \in named(n) : TRUE) \in Configs
  OBVIOUS
<1> QED BY <1>1 DEF AsAssignment, Assignments

\* A name stands for the one configuration that has it, or for none.
LEMMA AssignmentFinds ==
  ASSUME NEW configs, NEW c \in configs, c.name \in Names,
         \A d \in configs : d.name = c.name => d = c
  PROVE  AsAssignment(configs)[c.name] = c
<1> DEFINE named == {d \in configs : d.name = c.name}
<1>1. named = {c}
  OBVIOUS
<1>2. (CHOOSE d \in named : TRUE) = c
  BY <1>1
<1> QED BY <1>1, <1>2 DEF AsAssignment

LEMMA AssignmentMisses ==
  ASSUME NEW configs, NEW n \in Names, \A d \in configs : d.name # n
  PROVE  AsAssignment(configs)[n] = NoConfig
<1>1. {d \in configs : d.name = n} = {}
  OBVIOUS
<1> QED BY <1>1 DEF AsAssignment

\* What is wanted and what is served are assignments.
LEMMA BothAreAssignments ==
  IInv => AsAssignment(Members(desired)) \in Assignments /\ serving \in Assignments
<1> SUFFICES ASSUME IInv
             PROVE  AsAssignment(Members(desired)) \in Assignments /\ serving \in Assignments
  OBVIOUS
<1>1. Members(desired) \subseteq Configs
  BY MembersOf DEF IInv, Wanted, Sound
<1>2. {config[s] : s \in Members(workspaces)} \subseteq Configs
  BY DEF IInv, Configured, Current, Sound
<1> QED BY <1>1, <1>2, AssignmentTyped DEF serving

\* The same after a step.
LEMMA BothStayAssignments ==
  IInv' => AsAssignment(Members(desired))' \in Assignments /\ serving' \in Assignments
<1>1. (IInv => AsAssignment(Members(desired)) \in Assignments
               /\ serving \in Assignments)'
  BY BothAreAssignments, PTL
<1> QED BY <1>1 DEF Assignments, Configs, loadWorkspaces, settingsOf

\* router.replace is one step of the promise: every name is served as wanted
\* or as before, and one that is not wanted is not served.
LEMMA ReplaceApplies ==
  ASSUME IInv, Replace, NEW n \in Names
  PROVE  LET wanted == AsAssignment(Members(desired))
         IN serving'[n] \in IF wanted[n] = NoConfig THEN {NoConfig}
                            ELSE {serving[n], wanted[n]}
<1> DEFINE wanted == AsAssignment(Members(desired))
           before == {config[s] : s \in Current}
           after == {config[s] : s \in Gathered}
<1>1. /\ Picked /\ live = Gathered /\ Len(desired) \in Nat
      /\ Seen = 1..Len(desired)
      /\ \A i \in 1..Len(desired) : desired[i] \in Configs
  BY Facts DEF IInv, Progress, Replace, Seen, Sound
<1>2. serving = AsAssignment(before) /\ serving' = AsAssignment(after)
  <2>1. Members(workspaces') = Gathered
    BY DEF Replace, Gathered
  <2>2. \A s \in Gathered : config'[s] = config[s]
    BY Facts DEF Replace, Gathered
  <2>3. {config'[s] : s \in Members(workspaces')} = after
    BY <2>1, <2>2
  <2> QED BY <2>3 DEF serving, Current
<1>3. /\ \A s \in Current : config[s].name \in Names
      /\ \A s \in Gathered : config[s].name \in Names
      /\ \A s, t \in Current : config[s].name = config[t].name => s = t
  BY <1>1, ConfigParts DEF IInv, Configured, Sound
<1>4. ASSUME NEW i \in 1..Len(desired), desired[i].name = n
      PROVE  wanted[n] = desired[i]
  <2>1. desired[i] \in Members(desired)
    BY DEF Members
  <2>2. \A d \in Members(desired) : d.name = n => d = desired[i]
    BY <1>4 DEF Members, IInv, Wanted
  <2> QED BY <1>4, <2>1, <2>2, AssignmentFinds
<1>5. ASSUME NEW s \in Gathered, config[s].name = n
      PROVE  serving'[n] = config[s]
  <2>1. \A c \in after : c.name = n => c = config[s]
    BY <1>1, <1>5 DEF Picked
  <2>2. config[s] \in after
    OBVIOUS
  <2> HIDE DEF after
  <2> QED BY <1>2, <1>5, <2>1, <2>2, AssignmentFinds
<1>6. ASSUME NEW s \in Current, config[s].name = n
      PROVE  serving[n] = config[s]
  <2>1. \A c \in before : c.name = n => c = config[s]
    BY <1>3, <1>6
  <2>2. config[s] \in before
    OBVIOUS
  <2> HIDE DEF before
  <2> QED BY <1>2, <1>6, <2>1, <2>2, AssignmentFinds
<1>7. CASE \E s \in Gathered : config[s].name = n
  <2>1. PICK s \in Gathered : config[s].name = n
    BY <1>7
  <2>2. PICK i \in 1..Len(desired) :
          desired[i].name = n /\ (config[s] = desired[i] \/ s \in Current)
    BY <1>1, <2>1 DEF Picked
  <2>3. wanted[n] = desired[i] /\ wanted[n] # NoConfig
    BY <1>1, <1>4, <2>2, ConfigParts
  <2>4. serving'[n] \in {serving[n], wanted[n]}
    BY <1>5, <1>6, <2>1, <2>2, <2>3
  <2> HIDE DEF wanted
  <2> QED BY <2>3, <2>4 DEF wanted
<1>8. CASE ~\E s \in Gathered : config[s].name = n
  <2>1. serving'[n] = NoConfig
    <3>1. \A c \in after : c.name # n
      BY <1>8
    <3> HIDE DEF after
    <3> QED BY <1>2, <3>1, AssignmentMisses
  <2>2. CASE \E i \in 1..Len(desired) : desired[i].name = n
    <3>1. PICK i \in 1..Len(desired) : desired[i].name = n
      BY <2>2
    <3>2. \A s \in Current : config[s].name # n
      BY <1>1, <1>8, <3>1 DEF Picked
    <3>3. \A c \in before : c.name # n
      BY <3>2
    <3>4. serving[n] = NoConfig
      <4> HIDE DEF before
      <4> QED BY <1>2, <3>3, AssignmentMisses
    <3> QED BY <2>1, <3>4
  <2>3. CASE ~\E i \in 1..Len(desired) : desired[i].name = n
    <3>1. \A d \in Members(desired) : d.name # n
      BY <2>3 DEF Members
    <3>2. wanted[n] = NoConfig
      BY <3>1, AssignmentMisses
    <3> QED BY <2>1, <3>2
  <2> QED BY <2>2, <2>3
<1> QED BY <1>7, <1>8

\* Every step of the manager is a step of the promise, or none.
LEMMA StepRefines ==
  ASSUME IInv, IInv', [Next]_vars
  PROVE  [Promise!Next]_<<AsAssignment(Members(desired)), serving>>
<1>0. /\ AsAssignment(Members(desired)) \in Assignments /\ serving \in Assignments
      /\ AsAssignment(Members(desired))' \in Assignments /\ serving' \in Assignments
  BY BothAreAssignments, BothStayAssignments
<1>1. ASSUME UNCHANGED <<workspaces, desired>>,
             \A s \in Current : config'[s] = config[s]
      PROVE  UNCHANGED <<AsAssignment(Members(desired)), serving>>
  <2>1. {config'[s] : s \in Members(workspaces)} = {config[s] : s \in Members(workspaces)}
    BY <1>1 DEF Current
  <2> QED BY <1>1, <2>1 DEF serving
<1>2. CASE Reload
  <2>1. serving' = serving
    BY <1>2 DEF Reload, serving
  <2> QED BY <1>0, <2>1 DEF Promise!Next, Promise!Read, Promise!Assignments, Assignments
<1>3. CASE StartFails
  <2>1. Members(workspaces) = {} /\ workspaces' = workspaces
    BY <1>3 DEF IInv, Starting, StartFails, Members
  <2>2. serving' = serving
    BY <2>1 DEF serving
  <2> QED BY <1>0, <2>2 DEF Promise!Next, Promise!Read, Promise!Assignments, Assignments
<1>4. CASE Replace
  <2>1. \A n \in Names :
          serving'[n] \in IF AsAssignment(Members(desired))[n] = NoConfig THEN {NoConfig}
                          ELSE {serving[n], AsAssignment(Members(desired))[n]}
    BY <1>4, ReplaceApplies
  <2>2. AsAssignment(Members(desired))' = AsAssignment(Members(desired))
    BY <1>4 DEF Replace, locals
  <2> QED BY <1>0, <2>1, <2>2
          DEF Promise!Next, Promise!Apply, Promise!Assignments, Assignments
<1>5. CASE Build
  <2>1. PICK s \in free : config' = [config EXCEPT ![s] = desired[at]]
    BY <1>5 DEF Build, entry
  <2>2. s \in Sources /\ s \notin Current
    BY ManagerAssumption DEF IInv, Configured, Sound, free
  <2>3. \A t \in Current : config'[t] = config[t]
    BY <2>1, <2>2, Facts DEF IInv, TypeOK
  <2> QED BY <1>1, <1>5, <2>3 DEF Build, locals
<1>6. CASE LaunchFails
  <2>1. built \in Sources /\ built \notin Current
    BY <1>6 DEF IInv, Building, LaunchFails
  <2>2. \A t \in Current : config'[t] = config[t]
    BY <1>6, <2>1, Facts DEF IInv, TypeOK, LaunchFails
  <2> QED BY <1>1, <1>6, <2>2 DEF LaunchFails
<1>7. CASE KeepRunning \/ Launched \/ StopOld \/ OnChange
  BY <1>1, <1>7 DEF KeepRunning, Launched, StopOld, OnChange, locals
<1>8. CASE \/ \E f \in Files : EditFile(f)
           \/ \E p \in Paths, u \in Servers :
                Rotate(p, u) /\ UNCHANGED <<environment, manager>>
           \/ \E s \in Sources : ReloadCredentials(s) \/ ReloadCredentialsFails(s)
           \/ UNCHANGED vars
  <2>1. UNCHANGED <<workspaces, desired, config>>
    BY <1>8 DEF EditFile, ReloadCredentials, ReloadCredentialsFails, vars, manager,
                locals
  <2> QED BY <1>1, <2>1
<1> QED BY <1>2, <1>3, <1>4, <1>5, <1>6, <1>7, <1>8 DEF Next, Manage

\* workspacemanager.go:13-23 and 130-137: the manager implements
\* ServedConfiguration, whatever it launches, keeps, stops and fails to launch.
THEOREM KeepsPromiseHolds == Spec => KeepsPromise
<1>1. Init => Promise!Init
  <2> SUFFICES ASSUME Init PROVE Promise!Init
    OBVIOUS
  <2>1. IInv
    BY InitInvariant
  <2>2. Members(workspaces) = {}
    BY DEF Init, Members
  <2>3. serving = AsAssignment({})
    BY <2>2 DEF serving
  <2>4. serving = [n \in Names |-> NoConfig]
    BY <2>3 DEF AsAssignment
  <2> QED BY <2>1, <2>4, BothAreAssignments
          DEF Promise!Init, Promise!Assignments, Assignments
<1>2. IInv /\ IInv' /\ [Next]_vars =>
        [Promise!Next]_<<AsAssignment(Members(desired)), serving>>
  BY StepRefines
<1> QED BY <1>1, <1>2, Invariance, PTL DEF Spec, KeepsPromise, Promise!Spec
=============================================================================
