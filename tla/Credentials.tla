----------------------------- MODULE Credentials -----------------------------
(***************************************************************************)
(* The credentials of a workspace and their rotation                       *)
(* (pkg/apiserver/credentials.go, backendRoundTripper in proxy.go).        *)
(*                                                                         *)
(* A kubeconfig is the server it names and the number of the token it      *)
(* holds, and its digest is both: sha256 tells any two contents apart.     *)
(* The file is read twice, once for its digest and once to build a         *)
(* transport from it, and may be rewritten in between.  No content comes   *)
(* back: a rewrite always has a token of its own.                          *)
(*                                                                         *)
(* What is replaced is the transport of the proxy and of its side channel. *)
(* The discovery client and the CRD informer are built from the file once, *)
(* at launch (apiserver.go:327), and keep what it held then; they are not  *)
(* modelled.                                                               *)
(***************************************************************************)
EXTENDS Naturals

CONSTANTS
  Paths,         \* kubeconfig files
  Servers,       \* the URLs they may name
  FirstServer,   \* the one they name at first
  Sources,       \* credentialSources, one per launched workspace
  MaxRotations,  \* bound: rewrites of kubeconfig files
  NoDigest

VARIABLES
  kubeconfig,  \* content of each file
  rotations,   \* how much of MaxRotations is used up
  current,     \* credentialSource.current: what the proxy's transport was
               \* built from
  digest,      \* credentialSource.digest
  taken,       \* the digest reload has read, until it builds a transport
  overtaken    \* history: sources whose file changed while they were built

files == <<kubeconfig, rotations>>
credentials == <<current, digest, taken, overtaken>>

Contents == [server : Servers, token : 0..MaxRotations]

ASSUME CredentialsAssumption ==
  /\ FirstServer \in Servers
  /\ MaxRotations \in Nat
  /\ NoDigest \notin Contents

CredentialsTypeOK ==
  /\ kubeconfig \in [Paths -> Contents]
  /\ rotations \in 0..MaxRotations
  /\ current \in [Sources -> Contents \cup {NoDigest}]
  /\ digest \in [Sources -> Contents \cup {NoDigest}]
  /\ taken \in [Sources -> Contents \cup {NoDigest}]
  /\ overtaken \in SUBSET Sources

CredentialsInit ==
  /\ kubeconfig = [p \in Paths |-> [server |-> FirstServer, token |-> 0]]
  /\ rotations \in 0..MaxRotations
  /\ current = [s \in Sources |-> NoDigest]
  /\ digest = [s \in Sources |-> NoDigest]
  /\ taken = [s \in Sources |-> NoDigest]
  /\ overtaken = {}

\* A Secret is updated: a new token, and perhaps another server.
Rotate(path, server) ==
  /\ rotations < MaxRotations
  /\ rotations' = rotations + 1
  /\ kubeconfig' = [kubeconfig EXCEPT ![path] =
                      [server |-> server, token |-> rotations']]
  /\ UNCHANGED credentials

\* kcp.RestConfig, for a workspace being built, and the transport made of it by
\* credentialedRoundTripper.
BuildTransport(s, path) ==
  /\ current' = [current EXCEPT ![s] = kubeconfig[path]]
  /\ UNCHANGED <<files, digest, taken, overtaken>>

\* newCredentialSource remembers the digest of the file as it now is.
RememberDigest(s, path) ==
  /\ digest' = [digest EXCEPT ![s] = kubeconfig[path]]
  /\ overtaken' = IF kubeconfig[path] # current[s]
                  THEN overtaken \cup {s} ELSE overtaken
  /\ UNCHANGED <<files, current, taken>>

\* Faulty: the digest is remembered when it is read, not when it is applied.
ReadDigest_Remembers(s, path) ==
  /\ taken[s] = NoDigest
  /\ kubeconfig[path] # digest[s]
  /\ taken' = [taken EXCEPT ![s] = kubeconfig[path]]
  /\ digest' = [digest EXCEPT ![s] = kubeconfig[path]]
  /\ UNCHANGED <<files, current, overtaken>>

\* reload up to the comparison of the digests; an unchanged file ends it.
ReadDigest(s, path) ==
  /\ taken[s] = NoDigest
  /\ kubeconfig[path] # digest[s]
  /\ taken' = [taken EXCEPT ![s] = kubeconfig[path]]
  /\ UNCHANGED <<files, current, digest, overtaken>>

\* The rest of reload: the file is read again.  One that names another server
\* is not followed, but its digest is kept.
ReplaceTransport(s, path) ==
  /\ taken[s] # NoDigest
  /\ digest' = [digest EXCEPT ![s] = taken[s]]
  /\ current' = IF kubeconfig[path].server = current[s].server
                THEN [current EXCEPT ![s] = kubeconfig[path]] ELSE current
  /\ taken' = [taken EXCEPT ![s] = NoDigest]
  /\ UNCHANGED <<files, overtaken>>

\* The file cannot be loaded when it is read again: tried on the next tick.
ReloadFails(s) ==
  /\ taken[s] # NoDigest
  /\ taken' = [taken EXCEPT ![s] = NoDigest]
  /\ UNCHANGED <<files, current, digest, overtaken>>

\* Only the sources of workspaces that are still reachable remain.
Retain(sources) ==
  LET retained(f) == [s \in Sources |-> IF s \in sources THEN f[s] ELSE NoDigest]
  IN /\ current' = retained(current)
     /\ digest' = retained(digest)
     /\ taken' = retained(taken)
     /\ overtaken' = overtaken \cap sources
     /\ UNCHANGED files
=============================================================================
