-------------------------- MODULE CertificateCache --------------------------
(***************************************************************************)
(* The cloud certificate cache (src/server/ssl_cloud_cache.go) and the     *)
(* object store below it (src/cloud/azure.go, src/cloud/gcp.go), as used   *)
(* by SSLManager.Run's prefetch in several replicas of a service.          *)
(*                                                                         *)
(* DownloadFile writes the object to a file of the system's temporary      *)
(* directory named after its last path element: every goroutine on a host  *)
(* that downloads objects of the same base name shares that file.  Beside  *)
(* its prefetch a replica has the handlers of its challenge server, which  *)
(* look for tokens in the same cache, under names of their own, and may    *)
(* have an application goroutine that downloads an object with the         *)
(* certificate's base name through the same Cloud.                         *)
(*                                                                         *)
(* autocert.Manager is external.  GetCertificate returns what the cache    *)
(* has, orders a certificate (and stores it, ignoring errors) when the     *)
(* cache says ErrCacheMiss or holds what it cannot parse or does not       *)
(* accept (expired, not yet valid, of another domain), and fails on any    *)
(* other error of the cache.  The account key it keeps in the same cache   *)
(* is part of an order: where it cannot be read, the order fails.  Its     *)
(* renewals, by a timer that the prefetch starts, come after and are left  *)
(* out.                                                                    *)
(***************************************************************************)
EXTENDS Integers

CONSTANTS
  Replicas,     \* processes of the service
  Apps,         \* those that also run an application download
  Tokens,       \* of the requests for a challenge's answer
  Challenges,   \* those requests: which challenge server gets which
  Hosts,        \* temporary directories
  Configs,      \* a subset of ConfigSpace
  MaxAttempts,  \* of the prefetch; Run passes 10
  Foreign       \* the content of the application's object

ASSUME MaxAttemptsAssumption == MaxAttempts \in Nat \ {0}
ASSUME ReplicasAssumption == Apps \subseteq Replicas
ASSUME ChallengesAssumption ==
  Challenges \subseteq Replicas \X Tokens /\ {"manager", "app"} \cap Tokens = {}
ASSUME ForeignAssumption == Foreign \notin Nat

Manager(r) == <<r, "manager">>
Others     == (Apps \X {"app"}) \cup Challenges
Tasks      == (Replicas \X {"manager"}) \cup Others

\* The Cloud, who shares a temporary directory, whether SslBucket is set, the
\* number of the certificate already in the bucket, 0 for none, and what there
\* is beside the prefetches.
ConfigSpace ==
  [provider : {"azure", "gcp"}, host : [Replicas -> Hosts],
   bucketSet : BOOLEAN, first : {0, 1}, others : SUBSET Others]

ASSUME ConfigsAssumption == Configs \subseteq ConfigSpace

VARIABLES
  cfg,        \* the configuration, a member of Configs
  stored,     \* the certificate in the bucket, 0 for none
  expired,    \* is the certificate that was in the bucket first no longer accepted?
  issued,     \* certificates ordered so far
  file,       \* the shared file of every host: its two parts, 0 for no data
  client,     \* the SDK client of every replica's Cloud
  pc,         \* the next step of every task
  want,       \* what the object store answered a download with
  tries,      \* failed attempts of every replica's prefetch
  has,        \* the certificate every replica serves, 0 for none
  mixed,      \* tasks whose file another one wrote since they created it (history)
  disturbed,  \* replicas that ordered after reading such a file (history)
  faulty      \* has a call failed, the file or the client? (history)

tasks   == <<pc, want, tries, has>>
history == <<mixed, disturbed, faulty>>
vars    == <<cfg, stored, expired, issued, file, client, tasks, history>>

HostOf(t) == cfg.host[t[1]]
Azure     == cfg.provider = "azure"

TaskSteps ==
  {"start", "making", "half", "create", "request", "write", "rest", "read",
   "order", "put", "have", "failed", "panicked"}

Ended == {"have", "failed", "panicked"}

Init ==
  /\ cfg \in Configs
  /\ stored = cfg.first
  /\ expired \in (IF cfg.first = 0 THEN {FALSE} ELSE BOOLEAN)
  /\ issued = 0
  /\ file = [h \in Hosts |-> <<0, 0>>]
  /\ client = [r \in Replicas |-> "none"]
  /\ pc = [t \in Tasks |-> IF t \in Others \ cfg.others THEN "have" ELSE "start"]
  /\ want = [t \in Tasks |-> 0]
  /\ tries = [r \in Replicas |-> 0]
  /\ has = [r \in Replicas |-> 0]
  /\ mixed = [t \in Tasks |-> FALSE]
  /\ disturbed = {}
  /\ faulty = FALSE

Goto(t, step) == pc' = [pc EXCEPT ![t] = step]

\* Wrong: the attempts are not counted against their limit.
ErrorForever(t) ==
  IF t[2] # "manager"
    THEN Goto(t, "failed") /\ UNCHANGED tries
    ELSE /\ tries' = [tries EXCEPT ![t[1]] = @ + 1]
         /\ Goto(t, IF tries[t[1]] = MaxAttempts THEN "failed" ELSE "start")

\* DownloadFile or Get returns an error: the application and the challenge
\* server's handler give up, the prefetch tries again unless it was the last
\* attempt.
Error(t) ==
  IF t[2] # "manager"
    THEN Goto(t, "failed") /\ UNCHANGED tries
    ELSE /\ tries' = [tries EXCEPT ![t[1]] = @ + 1]
         /\ Goto(t, IF tries[t[1]] + 1 = MaxAttempts THEN "failed" ELSE "start")

\* Azure creates the file before it asks for the object, GCP after.  A token's
\* file is no other object's, and is left out.
Prepared(t) == IF Azure /\ t \notin Challenges THEN "create" ELSE "request"

\* Between its os.Create and the ReadFile, a task depends on the shared file.
Holds(u) ==
  \/ pc[u] \in {"write", "rest", "read"}
  \/ pc[u] = "request" /\ Azure /\ u \notin Challenges

\* A task creates or writes the shared file of its host.
Touch(t, parts, own) ==
  /\ file' = [file EXCEPT ![HostOf(t)] = parts]
  /\ mixed' = [u \in Tasks |->
                 IF u = t THEN own
                 ELSE mixed[u] \/ (HostOf(u) = HostOf(t) /\ Holds(u))]

------------------------------------------------------------------------------
(***************************************************************************)
(* The client, made on first use under a sync.Once.  Its error is sticky.  *)
(* Azure reads the field without synchronisation first, while the once may *)
(* be writing its two words: a reader may see a value that is not nil and  *)
(* whose data word is still nil ("torn").                                  *)
(***************************************************************************)

\* SslCloudCache.Get without a bucket.
NoBucket(t) ==
  /\ pc[t] = "start" /\ t[2] # "app" /\ ~cfg.bucketSet
  /\ Error(t)
  /\ UNCHANGED <<cfg, stored, expired, issued, file, client, want, has, history>>

Asks(t) == pc[t] = "start" /\ (t[2] # "app" => cfg.bucketSet)

\* Wrong: a client being made passes for made.
UsableEarly(r) == client[r] \in {"making", "torn", "made"}

\* Ready without the once (Azure only), or after it.
Usable(r) == client[r] = "made" \/ (Azure /\ client[r] = "torn")

ClientReady(t) ==
  /\ Asks(t) /\ Usable(t[1])
  /\ Goto(t, Prepared(t))
  /\ UNCHANGED <<cfg, stored, expired, issued, file, client, want, tries, has, history>>

ClientFailed(t) ==
  /\ Asks(t) /\ client[t[1]] = "failed"
  /\ Error(t)
  /\ UNCHANGED <<cfg, stored, expired, issued, file, client, want, has, history>>

MakeClient(t) ==
  /\ Asks(t) /\ client[t[1]] = "none"
  /\ client' = [client EXCEPT ![t[1]] = "making"]
  /\ Goto(t, "making")
  /\ UNCHANGED <<cfg, stored, expired, issued, file, want, tries, has, history>>

\* Wrong: the once is not released when no client can be made.
ClientFailsHeld(t) ==
  /\ pc[t] = "making"
  /\ faulty' = TRUE
  /\ Error(t)
  /\ UNCHANGED <<cfg, stored, expired, issued, file, client, want, has, mixed, disturbed>>

ClientFails(t) ==
  /\ pc[t] = "making"
  /\ client' = [client EXCEPT ![t[1]] = "failed"]
  /\ faulty' = TRUE
  /\ Error(t)
  /\ UNCHANGED <<cfg, stored, expired, issued, file, want, has, mixed, disturbed>>

ClientHalfMade(t) ==
  /\ pc[t] = "making" /\ Azure
  /\ client' = [client EXCEPT ![t[1]] = "torn"]
  /\ Goto(t, "half")
  /\ UNCHANGED <<cfg, stored, expired, issued, file, want, tries, has, history>>

ClientMade(t) ==
  /\ pc[t] = "half" \/ (pc[t] = "making" /\ ~Azure)
  /\ client' = [client EXCEPT ![t[1]] = "made"]
  /\ Goto(t, Prepared(t))
  /\ UNCHANGED <<cfg, stored, expired, issued, file, want, tries, has, history>>

------------------------------------------------------------------------------
(***************************************************************************)
(* DownloadFile: os.Create, which truncates, the request, and the writes,  *)
(* of which there are two.  Then os.ReadFile, one read of such a file.     *)
(***************************************************************************)
Create(t) ==
  /\ pc[t] = "create"
  /\ Touch(t, <<0, 0>>, FALSE)
  /\ Goto(t, IF Azure THEN "request" ELSE "write")
  /\ UNCHANGED <<cfg, stored, expired, issued, client, want, tries, has, disturbed, faulty>>

Object(t) == IF t[2] = "app" THEN Foreign ELSE stored

Request(t) ==
  /\ pc[t] = "request" /\ t \notin Challenges /\ client[t[1]] = "made" /\ Object(t) # 0
  /\ want' = [want EXCEPT ![t] = Object(t)]
  /\ Goto(t, IF Azure THEN "write" ELSE "create")
  /\ UNCHANGED <<cfg, stored, expired, issued, file, client, tries, has, history>>

\* Wrong: a missing object counts as a miss, and every replica orders its own.
ObjectMissingIsMiss(t) ==
  /\ pc[t] = "request" /\ t \notin Challenges /\ client[t[1]] = "made" /\ Object(t) = 0
  /\ Goto(t, "order")
  /\ UNCHANGED <<cfg, stored, expired, issued, file, client, want, tries, has, history>>

\* The bucket has no such object.  The error says so, but Get wraps it: it
\* is not autocert.ErrCacheMiss.
ObjectMissing(t) ==
  /\ pc[t] = "request" /\ t \notin Challenges /\ client[t[1]] = "made" /\ Object(t) = 0
  /\ Error(t)
  /\ UNCHANGED <<cfg, stored, expired, issued, file, client, want, has, history>>

\* A token is there or is not; either ends the request for it.
TokenAnswered(t) ==
  /\ pc[t] = "request" /\ t \in Challenges /\ client[t[1]] = "made"
  /\ Goto(t, "have")
  /\ UNCHANGED <<cfg, stored, expired, issued, file, client, want, tries, has, history>>

\* A method call on a client whose data word is nil.
NilClient(t) ==
  /\ pc[t] = "request" /\ client[t[1]] # "made"
  /\ Goto(t, "panicked")
  /\ UNCHANGED <<cfg, stored, expired, issued, file, client, want, tries, has, history>>

\* Wrong: the path is returned while the download is still going on.
WriteUnfinished(t) ==
  /\ pc[t] = "write"
  /\ Touch(t, <<want[t], file[HostOf(t)][2]>>, mixed[t])
  /\ Goto(t, "read")
  /\ UNCHANGED <<cfg, stored, expired, issued, client, want, tries, has, disturbed, faulty>>

Write(t) ==
  /\ pc[t] \in {"write", "rest"}
  /\ Touch(t, IF pc[t] = "write" THEN <<want[t], file[HostOf(t)][2]>>
                                 ELSE <<file[HostOf(t)][1], want[t]>>, mixed[t])
  /\ Goto(t, IF pc[t] = "write" THEN "rest" ELSE "read")
  /\ UNCHANGED <<cfg, stored, expired, issued, client, want, tries, has, disturbed, faulty>>

\* A file cannot be created, the store does not answer, or a write fails.
DownloadFails(t) ==
  /\ pc[t] \in {"create", "write", "rest"} \/ (pc[t] = "request" /\ client[t[1]] = "made")
  /\ faulty' = TRUE
  /\ Error(t)
  /\ UNCHANGED <<cfg, stored, expired, issued, file, client, want, has, mixed, disturbed>>

------------------------------------------------------------------------------
(***************************************************************************)
(* What becomes of the bytes read.                                         *)
(***************************************************************************)
AppReads(t) ==
  /\ pc[t] = "read" /\ t[2] = "app"
  /\ Goto(t, "have")
  /\ UNCHANGED <<cfg, stored, expired, issued, file, client, want, tries, has, history>>

\* Both parts of one certificate, which is still accepted.
Accepted(parts) ==
  parts[1] = parts[2] /\ parts[1] \notin {0, Foreign} /\ ~(expired /\ parts[1] = cfg.first)

CertificateRead(t) ==
  /\ pc[t] = "read" /\ t[2] = "manager" /\ Accepted(file[HostOf(t)])
  /\ has' = [has EXCEPT ![t[1]] = file[HostOf(t)][1]]
  /\ Goto(t, "have")
  /\ UNCHANGED <<cfg, stored, expired, issued, file, client, want, tries, history>>

\* autocert takes what it cannot parse, or does not accept, for a miss.
GarbageRead(t) ==
  /\ pc[t] = "read" /\ t[2] = "manager" /\ ~Accepted(file[HostOf(t)])
  /\ disturbed' = IF mixed[t] THEN disturbed \cup {t[1]} ELSE disturbed
  /\ Goto(t, "order")
  /\ UNCHANGED <<cfg, stored, expired, issued, file, client, want, tries, has, mixed, faulty>>

Order(t) ==
  /\ pc[t] = "order"
  /\ issued' = issued + 1
  /\ has' = [has EXCEPT ![t[1]] = 2 + issued]
  /\ Goto(t, "put")
  /\ UNCHANGED <<cfg, stored, expired, file, client, want, tries, history>>

OrderFails(t) ==
  /\ pc[t] = "order"
  /\ faulty' = TRUE
  /\ Error(t)
  /\ UNCHANGED <<cfg, stored, expired, issued, file, client, want, has, mixed, disturbed>>

Put(t) ==
  /\ pc[t] = "put"
  /\ stored' = has[t[1]]
  /\ Goto(t, "have")
  /\ UNCHANGED <<cfg, expired, issued, file, client, want, tries, has, history>>

PutFails(t) ==
  /\ pc[t] = "put"
  /\ faulty' = TRUE
  /\ Goto(t, "have")
  /\ UNCHANGED <<cfg, stored, expired, issued, file, client, want, tries, has, mixed, disturbed>>

\* The days of the bucket's first certificate are over.
Expire ==
  /\ ~expired /\ cfg.first # 0
  /\ expired' = TRUE
  /\ UNCHANGED <<cfg, stored, issued, file, client, tasks, history>>

Steps(t) ==
  \/ NoBucket(t) \/ ClientReady(t) \/ ClientFailed(t)
  \/ MakeClient(t) \/ ClientHalfMade(t) \/ ClientMade(t)
  \/ Create(t) \/ Request(t) \/ ObjectMissing(t) \/ TokenAnswered(t) \/ NilClient(t) \/ Write(t)
  \/ AppReads(t) \/ CertificateRead(t) \/ GarbageRead(t)
  \/ Order(t) \/ Put(t)

Faults(t) == ClientFails(t) \/ DownloadFails(t) \/ OrderFails(t) \/ PutFails(t)

Next == Expire \/ \E t \in Tasks : Steps(t) \/ Faults(t)

Spec == Init /\ [][Next]_vars

\* The program goes on as long as one of its goroutines can.
FairSpec == Spec /\ WF_vars(\E t \in Tasks : Steps(t))

------------------------------------------------------------------------------
\* The type invariant.
TypeOK ==
  /\ cfg \in Configs
  /\ stored \in Nat
  /\ expired \in BOOLEAN
  /\ issued \in Nat
  /\ file \in [Hosts -> (Nat \cup {Foreign}) \X (Nat \cup {Foreign})]
  /\ client \in [Replicas -> {"none", "making", "torn", "made", "failed"}]
  /\ pc \in [Tasks -> TaskSteps]
  /\ want \in [Tasks -> Nat \cup {Foreign}]
  /\ tries \in [Replicas -> 0 .. MaxAttempts]
  /\ has \in [Replicas -> Nat]
  /\ mixed \in [Tasks -> BOOLEAN]
  /\ disturbed \subseteq Replicas
  /\ faulty \in BOOLEAN

\* The file DownloadFile hands to its caller is the object the store answered
\* with, in full, unless another download of the same base name came in
\* between on this host, whatever failed or was left behind before.
ReadsWhole ==
  \A t \in Tasks : pc[t] = "read" /\ ~mixed[t] => file[HostOf(t)] = <<want[t], want[t]>>

\* Replicas share one certificate as long as autocert accepts the bucket's: two
\* prefetch different ones, or one other than the bucket had, only if some
\* replica's read was disturbed by another download on its host.
SameCertificate ==
  disturbed = {} /\ ~expired =>
    stored = cfg.first /\ \A r \in Replicas : has[r] \in {0, cfg.first}

\* What README.md:407 says, that replicas share the same certificates without
\* race conditions: when nothing fails and no two share a host's files, no two
\* of them order one each.
OneOrder == ~faulty /\ disturbed = {} => issued <= 1

\* A nil client is called only with Azure, and only while another goroutine of
\* the replica is in the middle of writing it.
PanicNeedsRace ==
  [][\A t \in Tasks : pc[t] # "panicked" /\ pc'[t] = "panicked" =>
       Azure /\ \E u \in Tasks \ {t} : u[1] = t[1] /\ pc[u] = "half"]_vars

\* The prefetch of every replica comes to an end, with a certificate or with
\* its attempts used up, whatever the other tasks do.
PrefetchEnds == \A r \in Replicas : <>(pc[Manager(r)] \in Ended)

\* A service started with an empty bucket obtains its first certificate: as
\* long as nothing fails, no prefetch gives up.
FirstCertificate ==
  ~faulty /\ cfg.bucketSet => \A r \in Replicas : pc[Manager(r)] # "failed"
=============================================================================
