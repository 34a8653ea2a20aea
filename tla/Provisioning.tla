---------------------------- MODULE Provisioning ----------------------------
(***************************************************************************)
(* What a service provisions when it starts: the MongoDB client            *)
(* (src/odm/client.go), a bucket (EnsureBucket, src/cloud/azure.go and     *)
(* src/cloud/gcp.go) and a collection with its indexes (EnsureIndexes,     *)
(* src/odm/ensure_index.go), by replicas that start together, of versions  *)
(* that may advertise different indexes.                                   *)
(*                                                                         *)
(* A start ends the process at the first error, as the README's programs   *)
(* do (log.Fatalf), and is made again.  MongoDB, Atlas and the object      *)
(* stores are external: an index that is there under the same name with    *)
(* the same definition is made again without an error; one that clashes    *)
(* with another, a unique one that the documents violate and an empty list *)
(* are refused; and a call that fails may have had its effect, or part.    *)
(***************************************************************************)
EXTENDS Naturals

CONSTANTS
  Replicas,
  Names,        \* of indexes
  Definitions,  \* of an index: its keys, paths, dimensions, options
  Configs,      \* a subset of ConfigSpace
  MaxFaults,    \* calls that fail and processes that die, together
  None

Kinds == {"classic", "search", "vector"}
Index == [kind : Kinds, name : Names, definition : Definitions]

\* The Cloud; whether its error for a bucket that is missing says "not found"
\* (asked of GCP's only); whether the bucket is there; the interfaces every
\* replica's model implements and the indexes it advertises by them, which may
\* be none; and the unique indexes that another program's documents violate.
ConfigSpace ==
  {c \in [provider : {"azure", "gcp"}, notFound : BOOLEAN, bucket : BOOLEAN,
           implemented : [Replicas -> SUBSET Kinds],
           advertised : [Replicas -> SUBSET Index],
           violated : SUBSET Definitions] :
     \A r \in Replicas : \A x \in c.advertised[r] : x.kind \in c.implemented[r]}

ASSUME ConfigsAssumption == Configs \subseteq ConfigSpace
ASSUME MaxFaultsAssumption == MaxFaults \in Nat
ASSUME NoneAssumption == None \notin Replicas

VARIABLES
  cfg,         \* the configuration, a member of Configs
  pc,          \* the call every replica's start is at, "down" or "up"
  bucket,      \* is there a bucket?
  collection,  \* is there a collection?
  indexes,     \* the collection's indexes
  saved,       \* has the other program saved its documents?
  faults,      \* faults so far
  maker,       \* who made the bucket, if one of them did (history)
  refused      \* the call at which a start last failed without a fault (history)

vars == <<cfg, pc, bucket, collection, indexes, saved, faults, maker, refused>>

Calls == {"connect", "bucket", "create", "collection"} \cup Kinds

After ==
  [connect |-> "bucket", bucket |-> "collection", create |-> "collection",
   collection |-> "classic", classic |-> "search", search |-> "vector", vector |-> "up"]

Init ==
  /\ cfg \in Configs
  /\ pc = [r \in Replicas |-> "down"]
  /\ bucket = cfg.bucket
  /\ collection = FALSE
  /\ indexes = {}
  /\ saved = FALSE
  /\ faults = 0
  /\ maker = None
  /\ refused = [r \in Replicas |-> "none"]

\* The call of r returns without an error.
Passes(r) == pc' = [pc EXCEPT ![r] = After[@]] /\ UNCHANGED <<faults, refused>>

\* It returns an error although nothing failed: the process ends.
Refused(r) ==
  /\ pc' = [pc EXCEPT ![r] = "down"]
  /\ refused' = [refused EXCEPT ![r] = pc[r]]
  /\ UNCHANGED faults

Start(r) ==
  /\ pc[r] = "down"
  /\ pc' = [pc EXCEPT ![r] = "connect"]
  /\ UNCHANGED <<cfg, bucket, collection, indexes, saved, faults, maker, refused>>

\* ProvideMongoClient, which pings the database.
Connect(r) ==
  /\ pc[r] = "connect"
  /\ Passes(r)
  /\ UNCHANGED <<cfg, bucket, collection, indexes, saved, maker>>

-----------------------------------------------------------------------------
(* EnsureBucket: the call after EnsureBlob or EnsureStorage has made the   *)
(* process's client, which is a fault of that call when it cannot be made. *)

MakeBucket(r) ==
  /\ bucket' = TRUE
  /\ maker' = IF bucket THEN maker ELSE r

\* Azure: CreateContainer; ContainerAlreadyExists counts as success.
CreateContainer(r) ==
  /\ pc[r] = "bucket" /\ cfg.provider = "azure"
  /\ MakeBucket(r)
  /\ Passes(r)
  /\ UNCHANGED <<cfg, collection, indexes, saved>>

\* Wrong: a bucket that is there is made again.
AttrsIgnored(r) ==
  /\ pc[r] = "bucket" /\ cfg.provider = "gcp" /\ bucket
  /\ pc' = [pc EXCEPT ![r] = "create"]
  /\ UNCHANGED <<cfg, bucket, collection, indexes, saved, faults, maker, refused>>

\* GCP: Attrs finds the bucket ...
Attrs(r) ==
  /\ pc[r] = "bucket" /\ cfg.provider = "gcp" /\ bucket
  /\ Passes(r)
  /\ UNCHANGED <<cfg, bucket, collection, indexes, saved, maker>>

\* ... or an error that is taken for its absence when it says "not found" ...
AttrsMissing(r) ==
  /\ pc[r] = "bucket" /\ cfg.provider = "gcp" /\ ~bucket
  /\ IF cfg.notFound
       THEN pc' = [pc EXCEPT ![r] = "create"] /\ UNCHANGED <<faults, refused>>
       ELSE Refused(r)
  /\ UNCHANGED <<cfg, bucket, collection, indexes, saved, maker>>

\* ... and Create fails on a bucket made in the meantime.
Create(r) ==
  /\ pc[r] = "create"
  /\ IF bucket THEN Refused(r) /\ UNCHANGED <<bucket, maker>> ELSE Passes(r) /\ MakeBucket(r)
  /\ UNCHANGED <<cfg, collection, indexes, saved>>

-----------------------------------------------------------------------------
(* EnsureIndexes.                                                          *)

\* Wrong: the code of a collection that exists is not looked at.
CreateCollectionStrict(r) ==
  /\ pc[r] = "collection"
  /\ collection' = TRUE
  /\ IF collection THEN Refused(r) ELSE Passes(r)
  /\ UNCHANGED <<cfg, bucket, indexes, saved, maker>>

\* CreateCollection; NamespaceExists (48) counts as success.
CreateCollection(r) ==
  /\ pc[r] = "collection"
  /\ collection' = TRUE
  /\ Passes(r)
  /\ UNCHANGED <<cfg, bucket, indexes, saved, maker>>

\* Classic indexes have their names to themselves, and their definitions, which
\* MongoDB refuses to index twice; Atlas search and vector indexes share their
\* names.
SameName(x, y) == x.name = y.name /\ (x.kind = "classic" <=> y.kind = "classic")
SameDefinition(x, y) == x.definition = y.definition /\ x.kind = "classic" /\ y.kind = "classic"
Clash(x, y) == x # y /\ (SameName(x, y) \/ SameDefinition(x, y))

Violated(x) == x.kind = "classic" /\ x.definition \in cfg.violated

\* Wrong: Model() leaves out SetName.
WantedUnnamed(r) == {[x EXCEPT !.name = None] : x \in {y \in cfg.advertised[r] : y.kind = pc[r]}}

Wanted(r) == {x \in cfg.advertised[r] : x.kind = pc[r]}

\* What MongoDB and Atlas refuse: an empty list, and one with an index that
\* clashes with another or that the documents violate.
EmptyList(r) == pc[r] \in cfg.implemented[r] /\ Wanted(r) = {}
Unbuildable(r) ==
  {x \in Wanted(r) : (\E y \in indexes \cup Wanted(r) : Clash(x, y)) \/ (saved /\ Violated(x))}

\* CreateMany, or no call when the model does not implement the interface.
CreateMany(r) ==
  /\ pc[r] \in Kinds
  /\ ~EmptyList(r) /\ Unbuildable(r) = {}
  /\ indexes' = indexes \cup Wanted(r)
  /\ Passes(r)
  /\ UNCHANGED <<cfg, bucket, collection, saved, maker>>

\* Wrong: the error is logged and the start goes on.
CreateManyLogged(r) ==
  /\ pc[r] \in Kinds
  /\ EmptyList(r) \/ Unbuildable(r) # {}
  /\ \E made \in SUBSET (Wanted(r) \ Unbuildable(r)) : indexes' = indexes \cup made
  /\ Passes(r)
  /\ UNCHANGED <<cfg, bucket, collection, saved, maker>>

\* The other indexes of the list may have been made or not.
CreateManyRefused(r) ==
  /\ pc[r] \in Kinds
  /\ EmptyList(r) \/ Unbuildable(r) # {}
  /\ \E made \in SUBSET (Wanted(r) \ Unbuildable(r)) : indexes' = indexes \cup made
  /\ Refused(r)
  /\ UNCHANGED <<cfg, bucket, collection, saved, maker>>

-----------------------------------------------------------------------------
\* Another program saves its documents: an upsert makes the collection, and a
\* unique index that is there refuses documents that violate it.
OtherSaves ==
  /\ ~saved
  /\ \A x \in indexes : ~Violated(x)
  /\ saved' = TRUE
  /\ collection' = TRUE
  /\ UNCHANGED <<cfg, pc, bucket, indexes, faults, maker, refused>>

Down(r) == pc' = [pc EXCEPT ![r] = "down"] /\ refused' = [refused EXCEPT ![r] = "none"]

\* A call fails or its process dies, whatever the call has done by then.
Fault(r) ==
  /\ pc[r] \in Calls \cup {"up"} /\ faults < MaxFaults
  /\ faults' = faults + 1
  /\ Down(r)
  /\ \/ UNCHANGED <<bucket, maker, collection, indexes>>
     \/ /\ pc[r] = "create" \/ (pc[r] = "bucket" /\ cfg.provider = "azure")
        /\ MakeBucket(r)
        /\ UNCHANGED <<collection, indexes>>
     \/ /\ pc[r] = "collection"
        /\ collection' = TRUE
        /\ UNCHANGED <<bucket, maker, indexes>>
     \/ /\ pc[r] \in Kinds
        /\ \E made \in SUBSET (Wanted(r) \ Unbuildable(r)) : indexes' = indexes \cup made
        /\ UNCHANGED <<bucket, maker, collection>>
  /\ UNCHANGED <<cfg, saved>>

Steps(r) ==
  \/ Start(r) \/ Connect(r)
  \/ CreateContainer(r) \/ Attrs(r) \/ AttrsMissing(r) \/ Create(r)
  \/ CreateCollection(r) \/ CreateMany(r) \/ CreateManyRefused(r)

Next == (\E r \in Replicas : Steps(r) \/ Fault(r)) \/ OtherSaves

Spec     == Init /\ [][Next]_vars
FairSpec == Spec /\ \A r \in Replicas : WF_vars(Steps(r))

-----------------------------------------------------------------------------
\* The type invariant.
TypeOK ==
  /\ cfg \in Configs
  /\ pc \in [Replicas -> Calls \cup {"down", "up"}]
  /\ bucket \in BOOLEAN /\ collection \in BOOLEAN
  /\ indexes \subseteq Index /\ saved \in BOOLEAN
  /\ faults \in 0 .. MaxFaults
  /\ maker \in Replicas \cup {None}
  /\ refused \in [Replicas -> Calls \cup {"none"}]

\* A replica that has come up finds everything it asked for, in the definition
\* it asked for, and no index that clashes with it: whoever made it, in
\* whichever order, and whatever failed on the way.
InPlace ==
  \A r \in Replicas : pc[r] = "up" =>
    /\ bucket /\ collection
    /\ cfg.advertised[r] \subseteq indexes
    /\ \A x \in cfg.advertised[r], y \in indexes : ~Clash(x, y)

\* What is wrong with the indexes of one kind that r's model advertises: there
\* are none, another replica's model or its own disagrees with one, or the
\* other program's documents violate one.
Disagrees(r, k) ==
  \E x \in cfg.advertised[r], q \in Replicas :
    x.kind = k /\ \E y \in cfg.advertised[q] : Clash(x, y)
NoneOf(r, k)  == k \in cfg.implemented[r] /\ \A x \in cfg.advertised[r] : x.kind # k
Violates(r, k) == \E x \in cfg.advertised[r] : x.kind = k /\ Violated(x)

\* Replicas that start together do not make each other fail, and a start that
\* is made again does not fail on what an earlier one left: without a fault, a
\* start fails only where GCP's bucket was made by another replica between
\* Attrs and Create, or its absence is not recognised, or on indexes that are
\* at odds with a model or with documents that are saved, or on an interface
\* implemented without an index.
RefusalHasCause ==
  \A r \in Replicas :
    /\ refused[r] \in Kinds =>
         \/ Disagrees(r, refused[r])
         \/ NoneOf(r, refused[r])
         \/ saved /\ Violates(r, refused[r])
    /\ refused[r] = "create" => cfg.provider = "gcp" /\ maker \notin {r, None}
    /\ refused[r] = "bucket" => cfg.provider = "gcp" /\ ~cfg.notFound /\ ~cfg.bucket
    /\ refused[r] \notin {"connect", "collection"}

Buildable ==
  \A r \in Replicas, k \in Kinds : ~Disagrees(r, k) /\ ~NoneOf(r, k) /\ ~Violates(r, k)

Recognised == cfg.provider = "azure" \/ cfg.notFound \/ cfg.bucket

\* Once faults stop, every replica comes up, for good, when nothing is wrong with
\* the models' indexes and a missing bucket is recognised: no start leaves
\* anything behind that the next could not go on from.
AllComeUp == Buildable /\ Recognised => <>[](\A r \in Replicas : pc[r] = "up")
=============================================================================
