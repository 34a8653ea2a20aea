--------------------------- MODULE OdmCollection ---------------------------
(***************************************************************************)
(* Concurrent writers of one odm collection (src/odm/odm_collection.go).   *)
(*                                                                         *)
(* Every operation is a goroutine (async.Go) that talks to MongoDB.  Save  *)
(* is two calls: CountDocuments, to learn whether the document exists,     *)
(* then an upsert whose $set holds createdOn or updatedOn accordingly.  An *)
(* edit is a Save of a model that FindOneByID returned, some of its fields *)
(* changed by the caller; any other Save is of a fresh model, with zero    *)
(* values in the fields its caller did not set.  Either stores them all.   *)
(* MongoDB is external: each call takes effect atomically or not at all,   *)
(* and may report an error either way; when the context is done the caller *)
(* has its error at once and the write, if sent, may take effect later.    *)
(***************************************************************************)
EXTENDS Naturals, FiniteSets

CONSTANTS
  Saves, Deletes,  \* calls of Save and DeleteByID, each made once
  Edits,           \* the Saves whose model comes from FindOneByID
  Ids, Fields,     \* document ids, and fields a model may have
  MaxInFlight,     \* calls not yet awaited at any time
  CallsMayFail,    \* CountDocuments may fail, and a write outlive its caller's context
  Zero,            \* the zero value of a field
  None

ASSUME OpsAssumption == Saves \cap Deletes = {} /\ None \notin Saves /\ Zero \notin Saves
ASSUME EditsAssumption == Edits \subseteq Saves
ASSUME MaxInFlightAssumption == MaxInFlight \in Nat
ASSUME CallsMayFailAssumption == CallsMayFail \in BOOLEAN

VARIABLES
  docs,     \* the collection: documents by id
  present,  \* the ids that have one
  pc,       \* where each call stands
  id,       \* the id each call is about
  fields,   \* the fields each Save's caller sets
  model,    \* each Save's model: whose value its fields have
  exists,   \* what each Save took from Exists
  result,   \* what each call returned
  failed,   \* Saves whose Exists reported an error, which they ignored (history)
  inserter, \* the Save that inserted the document of each id (history)
  latest,   \* the Save that wrote it last (history)
  witness,  \* Saves between their two calls when it was inserted (history)
  undercut, \* Saves between their two calls when it was deleted (history)
  raced,    \* Saves between whose two calls another write took effect (history)
  overtaken \* edits since whose find another write took effect (history)

history == <<failed, inserter, latest, witness, undercut, raced, overtaken>>
vars == <<docs, present, pc, id, fields, model, exists, result, history>>

Ops == Saves \cup Deletes

\* A document: which Save's clock its two stamps are from, and which Save
\* wrote each of its fields.
Values == [Fields -> Saves \cup {Zero, None}]

Document == [createdOn : Saves \cup {None}, updatedOn : Saves \cup {None}, values : Values]

NoDocument == [createdOn |-> None, updatedOn |-> None, values |-> [f \in Fields |-> None]]

InFlight == {o \in Ops : pc[o] \in {"find", "count", "update", "delete"}}

\* Saves of document i that have counted and not yet written.
Between(i) == {s \in Saves : pc[s] \in {"update", "lateUpdate"} /\ id[s] = i}

\* Edits of document i that have found it and not yet written.
Holding(i) == {s \in Edits : pc[s] \in {"loaded", "count", "update", "lateUpdate"} /\ id[s] = i}

\* A model nobody has set a field of.
Fresh == [f \in Fields |-> Zero]

\* The model of a Save whose caller has set its fields in one with these values.
Model(s, values) == [f \in Fields |-> IF f \in fields[s] THEN s ELSE values[f]]

Init ==
  /\ docs = [i \in Ids |-> NoDocument]
  /\ present = {}
  /\ pc = [o \in Ops |-> "idle"]
  /\ id \in [Ops -> Ids]
  /\ fields \in [Saves -> SUBSET Fields]
  /\ model = [s \in Saves |-> Model(s, Fresh)]
  /\ exists = [s \in Saves |-> FALSE]
  /\ result = [o \in Ops |-> "none"]
  /\ failed = {}
  /\ inserter = [i \in Ids |-> None]
  /\ latest = [i \in Ids |-> None]
  /\ witness = [i \in Ids |-> {}]
  /\ undercut = {}
  /\ raced = {}
  /\ overtaken = {}

-----------------------------------------------------------------------------
\* The caller calls FindOneByID: its goroutine starts.
CallFind(s) ==
  /\ pc[s] = "idle"
  /\ Cardinality(InFlight) < MaxInFlight
  /\ pc' = [pc EXCEPT ![s] = "find"]
  /\ UNCHANGED <<docs, present, id, fields, model, exists, result, history>>

\* Wrong: FindOne's error is not looked at before the empty model is decoded.
FindUnchecked(s) ==
  /\ pc[s] = "find"
  /\ pc' = [pc EXCEPT ![s] = "loaded"]
  /\ model' = [model EXCEPT ![s] = Model(s, IF id[s] \in present THEN docs[id[s]].values ELSE Fresh)]
  /\ UNCHANGED <<docs, present, id, fields, exists, result, history>>

\* FindOne returns the document there is ...
Find(s) ==
  /\ pc[s] = "find" /\ id[s] \in present
  /\ pc' = [pc EXCEPT ![s] = "loaded"]
  /\ model' = [model EXCEPT ![s] = Model(s, docs[id[s]].values)]
  /\ UNCHANGED <<docs, present, id, fields, exists, result, history>>

\* ... or an error, when there is none or the call fails: no Save follows.
FindError(s) ==
  /\ pc[s] = "find" /\ (id[s] \notin present \/ CallsMayFail)
  /\ pc' = [pc EXCEPT ![s] = "done"]
  /\ result' = [result EXCEPT ![s] = "error"]
  /\ UNCHANGED <<docs, present, id, fields, model, exists, history>>

\* The caller calls Save: its goroutine starts.
CallSave(s) ==
  /\ pc[s] = IF s \in Edits THEN "loaded" ELSE "idle"
  /\ Cardinality(InFlight) < MaxInFlight
  /\ pc' = [pc EXCEPT ![s] = "count"]
  /\ UNCHANGED <<docs, present, id, fields, model, exists, result, history>>

\* convertToBson fails: nothing is sent.
ConvertError(s) ==
  /\ pc[s] = "count"
  /\ pc' = [pc EXCEPT ![s] = "done"]
  /\ result' = [result EXCEPT ![s] = "error"]
  /\ UNCHANGED <<docs, present, id, fields, model, exists, history>>

\* Exists counts the documents with the model's id ...
Count(s) ==
  /\ pc[s] = "count"
  /\ pc' = [pc EXCEPT ![s] = "update"]
  /\ exists' = [exists EXCEPT ![s] = id[s] \in present]
  /\ UNCHANGED <<docs, present, id, fields, model, result, history>>

\* ... and answers FALSE with an error, which Save drops.
CountError(s) ==
  /\ CallsMayFail
  /\ pc[s] = "count"
  /\ pc' = [pc EXCEPT ![s] = "update"]
  /\ exists' = [exists EXCEPT ![s] = FALSE]
  /\ failed' = failed \cup {s}
  /\ UNCHANGED <<docs, present, id, fields, model, result, inserter, latest, witness, undercut, raced, overtaken>>

\* Wrong: the id is stored for the time; the stamps are swapped; createdOn is
\* always set; the document is replaced and not merged.
MergeId(d, s) ==
  [createdOn |-> IF exists[s] THEN d.createdOn ELSE id[s],
   updatedOn |-> IF exists[s] THEN id[s] ELSE d.updatedOn,
   values    |-> model[s]]

MergeSwapped(d, s) ==
  [createdOn |-> IF exists[s] THEN s ELSE d.createdOn,
   updatedOn |-> IF exists[s] THEN d.updatedOn ELSE s,
   values    |-> model[s]]

MergeStamped(d, s) ==
  [createdOn |-> s, updatedOn |-> d.updatedOn,
   values    |-> model[s]]

MergeReplaced(d, s) ==
  [createdOn |-> IF exists[s] THEN None ELSE s,
   updatedOn |-> IF exists[s] THEN s ELSE None,
   values    |-> model[s]]

\* The $set of Save s merged into document d: all fields of the model, whether
\* its caller set them or not, and one of the two stamps.
Merge(d, s) ==
  [createdOn |-> IF exists[s] THEN d.createdOn ELSE s,
   updatedOn |-> IF exists[s] THEN s ELSE d.updatedOn,
   values    |-> model[s]]

\* The call returns r, unless its caller was told an error already.
Reply(o) ==
  /\ pc' = [pc EXCEPT ![o] = "done"]
  /\ \E r \in IF pc[o] \in {"update", "delete"} THEN {"ok", "error"} ELSE {result[o]} :
       result' = [result EXCEPT ![o] = r]

\* UpdateOne with upsert takes effect; its reply may be lost.
Update(s) ==
  /\ pc[s] \in {"update", "lateUpdate"}
  /\ Reply(s)
  /\ docs' = [docs EXCEPT ![id[s]] = Merge(@, s)]
  /\ present' = present \cup {id[s]}
  /\ IF id[s] \in present
       THEN UNCHANGED <<inserter, witness>>
       ELSE /\ inserter' = [inserter EXCEPT ![id[s]] = s]
            /\ witness' = [witness EXCEPT ![id[s]] = Between(id[s]) \ {s}]
  /\ latest' = [latest EXCEPT ![id[s]] = s]
  /\ raced' = raced \cup (Between(id[s]) \ {s})
  /\ overtaken' = overtaken \cup (Holding(id[s]) \ {s})
  /\ UNCHANGED <<id, fields, model, exists, failed, undercut>>

CallDelete(d) ==
  /\ pc[d] = "idle"
  /\ Cardinality(InFlight) < MaxInFlight
  /\ pc' = [pc EXCEPT ![d] = "delete"]
  /\ UNCHANGED <<docs, present, id, fields, model, exists, result, history>>

\* DeleteOne takes effect, whether or not there is a document.
Delete(d) ==
  /\ pc[d] \in {"delete", "lateDelete"}
  /\ Reply(d)
  /\ docs' = [docs EXCEPT ![id[d]] = NoDocument]
  /\ present' = present \ {id[d]}
  /\ undercut' = undercut \cup Between(id[d])
  /\ raced' = raced \cup Between(id[d])
  /\ overtaken' = overtaken \cup Holding(id[d])
  /\ inserter' = [inserter EXCEPT ![id[d]] = None]
  /\ latest' = [latest EXCEPT ![id[d]] = None]
  /\ witness' = [witness EXCEPT ![id[d]] = {}]
  /\ UNCHANGED <<id, fields, model, exists, failed>>

\* A write reports an error and has no effect ...
WriteError(o) ==
  /\ pc[o] \in {"update", "delete"}
  /\ pc' = [pc EXCEPT ![o] = "done"]
  /\ result' = [result EXCEPT ![o] = "error"]
  /\ UNCHANGED <<docs, present, id, fields, model, exists, history>>

\* ... or, when the context is done, may have it yet.
Abandon(o) ==
  /\ CallsMayFail
  /\ pc[o] \in {"update", "delete"}
  /\ pc' = [pc EXCEPT ![o] = IF @ = "update" THEN "lateUpdate" ELSE "lateDelete"]
  /\ result' = [result EXCEPT ![o] = "error"]
  /\ UNCHANGED <<docs, present, id, fields, model, exists, history>>

Save(s) == CallSave(s) \/ ConvertError(s) \/ Count(s) \/ CountError(s) \/ Update(s)

DeleteByID(d) == CallDelete(d) \/ Delete(d)

FindOneByID(s) == CallFind(s) \/ Find(s) \/ FindError(s)

Next ==
  \/ \E s \in Edits : FindOneByID(s)
  \/ \E s \in Saves : Save(s)
  \/ \E d \in Deletes : DeleteByID(d)
  \/ \E o \in Ops : WriteError(o) \/ Abandon(o)

Spec == Init /\ [][Next]_vars

-----------------------------------------------------------------------------
Calls == {"idle", "find", "loaded", "count", "update", "lateUpdate", "delete", "lateDelete", "done"}

\* The type invariant of the collection and its callers.
TypeOK ==
  /\ docs \in [Ids -> Document]
  /\ present \subseteq Ids
  /\ pc \in [Ops -> Calls]
  /\ id \in [Ops -> Ids]
  /\ fields \in [Saves -> SUBSET Fields]
  /\ model \in [Saves -> Values]
  /\ exists \in [Saves -> BOOLEAN]
  /\ result \in [Ops -> {"none", "ok", "error"}]
  /\ failed \subseteq Saves
  /\ inserter \in [Ids -> Saves \cup {None}]
  /\ latest \in [Ids -> Saves \cup {None}]
  /\ witness \in [Ids -> SUBSET Saves]
  /\ undercut \subseteq Saves
  /\ raced \subseteq Saves
  /\ overtaken \subseteq Edits

\* A document's createdOn is written again only by a Save that was between
\* its two calls when the document was inserted, or that could not count.
RewriteNeedsRace ==
  [][\A i \in present \cap present' :
       docs'[i].createdOn # docs[i].createdOn =>
         docs'[i].createdOn \in witness[i] \cup failed]_vars

\* A document without createdOn was inserted by a Save from under which a
\* delete took the document it had counted.
UnstampedNeedsDelete ==
  \A i \in present : docs[i].createdOn = None => inserter[i] \in undercut

\* What the two stamps are for.  As long as nothing came between the two calls
\* of a Save of document i, and none failed to count, createdOn names its
\* insertion, updatedOn the last of the later Saves, and the fields are those of
\* the last Save's model: whatever failed, and however late writes were.
StampsExact ==
  \A i \in present :
    (\A s \in Saves : id[s] = i => s \notin raced \cup failed) =>
      /\ docs[i].createdOn = inserter[i]
      /\ docs[i].updatedOn = IF latest[i] = inserter[i] THEN None ELSE latest[i]
      /\ docs[i].values = model[latest[i]]

\* A Save changes a field its caller did not set, or brings a document back
\* that its caller had found, only when it is an edit that another write to the
\* document overtook since its find.  A Save of a fresh model needs no other
\* write to change such a field, but can only make it zero.
UnaskedNeedsOvertaking ==
  [][/\ \A i \in present \cap present', f \in Fields :
          docs'[i].values[f] # docs[i].values[f] =>
            \/ f \in fields[latest'[i]]
            \/ latest'[i] \in overtaken
            \/ latest'[i] \notin Edits /\ docs'[i].values[f] = Zero
     /\ \A i \in present' \ present : latest'[i] \in Edits => latest'[i] \in overtaken]_vars
=============================================================================
