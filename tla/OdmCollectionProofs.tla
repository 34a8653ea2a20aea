------------------------ MODULE OdmCollectionProofs ------------------------
(***************************************************************************)
(* What concurrent Saves and deletes can do to a document's createdOn,     *)
(* proved for any number of them, on any ids, failing in any way.          *)
(***************************************************************************)
EXTENDS OdmCollection, TLAPS

Pending(s) == pc[s] \in {"update", "lateUpdate"}

\* A Save about to set createdOn on a document that is there either was
\* pending when the document was inserted or could not count it.
WitnessInv ==
  \A s \in Saves :
    Pending(s) /\ ~exists[s] /\ id[s] \in present => s \in witness[id[s]] \cup failed

\* A Save about to set updatedOn on a document that is gone had it deleted
\* from under it.
UndercutInv ==
  \A s \in Saves : Pending(s) /\ exists[s] /\ id[s] \notin present => s \in undercut

AbsentInv == \A i \in Ids \ present : docs[i] = NoDocument

Inv == TypeOK /\ WitnessInv /\ UndercutInv /\ AbsentInv /\ UnstampedNeedsDelete

LEMMA InitInv == Init => Inv
<1> SUFFICES ASSUME Init PROVE Inv
  OBVIOUS
<1>1. TypeOK
  BY DEF Init, TypeOK, Document, NoDocument, Values, Model, Fresh, Calls
<1>2. WitnessInv /\ UndercutInv /\ AbsentInv /\ UnstampedNeedsDelete
  BY DEF Init, WitnessInv, UndercutInv, AbsentInv, UnstampedNeedsDelete, Pending
<1>3. QED
  BY <1>1, <1>2 DEF Inv

\* Steps that neither write nor delete, and add no pending Save, keep Inv.
LEMMA QuietInv ==
  ASSUME Inv, NEW o \in Ops,
         \/ o \in Edits /\ (CallFind(o) \/ FindError(o))
         \/ o \in Saves /\ (CallSave(o) \/ ConvertError(o))
         \/ o \in Deletes /\ CallDelete(o)
         \/ WriteError(o) \/ Abandon(o)
  PROVE  Inv'
<1> USE OpsAssumption, EditsAssumption DEF Inv, CallFind, FindError, CallSave, ConvertError, CallDelete, WriteError, Abandon, history, Ops
<1>1. TypeOK'
  BY DEF TypeOK, Calls
<1>2. \A s \in Saves : Pending(s)' => Pending(s)
  BY DEF TypeOK, Pending
<1>3. WitnessInv' /\ UndercutInv'
  BY <1>2 DEF WitnessInv, UndercutInv
<1>4. AbsentInv' /\ UnstampedNeedsDelete'
  BY DEF AbsentInv, UnstampedNeedsDelete
<1>5. QED
  BY <1>1, <1>3, <1>4

\* A find only loads a model.
LEMMA FindInv == ASSUME Inv, NEW s \in Edits, Find(s) PROVE Inv'
<1> USE EditsAssumption DEF Inv, Find, history, Ops
<1>1. TypeOK'
  <2>1. docs[id[s]].values \in Values
    BY DEF TypeOK, Document
  <2>2. Model(s, docs[id[s]].values) \in Values
    BY <2>1 DEF TypeOK, Values, Model
  <2>3. model' \in [Saves -> Values]
    BY <2>2 DEF TypeOK
  <2>4. pc' \in [Ops -> Calls]
    BY DEF TypeOK, Calls
  <2>5. QED
    BY <2>3, <2>4 DEF TypeOK
<1>3. \A t \in Saves : Pending(t)' => Pending(t)
  BY DEF TypeOK, Pending
<1>4. WitnessInv' /\ UndercutInv'
  BY <1>3 DEF WitnessInv, UndercutInv
<1>5. AbsentInv' /\ UnstampedNeedsDelete'
  BY DEF AbsentInv, UnstampedNeedsDelete
<1>6. QED
  BY <1>1, <1>4, <1>5

LEMMA CountInv ==
  ASSUME Inv, NEW s \in Saves, Count(s) \/ CountError(s) PROVE Inv'
<1> USE DEF Inv, Count, CountError, history, Ops
<1>1. TypeOK'
  <2>1. \E b \in BOOLEAN : exists' = [exists EXCEPT ![s] = b]
    <3>1. (id[s] \in present) \in BOOLEAN
      OBVIOUS
    <3>2. QED
      BY <3>1
  <2>2. exists' \in [Saves -> BOOLEAN]
    BY <2>1 DEF TypeOK
  <2>3. pc' \in [Ops -> Calls]
    BY DEF TypeOK, Calls
  <2>4. QED
    BY <2>2, <2>3 DEF TypeOK
<1>2. \A t \in Saves \ {s} : (Pending(t)' <=> Pending(t)) /\ exists'[t] = exists[t]
  BY DEF TypeOK, Pending
<1>3. (~exists'[s] /\ id[s] \in present => s \in failed') /\ (exists'[s] => id[s] \in present)
  BY DEF TypeOK
<1>4. WitnessInv'
  BY <1>2, <1>3 DEF WitnessInv
<1>5. UndercutInv'
  BY <1>2, <1>3 DEF UndercutInv
<1>6. AbsentInv' /\ UnstampedNeedsDelete'
  BY DEF AbsentInv, UnstampedNeedsDelete
<1>7. QED
  BY <1>1, <1>4, <1>5, <1>6

LEMMA MergeType ==
  ASSUME NEW d \in Document, NEW s \in Saves, exists \in [Saves -> BOOLEAN], model \in [Saves -> Values]
  PROVE  Merge(d, s) \in Document
  BY DEF Merge, Document

LEMMA UpdateInv == ASSUME Inv, NEW s \in Saves, Update(s) PROVE Inv'
<1> USE OpsAssumption DEF Inv, Update, Reply, Ops
<1>0. id[s] \in Ids /\ Pending(s)
  BY DEF TypeOK, Pending
<1>1. TypeOK'
  <2>1. docs' \in [Ids -> Document]
    BY <1>0, MergeType DEF TypeOK
  <2>2. result' \in [Ops -> {"none", "ok", "error"}]
    BY DEF TypeOK
  <2>3. /\ inserter' \in [Ids -> Saves \cup {None}]
        /\ latest' \in [Ids -> Saves \cup {None}]
        /\ witness' \in [Ids -> SUBSET Saves]
        /\ raced' \subseteq Saves /\ overtaken' \subseteq Edits
    BY <1>0 DEF TypeOK, Between, Holding
  <2>4. /\ present' \subseteq Ids /\ id' \in [Ops -> Ids] /\ fields' \in [Saves -> SUBSET Fields]
        /\ model' \in [Saves -> Values]
        /\ exists' \in [Saves -> BOOLEAN] /\ failed' \subseteq Saves /\ undercut' \subseteq Saves
        /\ pc' \in [Ops -> Calls]
    BY <1>0 DEF TypeOK, Calls
  <2>5. QED
    BY <2>1, <2>2, <2>3, <2>4 DEF TypeOK
<1>2. \A t \in Saves : Pending(t)' => Pending(t) /\ t # s
  BY DEF TypeOK, Pending
<1>3. WitnessInv'
  BY <1>0, <1>2 DEF TypeOK, WitnessInv, Between, Pending
<1>4. UndercutInv'
  BY <1>0, <1>2 DEF TypeOK, UndercutInv
<1>5. AbsentInv'
  BY <1>0 DEF TypeOK, AbsentInv
<1>6. UnstampedNeedsDelete'
  <2> SUFFICES ASSUME NEW i \in present', docs'[i].createdOn = None
               PROVE  inserter'[i] \in undercut'
    BY DEF UnstampedNeedsDelete
  <2>1. CASE i # id[s]
    BY <1>0, <2>1 DEF TypeOK, UnstampedNeedsDelete
  <2>2. CASE i = id[s]
    <3>1. exists[s] /\ docs[i].createdOn = None
      BY <1>0, <2>2 DEF TypeOK, Merge
    <3>2. CASE i \in present
      BY <2>2, <3>1, <3>2 DEF UnstampedNeedsDelete
    <3>3. CASE i \notin present
      BY <1>0, <2>2, <3>1, <3>3 DEF TypeOK, UndercutInv
    <3>4. QED
      BY <3>2, <3>3
  <2>3. QED
    BY <2>1, <2>2
<1>7. QED
  BY <1>1, <1>3, <1>4, <1>5, <1>6

LEMMA DeleteInv == ASSUME Inv, NEW d \in Deletes, Delete(d) PROVE Inv'
<1> USE OpsAssumption DEF Inv, Delete, Reply, Ops
<1>0. id[d] \in Ids
  BY DEF TypeOK
<1>1. TypeOK'
  <2>1. docs' \in [Ids -> Document]
    BY <1>0 DEF TypeOK, Document, Values, NoDocument
  <2>2. result' \in [Ops -> {"none", "ok", "error"}]
    BY DEF TypeOK
  <2>3. pc' \in [Ops -> Calls]
    BY DEF TypeOK, Calls
  <2>4. QED
    BY <1>0, <2>1, <2>2, <2>3 DEF TypeOK, Between, Holding
<1>2. \A s \in Saves : Pending(s)' <=> Pending(s)
  BY DEF TypeOK, Pending
<1>3. WitnessInv'
  BY <1>0, <1>2 DEF TypeOK, WitnessInv
<1>4. UndercutInv'
  BY <1>2 DEF TypeOK, UndercutInv, Between, Pending
<1>5. AbsentInv' /\ UnstampedNeedsDelete'
  BY <1>0 DEF TypeOK, AbsentInv, UnstampedNeedsDelete
<1>6. QED
  BY <1>1, <1>3, <1>4, <1>5

LEMMA NextInv == Inv /\ [Next]_vars => Inv'
<1> SUFFICES ASSUME Inv, [Next]_vars PROVE Inv'
  OBVIOUS
<1>1. CASE UNCHANGED vars
  BY <1>1 DEF Inv, vars, history, TypeOK, WitnessInv, UndercutInv, AbsentInv,
     UnstampedNeedsDelete, Pending
<1>2. CASE Next
  BY <1>2, EditsAssumption, QuietInv, FindInv, CountInv, UpdateInv, DeleteInv
     DEF Next, FindOneByID, Save, DeleteByID, Ops
<1>3. QED
  BY <1>1, <1>2

\* What a Save's model says of the document it read or inserted stays true
\* while other calls come between its two.
THEOREM Invariance == Spec => []Inv
  BY InitInv, NextInv, PTL DEF Spec

\* The variables keep their types.
THEOREM TypeCorrect == Spec => []TypeOK
<1>1. Inv => TypeOK
  BY DEF Inv
<1>2. QED
  BY Invariance, <1>1, PTL

\* A document lacks createdOn only if a delete ran inside the Save that
\* inserted it.
THEOREM Unstamped == Spec => []UnstampedNeedsDelete
<1>1. Inv => UnstampedNeedsDelete
  BY DEF Inv
<1>2. QED
  BY Invariance, <1>1, PTL

\* createdOn is rewritten only by a Save that raced the insertion or whose
\* count failed: WitnessInv at the write.
THEOREM Rewrite == Spec => RewriteNeedsRace
<1> DEFINE Raced ==
      \A i \in present \cap present' :
        docs'[i].createdOn # docs[i].createdOn => docs'[i].createdOn \in witness[i] \cup failed
<1>1. ASSUME Inv, [Next]_vars PROVE [Raced]_vars
  <2>1. CASE UNCHANGED docs
    BY <2>1
  <2>2. ASSUME NEW s \in Saves, Update(s) PROVE Raced
    <3> SUFFICES ASSUME NEW i \in present \cap present',
                        docs'[i].createdOn # docs[i].createdOn
                 PROVE  docs'[i].createdOn \in witness[i] \cup failed
      OBVIOUS
    <3>1. i = id[s] /\ i \in Ids
      BY <1>1, <2>2 DEF Update, Inv, TypeOK, Ops
    <3>2. ~exists[s] /\ docs'[i].createdOn = s
      BY <1>1, <2>2, <3>1 DEF Update, Merge, Inv, TypeOK, Document
    <3>3. QED
      BY <1>1, <2>2, <3>1, <3>2 DEF Update, Inv, WitnessInv, Pending
  <2>3. ASSUME NEW d \in Deletes, Delete(d) PROVE Raced
    BY <1>1, <2>3 DEF Delete, Inv, TypeOK, Ops
  <2>4. CASE ~(\E s \in Saves : Update(s)) /\ ~(\E d \in Deletes : Delete(d))
    <3>1. UNCHANGED docs
      BY <1>1, <2>4 DEF Next, FindOneByID, CallFind, Find, FindError, Save, DeleteByID, CallSave, ConvertError, Count, CountError,
         CallDelete, WriteError, Abandon, vars
    <3>2. QED
      BY <2>1, <3>1
  <2>5. QED
    BY <2>2, <2>3, <2>4
<1>2. QED
  BY Invariance, <1>1, PTL DEF Spec, RewriteNeedsRace

-----------------------------------------------------------------------------
(* StampsExact.                                                            *)

\* A pending Save that nothing overtook still knows whether the document exists.
FreshInv ==
  \A s \in Saves : Pending(s) /\ s \notin raced \cup failed => (exists[s] <=> id[s] \in present)

\* The Saves that inserted a document and wrote it last have made their write.
InserterInv ==
  \A i \in present :
    /\ inserter[i] \in Saves /\ id[inserter[i]] = i /\ pc[inserter[i]] = "done"
    /\ latest[i] \in Saves /\ pc[latest[i]] = "done"

ExactInv == FreshInv /\ InserterInv /\ StampsExact

LEMMA InitExact == Init => ExactInv
  BY DEF Init, ExactInv, FreshInv, InserterInv, StampsExact, Pending, Ops

\* What a step that makes no write must leave alone.
LEMMA QuietExact ==
  ASSUME Inv, ExactInv,
         UNCHANGED <<docs, present, id, inserter, latest, raced>>,
         \A s \in Saves : pc[s] = "done" => model'[s] = model[s],
         failed \subseteq failed',
         \A o \in Ops : pc[o] = "done" => pc'[o] = "done",
         \A s \in Saves : Pending(s)' => \/ Pending(s) /\ exists'[s] = exists[s]
                                         \/ s \in failed' \/ (exists'[s] <=> id[s] \in present)
  PROVE  ExactInv'
<1>1. FreshInv'
  BY DEF ExactInv, FreshInv
<1>2. InserterInv'
  BY DEF ExactInv, InserterInv, Ops
<1>3. StampsExact'
  BY DEF ExactInv, StampsExact, InserterInv
<1>4. QED
  BY <1>1, <1>2, <1>3 DEF ExactInv

LEMMA UpdateExact == ASSUME Inv, ExactInv, NEW s \in Saves, Update(s) PROVE ExactInv'
<1> USE OpsAssumption DEF Ops
<1>1. /\ id[s] \in Ids /\ Pending(s) /\ id' = id /\ exists' = exists /\ model' = model
      /\ failed' = failed /\ present' = present \cup {id[s]}
      /\ raced' = raced \cup (Between(id[s]) \ {s})
      /\ pc' = [pc EXCEPT ![s] = "done"] /\ pc \in [Saves \cup Deletes -> Calls]
      /\ latest' = [latest EXCEPT ![id[s]] = s] /\ latest \in [Ids -> Saves \cup {None}]
  BY DEF Update, Reply, Inv, TypeOK, Pending
<1>2. FreshInv'
  <2> SUFFICES ASSUME NEW t \in Saves, Pending(t)', t \notin raced' \cup failed'
               PROVE  exists[t] <=> id[t] \in present'
    BY <1>1 DEF FreshInv
  <2>1. Pending(t) /\ t # s
    BY <1>1 DEF Pending
  <2>2. id[t] # id[s]
    BY <1>1, <2>1 DEF Between, Pending
  <2>3. QED
    BY <1>1, <2>1, <2>2 DEF ExactInv, FreshInv
<1>3. CASE id[s] \in present
  <2>1. inserter' = inserter
    BY <1>3 DEF Update
  <2>2. InserterInv'
    BY <1>1, <1>3, <2>1 DEF ExactInv, InserterInv
  <2>3. StampsExact'
    <3> SUFFICES ASSUME NEW i \in present, \A t \in Saves : id[t] = i => t \notin raced' \cup failed
                 PROVE  /\ docs'[i].createdOn = inserter[i]
                        /\ docs'[i].updatedOn = IF latest'[i] = inserter[i] THEN None ELSE latest'[i]
                        /\ docs'[i].values = model[latest'[i]]
      BY <1>1, <1>3, <2>1 DEF StampsExact
    <3>1. \A t \in Saves : id[t] = i => t \notin raced \cup failed
      BY <1>1
    <3>2. i \in Ids /\ docs \in [Ids -> Document] /\ latest \in [Ids -> Saves \cup {None}]
      BY DEF Inv, TypeOK
    <3>3. CASE i # id[s]
      BY <3>1, <3>2, <3>3 DEF Update, ExactInv, StampsExact
    <3>4. CASE i = id[s]
      <4>1. exists[s] /\ inserter[i] # s
        BY <1>1, <3>1, <3>4 DEF ExactInv, FreshInv, InserterInv, Pending
      <4>2. docs'[i] = Merge(docs[i], s) /\ latest'[i] = s
        BY <3>2, <3>4 DEF Update
      <4>3. docs[i].createdOn = inserter[i]
        BY <3>1 DEF ExactInv, StampsExact
      <4>4. QED
        BY <4>1, <4>2, <4>3 DEF Merge
    <3>5. QED
      BY <3>3, <3>4
  <2>4. QED
    BY <1>2, <2>2, <2>3 DEF ExactInv
<1>4. CASE id[s] \notin present
  <2>1. inserter' = [inserter EXCEPT ![id[s]] = s] /\ inserter \in [Ids -> Saves \cup {None}]
        /\ present \subseteq Ids
    BY <1>4 DEF Update, Inv, TypeOK
  <2>2. InserterInv'
    BY <1>1, <2>1 DEF ExactInv, InserterInv
  <2>3. StampsExact'
    <3> SUFFICES ASSUME NEW i \in present', \A t \in Saves : id[t] = i => t \notin raced' \cup failed
                 PROVE  /\ docs'[i].createdOn = inserter'[i]
                        /\ docs'[i].updatedOn = IF latest'[i] = inserter'[i] THEN None ELSE latest'[i]
                        /\ docs'[i].values = model[latest'[i]]
      BY <1>1 DEF StampsExact
    <3>1. \A t \in Saves : id[t] = i => t \notin raced \cup failed
      BY <1>1
    <3>2. i \in Ids /\ docs \in [Ids -> Document] /\ latest \in [Ids -> Saves \cup {None}]
      BY <1>1 DEF Inv, TypeOK
    <3>3. CASE i # id[s]
      BY <1>1, <2>1, <3>1, <3>2, <3>3 DEF Update, ExactInv, StampsExact
    <3>4. CASE i = id[s]
      <4>1. ~exists[s]
        BY <1>1, <1>4, <3>1, <3>4 DEF ExactInv, FreshInv
      <4>2. docs'[i] = Merge(docs[i], s) /\ latest'[i] = s /\ inserter'[i] = s
        BY <2>1, <3>2, <3>4 DEF Update
      <4>3. docs[i].updatedOn = None
        BY <1>1, <1>4, <3>4 DEF Inv, AbsentInv, NoDocument
      <4>4. QED
        BY <4>1, <4>2, <4>3 DEF Merge
    <3>5. QED
      BY <3>3, <3>4
  <2>4. QED
    BY <1>2, <2>2, <2>3 DEF ExactInv
<1>5. QED
  BY <1>3, <1>4

LEMMA DeleteExact == ASSUME Inv, ExactInv, NEW d \in Deletes, Delete(d) PROVE ExactInv'
<1> USE OpsAssumption DEF Ops
<1>1. /\ id[d] \in Ids /\ id' = id /\ exists' = exists /\ model' = model
      /\ failed' = failed /\ present' = present \ {id[d]} /\ present \subseteq Ids
      /\ raced' = raced \cup Between(id[d])
      /\ \A s \in Saves : pc'[s] = pc[s]
  BY DEF Delete, Reply, Inv, TypeOK
<1>2. \A i \in present' : i \in present /\ i # id[d] /\ docs'[i] = docs[i]
                          /\ inserter'[i] = inserter[i] /\ latest'[i] = latest[i]
  BY <1>1 DEF Delete, Inv, TypeOK
<1>3. FreshInv'
  BY <1>1 DEF ExactInv, FreshInv, Between, Pending
<1>4. InserterInv'
  BY <1>1, <1>2 DEF ExactInv, InserterInv
<1>5. StampsExact'
  BY <1>1, <1>2 DEF ExactInv, StampsExact
<1>6. QED
  BY <1>3, <1>4, <1>5 DEF ExactInv

LEMMA NextExact == Inv /\ ExactInv /\ [Next]_vars => ExactInv'
<1> SUFFICES ASSUME Inv, ExactInv, [Next]_vars PROVE ExactInv'
  OBVIOUS
<1>1. CASE UNCHANGED vars
  BY <1>1, QuietExact DEF vars, history, Pending
<1>2. ASSUME NEW s \in Saves, CallSave(s) \/ ConvertError(s) PROVE ExactInv'
  <2>1. \A t \in Saves : Pending(t)' => Pending(t)
    BY <1>2 DEF CallSave, ConvertError, Pending, Inv, TypeOK, Ops
  <2>2. \A o \in Ops : pc[o] = "done" => pc'[o] = "done"
    BY <1>2 DEF CallSave, ConvertError, Inv, TypeOK, Ops
  <2>3. QED
    BY <1>2, <2>1, <2>2, QuietExact DEF CallSave, ConvertError, history
<1>3. ASSUME NEW s \in Saves, Count(s) \/ CountError(s) PROVE ExactInv'
  <2>1. \A t \in Saves \ {s} : (Pending(t)' => Pending(t)) /\ exists'[t] = exists[t]
    BY <1>3 DEF Count, CountError, Pending, Inv, TypeOK, Ops
  <2>2. s \in failed' \/ (exists'[s] <=> id[s] \in present)
    BY <1>3 DEF Count, CountError, Inv, TypeOK
  <2>3. \A o \in Ops : pc[o] = "done" => pc'[o] = "done"
    BY <1>3 DEF Count, CountError, Inv, TypeOK, Ops
  <2>4. failed \subseteq failed'
    BY <1>3 DEF Count, CountError, history
  <2>5. QED
    BY <1>3, <2>1, <2>2, <2>3, <2>4, QuietExact DEF Count, CountError, history
<1>4. ASSUME NEW s \in Edits, FindOneByID(s) PROVE ExactInv'
  <2>1. \A t \in Saves : Pending(t)' => Pending(t)
    BY <1>4, EditsAssumption DEF FindOneByID, CallFind, Find, FindError, Pending, Inv, TypeOK, Ops
  <2>2. \A o \in Ops : pc[o] = "done" => pc'[o] = "done"
    BY <1>4, EditsAssumption DEF FindOneByID, CallFind, Find, FindError, Inv, TypeOK, Ops
  <2>3. \A t \in Saves : pc[t] = "done" => model'[t] = model[t]
    BY <1>4, EditsAssumption DEF FindOneByID, CallFind, Find, FindError, Inv, TypeOK
  <2>4. QED
    BY <1>4, <2>1, <2>2, <2>3, QuietExact DEF FindOneByID, CallFind, Find, FindError, history
<1>5. ASSUME NEW o \in Ops, (o \in Deletes /\ CallDelete(o)) \/ WriteError(o) \/ Abandon(o)
      PROVE  ExactInv'
  <2>1. \A t \in Saves : Pending(t)' => Pending(t)
    BY <1>5, OpsAssumption DEF CallDelete, WriteError, Abandon, Pending, Inv, TypeOK, Ops
  <2>2. \A p \in Ops : pc[p] = "done" => pc'[p] = "done"
    BY <1>5 DEF CallDelete, WriteError, Abandon, Inv, TypeOK, Ops
  <2>3. QED
    BY <1>5, <2>1, <2>2, QuietExact DEF CallDelete, WriteError, Abandon, history
<1>6. QED
  BY <1>1, <1>2, <1>3, <1>4, <1>5, UpdateExact, DeleteExact DEF Next, Save, DeleteByID, Ops

\* As long as no Save of a document was overtaken between its calls, and none
\* failed to count, its stamps and fields are those of the writes in order.
THEOREM Exact == Spec => []StampsExact
<1>1. Spec => []ExactInv
  BY Invariance, InitExact, NextExact, PTL DEF Spec
<1>2. ExactInv => StampsExact
  BY DEF ExactInv
<1>3. QED
  BY <1>1, <1>2, PTL

-----------------------------------------------------------------------------
(* UnaskedNeedsOvertaking.                                                 *)

Held(s) == pc[s] \in {"loaded", "count", "update", "lateUpdate"}

\* Besides its caller's fields a model has zero values, or, in an edit that
\* nothing overtook, what the document has.
EditInv ==
  \A s \in Saves :
    /\ s \notin Edits => \A f \in Fields \ fields[s] : model[s][f] = Zero
    /\ s \in Edits /\ Held(s) /\ s \notin overtaken =>
         id[s] \in present /\ \A f \in Fields \ fields[s] : model[s][f] = docs[id[s]].values[f]

LEMMA InitEdit == Init => EditInv
  BY DEF Init, EditInv, Model, Fresh, Held, Ops

\* Steps that neither find nor write.
LEMMA QuietEdit ==
  ASSUME EditInv, UNCHANGED <<docs, present, id, fields, model, overtaken>>,
         \A s \in Edits : Held(s)' => Held(s)
  PROVE  EditInv'
  BY DEF EditInv

LEMMA FindEdit == ASSUME Inv, EditInv, NEW s \in Edits, Find(s) PROVE EditInv'
<1> USE EditsAssumption DEF Find, Inv, TypeOK, Ops, history
<1>1. \A t \in Saves \ {s} : (Held(t)' <=> Held(t)) /\ model'[t] = model[t]
  BY DEF Held
<1>2. \A f \in Fields \ fields[s] : model'[s][f] = docs[id[s]].values[f]
  BY DEF Model
<1>3. QED
  BY <1>1, <1>2 DEF EditInv

LEMMA WriteEdit ==
  ASSUME Inv, EditInv,
         \/ \E s \in Saves : Update(s)
         \/ \E d \in Deletes : Delete(d)
  PROVE  EditInv'
<1> USE OpsAssumption, EditsAssumption DEF Ops
<1>1. CASE \E s \in Saves : Update(s)
  <2>1. PICK s \in Saves : Update(s)
    BY <1>1
  <2>2. /\ id' = id /\ fields' = fields /\ model' = model /\ overtaken \subseteq overtaken'
        /\ present \subseteq present'
        /\ pc' = [pc EXCEPT ![s] = "done"]
        /\ \A t \in Holding(id[s]) : t = s \/ t \in overtaken'
        /\ \A i \in Ids : i # id[s] => docs'[i] = docs[i]
    BY <2>1 DEF Update, Reply, Inv, TypeOK
  <2>3. \A t \in Edits : Held(t)' => Held(t) /\ t # s
    BY <2>2 DEF Held, Inv, TypeOK
  <2>4. \A t \in Edits : Held(t)' /\ t \notin overtaken' => id[t] # id[s]
    BY <2>2, <2>3 DEF Holding, Held
  <2>5. \A t \in Edits : id[t] \in Ids
    BY DEF Inv, TypeOK
  <2>6. QED
    BY <2>2, <2>3, <2>4, <2>5 DEF EditInv
<1>2. CASE \E d \in Deletes : Delete(d)
  <2>1. PICK d \in Deletes : Delete(d)
    BY <1>2
  <2>2. /\ id' = id /\ fields' = fields /\ model' = model
        /\ present' = present \ {id[d]}
        /\ pc' = [pc EXCEPT ![d] = "done"]
        /\ overtaken' = overtaken \cup Holding(id[d])
        /\ \A i \in Ids : i # id[d] => docs'[i] = docs[i]
    BY <2>1 DEF Delete, Reply, Inv, TypeOK
  <2>3. \A t \in Edits : Held(t)' <=> Held(t)
    BY <2>2 DEF Held, Inv, TypeOK
  <2>4. \A t \in Edits : Held(t)' /\ t \notin overtaken' => id[t] # id[d]
    BY <2>2, <2>3 DEF Holding, Held
  <2>5. \A t \in Edits : id[t] \in Ids
    BY DEF Inv, TypeOK
  <2>6. QED
    BY <2>2, <2>3, <2>4, <2>5 DEF EditInv
<1>3. QED
  BY <1>1, <1>2

LEMMA NextEdit == Inv /\ EditInv /\ [Next]_vars => EditInv'
<1> SUFFICES ASSUME Inv, EditInv, [Next]_vars PROVE EditInv'
  OBVIOUS
<1> USE OpsAssumption, EditsAssumption DEF Ops
<1>1. CASE UNCHANGED vars
  BY <1>1, QuietEdit DEF vars, history, Held
<1>2. ASSUME NEW s \in Edits, FindOneByID(s) PROVE EditInv'
  <2>1. CASE Find(s)
    BY <2>1, FindEdit
  <2>2. CASE CallFind(s) \/ FindError(s)
    <3>1. \A t \in Edits : Held(t)' => Held(t)
      BY <2>2 DEF CallFind, FindError, Held, Inv, TypeOK
    <3>2. QED
      BY <2>2, <3>1, QuietEdit DEF CallFind, FindError, history
  <2>3. QED
    BY <1>2, <2>1, <2>2 DEF FindOneByID
<1>3. ASSUME NEW s \in Saves, CallSave(s) \/ ConvertError(s) \/ Count(s) \/ CountError(s) PROVE EditInv'
  <2>1. \A t \in Edits : Held(t)' => Held(t)
    BY <1>3 DEF CallSave, ConvertError, Count, CountError, Held, Inv, TypeOK
  <2>2. QED
    BY <1>3, <2>1, QuietEdit DEF CallSave, ConvertError, Count, CountError, history
<1>4. ASSUME NEW o \in Ops, (o \in Deletes /\ CallDelete(o)) \/ WriteError(o) \/ Abandon(o)
      PROVE  EditInv'
  <2>1. \A t \in Edits : Held(t)' => Held(t)
    BY <1>4 DEF CallDelete, WriteError, Abandon, Held, Inv, TypeOK
  <2>2. QED
    BY <1>4, <2>1, QuietEdit DEF CallDelete, WriteError, Abandon, history
<1>5. QED
  BY <1>1, <1>2, <1>3, <1>4, WriteEdit DEF Next, Save, DeleteByID

\* A field changes unasked, and a document comes back, only through an edit
\* that another write overtook (FindOneByID, then Save), or, to its zero value,
\* through a Save of a fresh model.
THEOREM Unasked == Spec => UnaskedNeedsOvertaking
<1> DEFINE Kept ==
      /\ \A i \in present \cap present', f \in Fields :
           docs'[i].values[f] # docs[i].values[f] =>
             \/ f \in fields[latest'[i]]
             \/ latest'[i] \in overtaken
             \/ latest'[i] \notin Edits /\ docs'[i].values[f] = Zero
      /\ \A i \in present' \ present : latest'[i] \in Edits => latest'[i] \in overtaken
<1>1. ASSUME Inv, EditInv, [Next]_vars PROVE [Kept]_vars
  <2>1. CASE UNCHANGED <<docs, present>>
    BY <2>1
  <2>2. ASSUME NEW s \in Saves, Update(s) PROVE Kept
    <3>1. id[s] \in Ids /\ pc[s] \in {"update", "lateUpdate"}
      BY <1>1, <2>2 DEF Update, Inv, TypeOK, Ops
    <3>2. /\ present' = present \cup {id[s]} /\ latest'[id[s]] = s
          /\ \A i \in present \cap present' : i # id[s] => docs'[i] = docs[i]
          /\ docs'[id[s]].values = model[s]
      BY <1>1, <2>2, <3>1 DEF Update, Inv, TypeOK, Merge
    <3>3. ASSUME NEW f \in Fields \ fields[s], s \notin overtaken
          PROVE  IF s \in Edits THEN model[s][f] = docs[id[s]].values[f] ELSE model[s][f] = Zero
      BY <1>1, <3>1, <3>3 DEF EditInv, Held
    <3>4. s \in Edits \ overtaken => id[s] \in present
      BY <1>1, <3>1 DEF EditInv, Held
    <3>5. QED
      BY <3>2, <3>3, <3>4
  <2>3. ASSUME NEW d \in Deletes, Delete(d) PROVE Kept
    BY <1>1, <2>3 DEF Delete, Inv, TypeOK, Ops
  <2>4. CASE ~(\E s \in Saves : Update(s)) /\ ~(\E d \in Deletes : Delete(d))
    <3>1. UNCHANGED <<docs, present>>
      BY <1>1, <2>4 DEF Next, FindOneByID, CallFind, Find, FindError, Save, DeleteByID, CallSave,
         ConvertError, Count, CountError, CallDelete, WriteError, Abandon, vars
    <3>2. QED
      BY <2>1, <3>1
  <2>5. QED
    BY <2>2, <2>3, <2>4
<1>2. Spec => []EditInv
  BY Invariance, InitEdit, NextEdit, PTL DEF Spec
<1>3. QED
  BY Invariance, <1>1, <1>2, PTL DEF Spec, UnaskedNeedsOvertaking
=============================================================================
