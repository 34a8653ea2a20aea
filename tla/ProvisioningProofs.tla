-------------------------- MODULE ProvisioningProofs --------------------------
(***************************************************************************)
(* Safety of provisioning for any replicas, versions and number of faults. *)
(*                                                                         *)
(* Distinct says that no two indexes clash, Progress what a start has   *)
(* in place when it is at a call, BucketInv whose bucket it is.            *)
(***************************************************************************)
EXTENDS Provisioning, TLAPS

Distinct == \A x, y \in indexes : ~Clash(x, y)

Advertised == \A x \in indexes : \E r \in Replicas : x \in cfg.advertised[r]

Has(r, kind) == \A x \in cfg.advertised[r] : x.kind = kind => x \in indexes

Progress ==
  \A r \in Replicas :
    /\ pc[r] \in {"collection", "classic", "search", "vector", "up"} => bucket
    /\ pc[r] \in {"classic", "search", "vector", "up"} => collection
    /\ pc[r] \in {"search", "vector", "up"} => Has(r, "classic")
    /\ pc[r] \in {"vector", "up"} => Has(r, "search")
    /\ pc[r] = "up" => Has(r, "vector")

BucketInv ==
  /\ cfg.bucket => bucket
  /\ maker # None => bucket
  /\ \A r \in Replicas : pc[r] = "create" =>
       cfg.provider = "gcp" /\ (bucket => maker \notin {r, None})

\* The first conjunct of RefusalHasCause.
Cause(r, k) == Disagrees(r, k) \/ NoneOf(r, k) \/ (saved /\ Violates(r, k))

IInv == TypeOK /\ Distinct /\ Advertised /\ Progress /\ BucketInv /\ RefusalHasCause

-----------------------------------------------------------------------------
LEMMA InitIInv == Init => IInv
<1> SUFFICES ASSUME Init PROVE IInv
  OBVIOUS
<1>1. cfg \in Configs /\ cfg.bucket \in BOOLEAN
  BY ConfigsAssumption DEF Init, ConfigSpace
<1>2. TypeOK
  <2>1. faults \in 0 .. MaxFaults
    BY MaxFaultsAssumption DEF Init
  <2>2. bucket \in BOOLEAN
    BY <1>1 DEF Init
  <2>3. QED
    BY <1>1, <2>1, <2>2 DEF Init, TypeOK
<1>3. Distinct /\ Advertised
  BY DEF Init, Distinct, Advertised
<1>4. Progress /\ BucketInv
  BY DEF Init, Progress, BucketInv
<1>5. RefusalHasCause
  BY DEF Init, RefusalHasCause, Kinds
<1>6. QED
  BY <1>2, <1>3, <1>4, <1>5 DEF IInv

\* What Wanted, and the part of it that is not clashing, is made of.
LEMMA WantedType ==
  ASSUME TypeOK, NEW r \in Replicas
  PROVE  /\ cfg.advertised[r] \subseteq Index
         /\ Wanted(r) \subseteq Index
         /\ cfg.provider \in {"azure", "gcp"}
<1>1. cfg \in ConfigSpace
  BY ConfigsAssumption DEF TypeOK
<1>2. QED
  BY <1>1 DEF ConfigSpace, Wanted

\* After moves a start from a call to a call, or lets it come up.
LEMMA PassesType ==
  ASSUME TypeOK, NEW r \in Replicas, pc[r] \in Calls, Passes(r)
  PROVE  /\ pc' \in [Replicas -> Calls \cup {"down", "up"}]
         /\ faults' = faults /\ refused' = refused
  BY DEF TypeOK, Passes, After, Calls, Kinds

LEMMA TypeStep == ASSUME TypeOK, Next PROVE TypeOK'
<1>1. CASE OtherSaves
  BY <1>1 DEF OtherSaves, TypeOK
<1>2. ASSUME NEW r \in Replicas, Steps(r) PROVE TypeOK'
  <2>0. Wanted(r) \subseteq Index
    BY WantedType
  <2>1. CASE Start(r)
    BY <2>1 DEF Start, TypeOK, Calls
  <2>2. CASE Connect(r)
    BY <2>2, PassesType DEF Connect, TypeOK, Calls
  <2>3. CASE CreateContainer(r)
    BY <2>3, PassesType DEF CreateContainer, MakeBucket, TypeOK, Calls
  <2>4. CASE Attrs(r)
    BY <2>4, PassesType DEF Attrs, TypeOK, Calls
  <2>5. CASE AttrsMissing(r)
    BY <2>5 DEF AttrsMissing, Refused, TypeOK, Calls
  <2>6. CASE Create(r)
    <3>1. CASE bucket
      BY <2>6, <3>1 DEF Create, Refused, TypeOK, Calls
    <3>2. CASE ~bucket
      BY <2>6, <3>2, PassesType DEF Create, MakeBucket, TypeOK, Calls
    <3>3. QED
      BY <3>1, <3>2
  <2>7. CASE CreateCollection(r)
    BY <2>7, PassesType DEF CreateCollection, TypeOK, Calls
  <2>8. CASE CreateMany(r)
    BY <2>0, <2>8, PassesType DEF CreateMany, TypeOK, Calls
  <2>9. CASE CreateManyRefused(r)
    BY <2>0, <2>9 DEF CreateManyRefused, Refused, TypeOK, Calls
  <2>10. QED
    BY <1>2, <2>1, <2>2, <2>3, <2>4, <2>5, <2>6, <2>7, <2>8, <2>9 DEF Steps
<1>3. ASSUME NEW r \in Replicas, Fault(r) PROVE TypeOK'
  <2>0. Wanted(r) \subseteq Index
    BY WantedType
  <2>1. faults' \in 0 .. MaxFaults
    BY <1>3, MaxFaultsAssumption DEF Fault, TypeOK
  <2>2. pc' \in [Replicas -> Calls \cup {"down", "up"}] /\ refused' \in [Replicas -> Calls \cup {"none"}]
    BY <1>3 DEF Fault, Down, TypeOK
  <2>3. bucket' \in BOOLEAN /\ maker' \in Replicas \cup {None} /\ collection' \in BOOLEAN
    BY <1>3 DEF Fault, MakeBucket, TypeOK
  <2>4. indexes' \subseteq Index
    BY <1>3, <2>0 DEF Fault, TypeOK
  <2>5. QED
    BY <1>3, <2>1, <2>2, <2>3, <2>4 DEF Fault, TypeOK
<1>4. QED
  BY <1>1, <1>2, <1>3 DEF Next

-----------------------------------------------------------------------------
\* Clash is symmetric, and indexes added where none clashes leave none clashing.
LEMMA AddDistinct ==
  ASSUME Distinct, NEW r \in Replicas, NEW made \in SUBSET (Wanted(r) \ Unbuildable(r)),
         indexes' = indexes \cup made
  PROVE  Distinct'
<1>1. \A x, y : Clash(x, y) => Clash(y, x)
  BY DEF Clash, SameName, SameDefinition
<1>2. \A x \in made, y \in indexes \cup Wanted(r) : ~Clash(x, y)
  BY DEF Unbuildable
<1>3. QED
  BY <1>1, <1>2 DEF Distinct, Clash, SameName, SameDefinition, Wanted

\* A step leaves the indexes alone or adds some of those that one replica
\* wants and that can be built.
LEMMA IndexStep ==
  ASSUME Next
  PROVE  \/ indexes' = indexes
         \/ \E r \in Replicas : \E made \in SUBSET (Wanted(r) \ Unbuildable(r)) : indexes' = indexes \cup made
<1>1. CASE OtherSaves
  BY <1>1 DEF OtherSaves
<1>2. ASSUME NEW r \in Replicas, Steps(r)
      PROVE  \/ indexes' = indexes
             \/ \E made \in SUBSET (Wanted(r) \ Unbuildable(r)) : indexes' = indexes \cup made
  <2>1. CASE CreateMany(r)
    <3>1. Wanted(r) = Wanted(r) \ Unbuildable(r)
      BY <2>1 DEF CreateMany
    <3>2. QED
      BY <2>1, <3>1 DEF CreateMany
  <2>2. CASE CreateManyRefused(r)
    BY <2>2 DEF CreateManyRefused
  <2>3. CASE \/ Start(r) \/ Connect(r) \/ CreateContainer(r) \/ Attrs(r) \/ AttrsMissing(r)
             \/ Create(r) \/ CreateCollection(r)
    BY <2>3 DEF Start, Connect, CreateContainer, Attrs, AttrsMissing, Create, CreateCollection
  <2>4. QED
    BY <1>2, <2>1, <2>2, <2>3 DEF Steps
<1>3. ASSUME NEW r \in Replicas, Fault(r)
      PROVE  \/ indexes' = indexes
             \/ \E made \in SUBSET (Wanted(r) \ Unbuildable(r)) : indexes' = indexes \cup made
  BY <1>3 DEF Fault
<1>4. QED
  BY <1>1, <1>2, <1>3 DEF Next

LEMMA CfgStep == ASSUME Next PROVE cfg' = cfg
  BY DEF Next, OtherSaves, Steps, Fault, Start, Connect, CreateContainer, Attrs, AttrsMissing,
         Create, CreateCollection, CreateMany, CreateManyRefused

LEMMA DistinctStep == ASSUME Distinct, Advertised, Next PROVE Distinct' /\ Advertised'
<1>1. cfg' = cfg
  BY CfgStep
<1>2. CASE indexes' = indexes
  BY <1>1, <1>2 DEF Distinct, Advertised, Clash, SameName, SameDefinition
<1>3. ASSUME NEW r \in Replicas, NEW made \in SUBSET (Wanted(r) \ Unbuildable(r)),
             indexes' = indexes \cup made
      PROVE  Distinct' /\ Advertised'
  <2>1. Distinct'
    BY <1>3, AddDistinct
  <2>2. Advertised'
    BY <1>1, <1>3 DEF Advertised, Wanted
  <2>3. QED
    BY <2>1, <2>2
<1>4. QED
  BY <1>2, <1>3, IndexStep

-----------------------------------------------------------------------------
\* Nothing that has been made goes away.
LEMMA Grows == ASSUME Next PROVE (bucket => bucket') /\ (collection => collection') /\ (saved => saved') /\ indexes \subseteq indexes'
<1>1. indexes \subseteq indexes'
  BY IndexStep
<1>2. (bucket => bucket') /\ (collection => collection') /\ (saved => saved')
  BY DEF Next, OtherSaves, Steps, Fault, Start, Connect, CreateContainer, Attrs, AttrsMissing,
         Create, CreateCollection, CreateMany, CreateManyRefused, MakeBucket
<1>3. QED
  BY <1>1, <1>2

\* A step moves at most one start; what holds of the others' progress goes on
\* to hold.
LEMMA ProgressStep == ASSUME TypeOK, Progress, BucketInv, Next PROVE Progress'
<1>0. cfg' = cfg /\ (bucket => bucket') /\ (collection => collection') /\ indexes \subseteq indexes'
  BY CfgStep, Grows
<1>1. ASSUME NEW q \in Replicas, pc'[q] = pc[q] \/ pc'[q] \in {"down", "connect", "bucket", "create"}
      PROVE  /\ pc'[q] \in {"collection", "classic", "search", "vector", "up"} => bucket'
             /\ pc'[q] \in {"classic", "search", "vector", "up"} => collection'
             /\ pc'[q] \in {"search", "vector", "up"} => Has(q, "classic")'
             /\ pc'[q] \in {"vector", "up"} => Has(q, "search")'
             /\ pc'[q] = "up" => Has(q, "vector")'
  BY <1>0, <1>1 DEF Progress, Has
<1>2. CASE OtherSaves
  BY <1>1, <1>2 DEF OtherSaves, Progress
<1>3. ASSUME NEW r \in Replicas, Fault(r) PROVE Progress'
  <2>1. \A q \in Replicas : pc'[q] = pc[q] \/ pc'[q] = "down"
    BY <1>3 DEF Fault, Down, TypeOK
  <2>2. QED
    BY <1>1, <2>1 DEF Progress
<1>4. ASSUME NEW r \in Replicas, Steps(r) PROVE Progress'
  <2>1. \A q \in Replicas \ {r} : pc'[q] = pc[q]
    BY <1>4 DEF Steps, Start, Connect, CreateContainer, Attrs, AttrsMissing, Create,
                CreateCollection, CreateMany, CreateManyRefused, Passes, Refused, TypeOK
  <2> SUFFICES /\ pc'[r] \in {"collection", "classic", "search", "vector", "up"} => bucket'
               /\ pc'[r] \in {"classic", "search", "vector", "up"} => collection'
               /\ pc'[r] \in {"search", "vector", "up"} => Has(r, "classic")'
               /\ pc'[r] \in {"vector", "up"} => Has(r, "search")'
               /\ pc'[r] = "up" => Has(r, "vector")'
    BY <1>1, <2>1 DEF Progress
  <2>2. CASE Start(r) \/ Connect(r) \/ AttrsMissing(r) \/ CreateManyRefused(r)
    <3>1. pc'[r] \in {"down", "connect", "bucket", "create"}
      BY <2>2 DEF Start, Connect, AttrsMissing, CreateManyRefused, Passes, Refused, After, TypeOK
    <3>2. QED
      BY <1>1, <3>1
  <2>3. CASE CreateContainer(r) \/ Attrs(r)
    BY <2>3 DEF CreateContainer, Attrs, MakeBucket, Passes, After, TypeOK
  <2>4. CASE Create(r)
    BY <2>4 DEF Create, MakeBucket, Passes, Refused, After, TypeOK
  <2>5. CASE CreateCollection(r)
    BY <1>0, <2>5 DEF CreateCollection, Passes, After, TypeOK, Progress
  <2>6. CASE CreateMany(r)
    <3>1. \A x \in cfg.advertised[r] : x.kind = pc[r] => x \in indexes'
      BY <2>6 DEF CreateMany, Wanted
    <3>2. pc'[r] = After[pc[r]]
      BY <2>6 DEF CreateMany, Passes, TypeOK
    <3>3. /\ Has(r, "classic") => Has(r, "classic")'
          /\ Has(r, "search") => Has(r, "search")'
      BY <1>0 DEF Has
    <3>4. CASE pc[r] = "classic"
      <4>1. pc'[r] = "search" /\ Has(r, "classic")'
        BY <1>0, <2>6, <3>1, <3>2, <3>4 DEF After, CreateMany, Has
      <4>2. QED
        BY <1>0, <3>4, <4>1 DEF Progress
    <3>5. CASE pc[r] = "search"
      <4>1. pc'[r] = "vector" /\ Has(r, "search")'
        BY <1>0, <2>6, <3>1, <3>2, <3>5 DEF After, CreateMany, Has
      <4>2. QED
        BY <1>0, <3>3, <3>5, <4>1 DEF Progress
    <3>6. CASE pc[r] = "vector"
      <4>1. pc'[r] = "up" /\ Has(r, "vector")'
        BY <1>0, <2>6, <3>1, <3>2, <3>6 DEF After, CreateMany, Has
      <4>2. QED
        BY <1>0, <3>3, <3>6, <4>1 DEF Progress
    <3>7. QED
      BY <2>6, <3>4, <3>5, <3>6 DEF CreateMany, Kinds
  <2>7. QED
    BY <1>4, <2>2, <2>3, <2>4, <2>5, <2>6 DEF Steps
<1>5. QED
  BY <1>2, <1>3, <1>4 DEF Next

\* Who waits at GCP's Create has seen no bucket, and makes none but by passing.
LEMMA BucketStep == ASSUME TypeOK, BucketInv, Next PROVE BucketInv'
<1>0. cfg' = cfg /\ (bucket => bucket')
  BY CfgStep, Grows
<1>1. CASE OtherSaves
  BY <1>1 DEF OtherSaves, BucketInv
<1>2. ASSUME NEW r \in Replicas, Steps(r) \/ Fault(r) PROVE BucketInv'
  <2>1. \A q \in Replicas \ {r} : pc'[q] = pc[q]
    BY <1>2 DEF Steps, Start, Connect, CreateContainer, Attrs, AttrsMissing, Create,
                CreateCollection, CreateMany, CreateManyRefused, Fault, Down, Passes, Refused, TypeOK
  <2>2. (bucket' = bucket /\ maker' = maker) \/ MakeBucket(r)
    BY <1>2 DEF Steps, Start, Connect, CreateContainer, Attrs, AttrsMissing, Create,
                CreateCollection, CreateMany, CreateManyRefused, Fault
  <2>3. (cfg.bucket)' => bucket'
    BY <1>0, <2>2 DEF BucketInv, MakeBucket
  <2>4. maker' # None => bucket'
    BY <2>2 DEF BucketInv, MakeBucket
  <2>5. pc'[r] = "create" => AttrsMissing(r)
    <3>1. CASE Start(r) \/ Connect(r) \/ CreateContainer(r) \/ Attrs(r) \/ CreateCollection(r)
      BY <3>1 DEF Start, Connect, CreateContainer, Attrs, CreateCollection, Passes, After, TypeOK
    <3>2. CASE Create(r) \/ CreateManyRefused(r) \/ Fault(r)
      <4>1. pc'[r] # "create"
        BY <3>2 DEF Create, CreateManyRefused, Fault, Down, Refused, Passes, After, TypeOK
      <4>2. QED
        BY <4>1
    <3>3. CASE CreateMany(r)
      BY <3>3 DEF CreateMany, Passes, After, TypeOK, Kinds
    <3>4. QED
      BY <1>2, <3>1, <3>2, <3>3 DEF Steps
  <2>6. pc'[r] = "create" => cfg.provider = "gcp" /\ ~bucket'
    BY <2>5 DEF AttrsMissing
  <2>7. \A q \in Replicas \ {r} : pc'[q] = "create" =>
          cfg.provider = "gcp" /\ (bucket' => maker' \notin {q, None})
    BY <2>1, <2>2, NoneAssumption DEF BucketInv, MakeBucket
  <2>8. QED
    BY <1>0, <2>3, <2>4, <2>6, <2>7 DEF BucketInv
<1>3. QED
  BY <1>1, <1>2 DEF Next

\* What a step refuses, it refuses for one of the causes.
LEMMA CauseStep ==
  ASSUME TypeOK, Advertised, BucketInv, RefusalHasCause, Next PROVE RefusalHasCause'
<1>0. /\ cfg' = cfg /\ (saved => saved')
      /\ \A q \in Replicas, k \in Kinds :
           /\ Disagrees(q, k)' <=> Disagrees(q, k)
           /\ NoneOf(q, k)' <=> NoneOf(q, k)
           /\ Violates(q, k)' <=> Violates(q, k)
  BY CfgStep, Grows DEF Disagrees, NoneOf, Violates, Violated, Clash, SameName, SameDefinition
<1>a. \A q \in Replicas, k \in Kinds : Cause(q, k) => Cause(q, k)'
  BY <1>0 DEF Cause
<1>1. \A q \in Replicas : maker \notin {q, None} => maker' \notin {q, None}
  BY DEF BucketInv, Next, OtherSaves, Steps, Start, Connect, CreateContainer, Attrs, AttrsMissing, Create,
         CreateCollection, CreateMany, CreateManyRefused, Fault, MakeBucket
<1>2. ASSUME NEW q \in Replicas, refused'[q] = refused[q] \/ refused'[q] = "none"
      PROVE  /\ \A k \in Kinds : refused'[q] = k => Cause(q, k)'
             /\ refused'[q] = "create" => cfg.provider = "gcp" /\ maker' \notin {q, None}
             /\ refused'[q] = "bucket" => cfg.provider = "gcp" /\ ~cfg.notFound /\ ~cfg.bucket
             /\ refused'[q] \notin {"connect", "collection"}
  <2>1. \A k \in Kinds : refused'[q] = k => Cause(q, k)'
    BY <1>2, <1>a DEF RefusalHasCause, Cause, Kinds
  <2>2. QED
    BY <1>0, <1>1, <1>2, <2>1 DEF RefusalHasCause
<1>3. CASE OtherSaves
  BY <1>0, <1>2, <1>3 DEF OtherSaves, RefusalHasCause, Cause
<1>4. ASSUME NEW r \in Replicas, Fault(r) PROVE RefusalHasCause'
  <2>1. \A q \in Replicas : refused'[q] = refused[q] \/ refused'[q] = "none"
    BY <1>4 DEF Fault, Down, TypeOK
  <2>2. QED
    BY <1>0, <1>2, <2>1 DEF RefusalHasCause, Cause
<1>5. ASSUME NEW r \in Replicas, Steps(r) PROVE RefusalHasCause'
  <2>1. CASE refused' = refused
    BY <1>0, <1>2, <2>1 DEF RefusalHasCause, Cause
  <2>2. CASE Refused(r) /\ (\/ AttrsMissing(r) /\ ~cfg.notFound
                            \/ Create(r) /\ bucket
                            \/ CreateManyRefused(r))
    <3>1. \A q \in Replicas \ {r} : refused'[q] = refused[q]
      BY <2>2 DEF Refused, TypeOK
    <3>2. refused'[r] = pc[r]
      BY <2>2 DEF Refused, TypeOK
    <3> SUFFICES /\ \A k \in Kinds : pc[r] = k => Cause(r, k)'
                 /\ pc[r] = "create" => cfg.provider = "gcp" /\ maker' \notin {r, None}
                 /\ pc[r] = "bucket" => cfg.provider = "gcp" /\ ~cfg.notFound /\ ~cfg.bucket
                 /\ pc[r] \notin {"connect", "collection"}
      BY <1>0, <1>2, <3>1, <3>2 DEF RefusalHasCause, Cause
    <3>4. CASE AttrsMissing(r) /\ ~cfg.notFound
      BY <3>4 DEF AttrsMissing, BucketInv, Kinds
    <3>5. CASE Create(r) /\ bucket
      BY <3>5 DEF Create, BucketInv, Kinds
    <3>6. CASE CreateManyRefused(r)
      <4>0. pc[r] \in Kinds
        BY <3>6 DEF CreateManyRefused
      <4>1. ASSUME NEW k \in Kinds, pc[r] = k PROVE Cause(r, k)'
        <5>1. CASE EmptyList(r)
          <6>1. NoneOf(r, k)
            BY <4>1, <5>1 DEF EmptyList, NoneOf, Wanted
          <6>2. QED
            BY <1>a, <6>1 DEF Cause
        <5>2. CASE Unbuildable(r) # {}
          <6>1. PICK x \in Wanted(r) :
                  (\E y \in indexes \cup Wanted(r) : Clash(x, y)) \/ (saved /\ Violated(x))
            BY <5>2 DEF Unbuildable
          <6>2. x \in cfg.advertised[r] /\ x.kind = k
            BY <4>1 DEF Wanted
          <6>3. CASE \E y \in indexes \cup Wanted(r) : Clash(x, y)
            <7>1. Disagrees(r, k)
              BY <6>2, <6>3 DEF Disagrees, Advertised, Wanted
            <7>2. QED
              BY <1>a, <7>1 DEF Cause
          <6>4. CASE saved /\ Violated(x)
            <7>1. Violates(r, k)
              BY <6>2, <6>4 DEF Violates
            <7>2. QED
              BY <1>a, <6>4, <7>1 DEF Cause
          <6>5. QED
            BY <6>1, <6>3, <6>4
        <5>3. QED
          BY <3>6, <5>1, <5>2 DEF CreateManyRefused
      <4>2. QED
        BY <4>0, <4>1 DEF Kinds
    <3>7. QED
      BY <2>2, <3>4, <3>5, <3>6
  <2>3. CASE Start(r) \/ Connect(r) \/ CreateContainer(r) \/ Attrs(r) \/ CreateCollection(r) \/ CreateMany(r)
    BY <2>1, <2>3 DEF Start, Connect, CreateContainer, Attrs, CreateCollection, CreateMany, Passes
  <2>4. CASE AttrsMissing(r)
    <3>1. CASE cfg.notFound
      BY <2>1, <2>4, <3>1 DEF AttrsMissing
    <3>2. CASE ~cfg.notFound
      <4>1. Refused(r)
        BY <2>4, <3>2 DEF AttrsMissing
      <4>2. AttrsMissing(r) /\ ~cfg.notFound
        BY <2>4, <3>2
      <4>3. QED
        BY <2>2, <4>1, <4>2
    <3>3. QED
      BY <3>1, <3>2
  <2>5. CASE Create(r)
    BY <2>1, <2>2, <2>5 DEF Create, Passes
  <2>6. CASE CreateManyRefused(r)
    BY <2>2, <2>6 DEF CreateManyRefused
  <2>7. QED
    BY <1>5, <2>3, <2>4, <2>5, <2>6 DEF Steps
<1>6. QED
  BY <1>3, <1>4, <1>5 DEF Next

-----------------------------------------------------------------------------
LEMMA NextIInv == IInv /\ [Next]_vars => IInv'
<1> SUFFICES ASSUME IInv, [Next]_vars PROVE IInv'
  OBVIOUS
<1>1. CASE Next
  BY <1>1, TypeStep, DistinctStep, ProgressStep, BucketStep, CauseStep DEF IInv
<1>2. CASE UNCHANGED vars
  <2>1. TypeOK' /\ Distinct' /\ Advertised'
    BY <1>2 DEF IInv, TypeOK, Distinct, Advertised, Clash, SameName, SameDefinition, vars
  <2>2. Progress' /\ BucketInv'
    BY <1>2 DEF IInv, Progress, Has, BucketInv, vars
  <2>3. RefusalHasCause'
    BY <1>2 DEF IInv, RefusalHasCause, Disagrees, NoneOf, Violates, Violated, Clash, SameName,
                SameDefinition, vars
  <2>4. QED
    BY <2>1, <2>2, <2>3 DEF IInv
<1>3. QED
  BY <1>1, <1>2

\* What a replica has passed on its way up exists, whoever made it.
THEOREM Inductive == Spec => []IInv
<1>1. IInv /\ [Next]_vars => IInv'
  BY NextIInv
<1>2. QED
  BY InitIInv, <1>1, PTL DEF Spec

\* The type invariant of provisioning, for any replicas, versions and faults.
THEOREM TypeCorrect == Spec => []TypeOK
<1>1. IInv => TypeOK
  BY DEF IInv
<1>2. QED
  BY <1>1, Inductive, PTL

\* A replica that is up has its bucket, its collection and every index it
\* advertises, in its own definition (EnsureBucket, EnsureIndexes).
THEOREM EverythingInPlace == Spec => []InPlace
<1>1. IInv => InPlace
  <2> SUFFICES ASSUME IInv, NEW r \in Replicas, pc[r] = "up"
               PROVE  /\ bucket /\ collection
                      /\ cfg.advertised[r] \subseteq indexes
                      /\ \A x \in cfg.advertised[r], y \in indexes : ~Clash(x, y)
    BY DEF InPlace
  <2>1. bucket /\ collection /\ \A k \in Kinds : Has(r, k)
    BY DEF IInv, Progress, Kinds
  <2>2. \A x \in cfg.advertised[r] : x.kind \in Kinds
    BY WantedType DEF IInv, Index
  <2>3. cfg.advertised[r] \subseteq indexes
    BY <2>1, <2>2 DEF Has
  <2>4. QED
    BY <2>1, <2>3 DEF IInv, Distinct
<1>2. QED
  BY <1>1, Inductive, PTL

\* Starts do not make each other, or their own successors, fail: what is
\* refused without a fault has one of the causes named (EnsureBucket,
\* EnsureIndexes).
THEOREM NoOtherRefusal == Spec => []RefusalHasCause
<1>1. IInv => RefusalHasCause
  BY DEF IInv
<1>2. QED
  BY <1>1, Inductive, PTL
=============================================================================
