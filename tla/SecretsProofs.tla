--------------------------- MODULE SecretsProofs ---------------------------
(***************************************************************************)
(* That processes reject a token, or accept a stale one, only for a cause, *)
(* however many processes and secrets there are, and whatever the file and *)
(* the exports hold.                                                       *)
(***************************************************************************)
EXTENDS Secrets, TLAPS

\* The signing secret a process has read is no older than its loading.
KeyInv ==
  \A p \in Processes :
    (pc[p] \in {"loading", "serving"} /\ Secret \notin left[p] /\ ~partial[p])
      => Key(p) \in since[p] .. vault

\* A process began to load at a version there has been.
SinceInv == \A p \in Processes : since[p] <= vault

\* Only a process that loads has anything left to read.
LeftInv == \A p \in Processes : pc[p] # "loading" => left[p] = {}

\* Nor is the secret of a token older than its signer's loading.
TokenInv == \A t \in tokens : ~t.partial => t.key \in t.since .. vault

\* What the last call's outcome says of its cause.
CauseInv == RejectionNeedsCause /\ StaleNeedsCause

Inv == TypeOK /\ SinceInv /\ KeyInv /\ LeftInv /\ TokenInv /\ CauseInv

\* The numbers among the values, for arithmetic.
LEMMA VersionsAreNaturals ==
  ASSUME TypeOK
  PROVE  /\ vault \in Nat \ {0}
         /\ \A p \in Processes : since[p] \in Nat
         /\ \A t \in tokens : t.since \in Nat
         /\ None \notin Nat /\ MaxVersion \in Nat
BY NoneAssumption, MaxVersionAssumption DEF TypeOK

-----------------------------------------------------------------------------
(* Types.                                                                  *)

\* The environments a process starts with assign values to names.
LEMMA InitType == Init => TypeOK
<1> SUFFICES ASSUME Init PROVE TypeOK OBVIOUS
<1>1. env \in [Processes -> [Names -> Values]]
  BY EnvironmentsAssumption DEF Init
<1>2. vault \in 1 .. MaxVersion /\ since \in [Processes -> 0 .. MaxVersion]
  BY MaxVersionAssumption DEF Init
<1> QED BY <1>1, <1>2 DEF Init, TypeOK, Steps, NoCall

\* A value of the file is a value.
LEMMA FileValues ==
  ASSUME file \in Files, NEW n \in DOMAIN file
  PROVE  file[n] \in Values
<1> DEFINE Of(e) == {e[m] : m \in DOMAIN e}
<1>1. file[n] \in Of(file) OBVIOUS
<1>2. Of(file) \in {Of(e) : e \in Exports \cup Files} OBVIOUS
<1>3. file[n] \in UNION {Of(e) : e \in Exports \cup Files}
  <2> HIDE DEF Of
  <2> QED BY <1>1, <1>2
<1> QED BY <1>3 DEF Values, Given

\* So is a version of the signing secret.
LEMMA VersionValues == 1 .. MaxVersion \subseteq Values
BY DEF Values

\* Every step keeps the types.
LEMMA StepType == TypeOK /\ [Next]_vars => TypeOK'
<1> SUFFICES ASSUME TypeOK, [Next]_vars PROVE TypeOK' OBVIOUS
<1> USE DEF TypeOK, Goto, Steps, history, deploy
<1>1. ASSUME NEW p \in Processes, Start(p) PROVE TypeOK'
  BY <1>1 DEF Start
<1>2. ASSUME NEW p \in Processes, Stop(p) PROVE TypeOK'
  <2>1. exports[p] \in [Names -> Values] BY EnvironmentsAssumption
  <2>2. env' \in [Processes -> [Names -> Values]] BY <1>2, <2>1 DEF Stop, Forgotten
  <2> QED BY <1>2, <2>2, MaxVersionAssumption DEF Stop, Forgotten
<1>3. ASSUME NEW p \in Processes, LoadEnv(p) PROVE TypeOK'
  <2> DEFINE new == [n \in Names |-> IF n \in DOMAIN file THEN file[n] ELSE env[p][n]]
  <2>1. new \in [Names -> Values] BY FileValues
  <2>2. env' = [env EXCEPT ![p] = new] BY <1>3 DEF LoadEnv
  <2> HIDE DEF new
  <2>3. env' \in [Processes -> [Names -> Values]] BY <2>1, <2>2
  <2> QED BY <1>3, <2>3 DEF LoadEnv
<1>4. ASSUME NEW p \in Processes, LoadEnvFails(p) PROVE TypeOK'
  BY <1>4 DEF LoadEnvFails
<1>5. ASSUME NEW p \in Processes, LoadConfig(p) PROVE TypeOK'
  <2> DEFINE named == env[p]["ENV"] \in Sections
  <2>1. PICK found \in {FALSE, named} : vaultNamed' = [vaultNamed EXCEPT ![p] = found]
    BY <1>5 DEF LoadConfig
  <2>2. found \in BOOLEAN
    <3>1. named \in BOOLEAN OBVIOUS
    <3> HIDE DEF named
    <3> QED BY <3>1
  <2>3. vaultNamed' \in [Processes -> BOOLEAN] BY <2>1, <2>2
  <2> QED BY <1>5, <2>3 DEF LoadConfig
<1>6. ASSUME NEW p \in Processes, EnsureFails(p) PROVE TypeOK'
  BY <1>6 DEF EnsureFails
<1>7. ASSUME NEW p \in Processes, List(p) PROVE TypeOK'
  BY <1>7 DEF List
<1>8. ASSUME NEW p \in Processes, NEW n \in Listed, ReadSecret(p, n) PROVE TypeOK'
  <2>1. vault \in Values /\ n \in Names BY VersionValues DEF Names
  <2>2. env' \in [Processes -> [Names -> Values]] BY <1>8, <2>1 DEF ReadSecret
  <2> QED BY <1>8, <2>2 DEF ReadSecret
<1>9. ASSUME NEW p \in Processes, NEW n \in Listed, SkipSecret(p, n) PROVE TypeOK'
  BY <1>9 DEF SkipSecret
<1>10. ASSUME NEW p \in Processes, ListFails(p) PROVE TypeOK'
  BY <1>10 DEF ListFails
<1>11. ASSUME NEW p \in Processes, Loaded(p) PROVE TypeOK'
  BY <1>11 DEF Loaded
<1>12. ASSUME NEW p \in Processes, GetToken(p) PROVE TypeOK'
  <2>1. Key(p) \in Values \ {None} BY <1>12 DEF GetToken, Key, Names
  <2> QED BY <1>12, <2>1 DEF GetToken, Token
<1>13. ASSUME NEW p \in Processes, NEW t \in tokens, HandlerRuns(p, t) \/ TokenRejected(p, t)
       PROVE TypeOK'
  <2>1. PICK outcome \in {"handled", "invalid"} : call' = Event(p, t, outcome)
    BY <1>13 DEF HandlerRuns, TokenRejected
  <2>2. /\ (t.key # vault) \in BOOLEAN
        /\ SignedCurrent(t) \in BOOLEAN /\ Current(p) \in BOOLEAN
    BY DEF SignedCurrent, Current
  <2>3. call' \in [outcome : {"handled", "invalid"}, stale : BOOLEAN,
                   signer : BOOLEAN, verifier : BOOLEAN]
    BY <2>1, <2>2 DEF Event
  <2> QED BY <1>13, <2>3 DEF HandlerRuns, TokenRejected
<1>14. ASSUME NEW p \in Processes, TokenMissing(p) PROVE TypeOK'
  BY <1>14 DEF TokenMissing
<1>15. CASE Rotate
  BY <1>15, MaxVersionAssumption DEF Rotate
<1>16. ASSUME NEW t \in tokens, Forget(t) PROVE TypeOK'
  BY <1>16 DEF Forget
<1>17. CASE UNCHANGED vars
  BY <1>17 DEF vars
<1> QED
  BY <1>1, <1>2, <1>3, <1>4, <1>5, <1>6, <1>7, <1>8, <1>9, <1>10, <1>11, <1>12, <1>13,
     <1>14, <1>15, <1>16, <1>17 DEF Next, Loading, Serving
-----------------------------------------------------------------------------
(* The rest of the invariant.                                              *)

\* Nobody has read, signed or called anything yet.
LEMMA InitInv == Init => Inv
<1> SUFFICES ASSUME Init PROVE Inv OBVIOUS
<1>1. TypeOK BY InitType
<1>2. SinceInv BY DEF Init, SinceInv
<1>3. KeyInv /\ LeftInv /\ TokenInv BY DEF Init, KeyInv, LeftInv, TokenInv
<1>4. CauseInv BY DEF Init, CauseInv, RejectionNeedsCause, StaleNeedsCause, NoCall
<1> QED BY <1>1, <1>2, <1>3, <1>4 DEF Inv

\* Only its own List sets the version a process began at, to the vault's, which
\* never goes back.
LEMMA StepSince == TypeOK /\ SinceInv /\ [Next]_vars => SinceInv' /\ vault <= vault'
<1> SUFFICES ASSUME TypeOK, SinceInv, [Next]_vars PROVE SinceInv' /\ vault <= vault'
  OBVIOUS
<1>0. vault \in Nat /\ \A q \in Processes : since[q] \in Nat /\ since[q] <= vault
  BY VersionsAreNaturals DEF SinceInv
<1>1. ASSUME NEW p \in Processes, List(p) \/ Stop(p) PROVE SinceInv' /\ vault <= vault'
  BY <1>0, <1>1 DEF List, Stop, Forgotten, deploy, SinceInv, TypeOK
<1>2. CASE Rotate
  BY <1>0, <1>2 DEF Rotate, history, SinceInv
<1>3. CASE UNCHANGED <<vault, since>>
  BY <1>0, <1>3 DEF SinceInv
<1> QED
  BY <1>1, <1>2, <1>3
  DEF Next, Loading, Serving, vars, history, Start, LoadEnv, LoadEnvFails, LoadConfig,
      EnsureFails, ListFails, Loaded, ReadSecret, SkipSecret, GetToken, HandlerRuns,
      TokenRejected, TokenMissing, Forget

\* A process that reads its secret has the vault's; another step of its own leads
\* out of loading and serving, or leaves the secret alone.
LEMMA StepKey == TypeOK /\ SinceInv /\ KeyInv /\ [Next]_vars => KeyInv'
<1> SUFFICES ASSUME TypeOK, SinceInv, KeyInv, [Next]_vars, NEW q \in Processes,
                    pc'[q] \in {"loading", "serving"}, Secret \notin left'[q], ~partial'[q]
             PROVE  env'[q][Secret] \in since'[q] .. vault'
  BY DEF KeyInv, Key
<1>0. /\ vault \in Nat /\ since[q] \in Nat /\ since[q] <= vault
      /\ vault' \in Nat /\ vault <= vault'
  BY VersionsAreNaturals, StepType, StepSince DEF SinceInv, TypeOK
<1>1. pc[q] \in {"loading", "serving"} /\ Secret \notin left[q] /\ ~partial[q]
        => env[q][Secret] \in since[q] .. vault
  BY DEF KeyInv, Key
<1> USE DEF TypeOK, Goto, history, deploy
<1>2. CASE UNCHANGED <<env[q], since[q], pc[q], left[q], partial[q]>>
  BY <1>0, <1>1, <1>2
<1>3. CASE Start(q) \/ Stop(q) \/ LoadEnv(q) \/ LoadEnvFails(q) \/ LoadConfig(q)
  BY <1>3 DEF Start, Stop, LoadEnv, LoadEnvFails, LoadConfig
<1>4. CASE EnsureFails(q)
  BY <1>4 DEF EnsureFails
<1>5. CASE List(q)
  BY <1>5, ListedAssumption DEF List
<1>6. ASSUME NEW n \in Listed, ReadSecret(q, n) PROVE env'[q][Secret] \in since'[q] .. vault'
  <2>1. CASE n = Secret
    <3>1. env'[q][Secret] = vault BY <1>6, <2>1 DEF ReadSecret, Names
    <3> QED BY <1>0, <1>6, <3>1 DEF ReadSecret
  <2>2. CASE n # Secret
    BY <1>0, <1>1, <1>6, <2>2 DEF ReadSecret, Names
  <2> QED BY <2>1, <2>2
<1>7. ASSUME NEW n \in Listed, SkipSecret(q, n) PROVE env'[q][Secret] \in since'[q] .. vault'
  BY <1>0, <1>1, <1>7 DEF SkipSecret
<1>8. CASE ListFails(q)
  BY <1>0, <1>1, <1>8 DEF ListFails
<1>9. CASE Loaded(q)
  BY <1>0, <1>1, <1>9 DEF Loaded
<1>10. CASE \/ GetToken(q) \/ TokenMissing(q)
            \/ \E t \in tokens : HandlerRuns(q, t) \/ TokenRejected(q, t)
  <2>1. UNCHANGED <<env, since, pc, left, partial>>
    BY <1>10 DEF GetToken, TokenMissing, HandlerRuns, TokenRejected
  <2> QED BY <2>1, <1>2
<1>11. ASSUME NEW p \in Processes, p # q, Start(p) \/ Stop(p) \/ Loading(p) \/ Serving(p)
       PROVE  UNCHANGED <<env[q], since[q], pc[q], left[q], partial[q]>>
  BY <1>11
  DEF Loading, Serving, Start, Stop, Forgotten, LoadEnv, LoadEnvFails, LoadConfig,
      EnsureFails, List, ListFails, Loaded, ReadSecret, SkipSecret, GetToken, HandlerRuns,
      TokenRejected, TokenMissing
<1>12. CASE Rotate \/ (\E t \in tokens : Forget(t)) \/ UNCHANGED vars
  <2>1. UNCHANGED <<env, since, pc, left, partial>>
    BY <1>12 DEF Rotate, Forget, vars
  <2> QED BY <2>1, <1>2
<1> QED
  <2>1. CASE \E p \in Processes : p # q /\ (Start(p) \/ Stop(p) \/ Loading(p) \/ Serving(p))
    BY <2>1, <1>2, <1>11
  <2>2. CASE Start(q) \/ Stop(q) \/ Loading(q) \/ Serving(q)
    BY <2>2, <1>3, <1>4, <1>5, <1>6, <1>7, <1>8, <1>9, <1>10 DEF Loading, Serving
  <2> QED BY <2>1, <2>2, <1>12 DEF Next

\* A process that is not loading has read or given up all it was to read.
LEMMA StepLeft == TypeOK /\ LeftInv /\ [Next]_vars => LeftInv'
<1> SUFFICES ASSUME TypeOK, LeftInv, [Next]_vars PROVE LeftInv'
  OBVIOUS
<1> USE DEF TypeOK, LeftInv, Goto, history, deploy
<1>1. ASSUME NEW p \in Processes, Start(p) \/ Stop(p) PROVE LeftInv'
  BY <1>1 DEF Start, Stop, Forgotten
<1>2. ASSUME NEW p \in Processes, LoadEnv(p) \/ LoadEnvFails(p) \/ LoadConfig(p) \/ EnsureFails(p)
      PROVE LeftInv'
  BY <1>2 DEF LoadEnv, LoadEnvFails, LoadConfig, EnsureFails
<1>3. ASSUME NEW p \in Processes, List(p) \/ ListFails(p) \/ Loaded(p) PROVE LeftInv'
  BY <1>3 DEF List, ListFails, Loaded
<1>4. ASSUME NEW p \in Processes, NEW n \in Listed, ReadSecret(p, n) \/ SkipSecret(p, n)
      PROVE LeftInv'
  BY <1>4 DEF ReadSecret, SkipSecret
<1>5. CASE UNCHANGED <<pc, left>>
  BY <1>5
<1> QED
  BY <1>1, <1>2, <1>3, <1>4, <1>5
  DEF Next, Loading, Serving, vars, GetToken, HandlerRuns, TokenRejected, TokenMissing,
      Rotate, Forget

\* A token is signed with the secret its signer has.
LEMMA StepToken == TypeOK /\ SinceInv /\ KeyInv /\ LeftInv /\ TokenInv /\ [Next]_vars => TokenInv'
<1> SUFFICES ASSUME TypeOK, SinceInv, KeyInv, LeftInv, TokenInv, [Next]_vars,
                    NEW t \in tokens', ~t.partial
             PROVE  t.key \in t.since .. vault'
  BY DEF TokenInv
<1>0. vault \in Nat /\ vault' \in Nat /\ vault <= vault'
  BY VersionsAreNaturals, StepType, StepSince DEF TypeOK
<1>1. CASE t \in tokens
  <2>1. t.since \in Nat /\ t.key \in t.since .. vault
    BY <1>1, VersionsAreNaturals DEF TokenInv
  <2> QED BY <1>0, <2>1
<1>2. CASE t \notin tokens
  <2>1. PICK p \in Processes : GetToken(p) /\ t = Token(p)
    BY <1>2
    DEF Next, Loading, Serving, vars, Start, Stop, Forgotten, LoadEnv, LoadEnvFails,
        LoadConfig, EnsureFails, List, ListFails, Loaded, ReadSecret, SkipSecret, GetToken,
        HandlerRuns, TokenRejected, TokenMissing, Rotate, Forget
  <2>2. pc[p] = "serving" /\ left[p] = {} /\ ~partial[p]
    BY <2>1 DEF GetToken, LeftInv, Token
  <2>3. Key(p) \in since[p] .. vault
    BY <2>2 DEF KeyInv
  <2> QED BY <1>0, <2>1, <2>3, VersionsAreNaturals DEF Token
<1> QED BY <1>1, <1>2

\* A process and a signer that both have the vault's secret have the same one, and
\* it is not None.
LEMMA Agree ==
  ASSUME TypeOK, KeyInv, LeftInv, TokenInv,
         NEW p \in Processes, pc[p] = "serving", Current(p), NEW t \in tokens
  PROVE  /\ Key(p) = vault /\ Key(p) # None
         /\ SignedCurrent(t) => t.key = vault
<1>1. Key(p) \in vault .. vault
  BY DEF KeyInv, LeftInv, Current
<1>2. SignedCurrent(t) => t.key \in vault .. vault
  BY DEF TokenInv, SignedCurrent
<1> QED BY <1>1, <1>2, VersionsAreNaturals

\* So the outcome of a call has its cause.
LEMMA StepCause == TypeOK /\ KeyInv /\ LeftInv /\ TokenInv /\ CauseInv /\ [Next]_vars => CauseInv'
<1> SUFFICES ASSUME TypeOK, KeyInv, LeftInv, TokenInv, CauseInv, [Next]_vars PROVE CauseInv'
  OBVIOUS
<1> USE DEF CauseInv, RejectionNeedsCause, StaleNeedsCause
<1>1. ASSUME NEW p \in Processes, NEW t \in tokens, HandlerRuns(p, t) PROVE CauseInv'
  <2>1. pc[p] = "serving" /\ t.key = Key(p) /\ call' = Event(p, t, "handled")
    BY <1>1 DEF HandlerRuns, Valid
  <2>2. Current(p) => t.key = vault BY <2>1, Agree
  <2> QED BY <2>1, <2>2 DEF Event
<1>2. ASSUME NEW p \in Processes, NEW t \in tokens, TokenRejected(p, t) PROVE CauseInv'
  <2>1. pc[p] = "serving" /\ (Key(p) = None \/ t.key # Key(p)) /\ call' = Event(p, t, "invalid")
    BY <1>2 DEF TokenRejected, Valid
  <2>2. ~Current(p) \/ ~SignedCurrent(t) BY <2>1, Agree
  <2> QED BY <2>1, <2>2 DEF Event
<1>3. ASSUME NEW p \in Processes, TokenMissing(p) PROVE CauseInv'
  BY <1>3 DEF TokenMissing
<1>4. CASE UNCHANGED call
  BY <1>4
<1> QED
  BY <1>1, <1>2, <1>3, <1>4
  DEF Next, Loading, Serving, vars, Start, Stop, LoadEnv, LoadEnvFails, LoadConfig,
      EnsureFails, List, ListFails, Loaded, ReadSecret, SkipSecret, GetToken, Rotate, Forget

\* The invariant is inductive.
LEMMA Invariance == Spec => []Inv
<1>1. Inv /\ [Next]_vars => Inv'
  BY StepType, StepSince, StepKey, StepLeft, StepToken, StepCause DEF Inv
<1> QED BY InitInv, <1>1, PTL DEF Spec

-----------------------------------------------------------------------------
\* The type invariant: in particular no token is signed with an unset secret.
THEOREM TypeCorrect == Spec => []TypeOK
BY Invariance, PTL DEF Inv

\* A service's processes accept each other's tokens unless one of them missed the
\* secret or loaded it before a rotation, whatever .env and the exports hold.
THEOREM Rejection == Spec => []RejectionNeedsCause
BY Invariance, PTL DEF Inv, CauseInv

\* A token of an earlier secret is accepted only where the secret was missed, or not
\* loaded since the rotation.
THEOREM Stale == Spec => []StaleNeedsCause
BY Invariance, PTL DEF Inv, CauseInv
=============================================================================
