---------------------------- MODULE RetryProofs ----------------------------
(***************************************************************************)
(* Retry's pacing, proved for every number of retries, base delay,         *)
(* duration of fn and context.                                             *)
(***************************************************************************)
EXTENDS Retry, TLAPS

\* What the limiter's credit says of the last attempt: either the whole
\* interval passed, of which every is the double, or the credit is the double
\* of the time since it started.
CreditInv ==
  pc = "wait" /\ retries > 0 =>
    /\ now >= start
    /\ \/ credit = every /\ 2 * (now - start) >= every
       \/ credit = 2 * (now - start)

\* The waits so far against the interval, before and after a failure.
WaitedInv ==
  /\ pc = "wait" /\ retries = 0 => every = BaseDelay /\ waited = 0 /\ credit = every
  /\ pc = "wait" /\ retries > 0 => waited <= every - 2 * BaseDelay
  /\ waited <= 2 * every - 2 * BaseDelay

RunInv ==
  /\ pc = "call" => credit = 0 /\ now = start
  /\ pc # "returned" => result = "none"
  /\ OutcomeCounted

Inv == TypeOK /\ CreditInv /\ WaitedInv /\ RunInv

LEMMA InitInv == Init => Inv
  BY MaxRetriesAssumption, BaseDelayAssumption
     DEF Init, Inv, TypeOK, CreditInv, WaitedInv, RunInv, OutcomeCounted

\* An attempt starts at a natural time and takes every token.
LEMMA AttemptInv == ASSUME Inv, Attempt PROVE Inv'
<1> USE DEF Inv, Attempt, Due
<1>1. TypeOK'
  BY DEF TypeOK
<1>2. CreditInv' /\ RunInv'
  BY DEF TypeOK, CreditInv, RunInv, OutcomeCounted
<1>3. WaitedInv'
  BY BaseDelayAssumption DEF TypeOK, WaitedInv
<1>4. QED
  BY <1>1, <1>2, <1>3

LEMMA FailInv == ASSUME Inv, NEW d \in Durations, Fail(d) PROVE Inv'
<1> USE DurationsAssumption, MaxRetriesAssumption DEF Inv, Fail, Smaller, history
<1>1. d \in Nat
  OBVIOUS
<1>2. TypeOK'
  <2>1. retries' \in 0 .. MaxRetries
    BY DEF TypeOK, RunInv, OutcomeCounted
  <2>2. every' \in Nat \ {0} /\ credit' \in 0 .. every' /\ now' \in Nat
    BY <1>1 DEF TypeOK
  <2>3. QED
    BY <2>1, <2>2 DEF TypeOK
<1>3. CreditInv'
  BY <1>1 DEF TypeOK, CreditInv, RunInv
<1>4. WaitedInv'
  BY BaseDelayAssumption DEF TypeOK, WaitedInv
<1>5. RunInv'
  BY DEF TypeOK, RunInv, OutcomeCounted
<1>6. QED
  BY <1>2, <1>3, <1>4, <1>5

\* The steps that return change nothing the pacing depends on.
LEMMA ReturnInv ==
  ASSUME Inv, GiveUp \/ WaitRefused \/ WaitCancelled \/ (\E d \in Durations : Succeed(d))
  PROVE  Inv'
<1> USE DEF Inv, GiveUp, WaitRefused, WaitCancelled, Succeed, Return, history
<1>1. now' \in Nat
  <2>1. ctx.at \in Nat
    <3>1. CASE ctx \in [kind : {"background"}, at : {0}]
      BY <3>1
    <3>2. CASE ctx \in [kind : {"cancel", "deadline"}, at : Deadlines]
      BY <3>2, DeadlinesAssumption
    <3>3. QED
      BY <3>1, <3>2 DEF TypeOK, Contexts
  <2>2. \A d \in Durations : now + d \in Nat
    BY DurationsAssumption DEF TypeOK
  <2>3. QED
    BY <2>1, <2>2 DEF TypeOK
<1>2. TypeOK'
  BY <1>1 DEF TypeOK
<1>3. CreditInv' /\ WaitedInv'
  BY DEF TypeOK, CreditInv, WaitedInv
<1>4. RunInv'
  BY MaxRetriesAssumption DEF TypeOK, RunInv, OutcomeCounted
<1>5. QED
  BY <1>2, <1>3, <1>4

LEMMA NextInv == Inv /\ [Next]_vars => Inv'
<1> SUFFICES ASSUME Inv, [Next]_vars PROVE Inv'
  OBVIOUS
<1>1. CASE UNCHANGED vars
  BY <1>1 DEF Inv, vars, history, TypeOK, CreditInv, WaitedInv, RunInv, OutcomeCounted
<1>2. CASE Next
  BY <1>2, AttemptInv, FailInv, ReturnInv DEF Next
<1>3. QED
  BY <1>1, <1>2

\* The limiter's credit, the waits so far and the attempts counted agree at
\* every step of the loop.
THEOREM Invariance == Spec => []Inv
  BY InitInv, NextInv, PTL DEF Spec

\* The variables keep their types.
THEOREM TypeCorrect == Spec => []TypeOK
<1>1. Inv => TypeOK
  BY DEF Inv
<1>2. QED
  BY Invariance, <1>1, PTL

\* Together the waits stay below BaseDelay * 2^(retries + 1).
THEOREM TotalWait == Spec => []WaitBounded
<1>1. Inv => WaitBounded
  BY DEF Inv, WaitedInv, WaitBounded
<1>2. QED
  BY Invariance, <1>1, PTL

\* Failure is reported after MaxRetries failed calls, success from an allowed one.
THEOREM Counted == Spec => []OutcomeCounted
<1>1. Inv => OutcomeCounted
  BY DEF Inv, RunInv
<1>2. QED
  BY Invariance, <1>1, PTL

\* Two attempts are at least half an interval apart, the interval the first
\* one left behind: the limiter cannot be outrun by a slow fn.
THEOREM Spacing == Spec => StartsSpacedOut
<1>1. ASSUME Inv, [Next]_vars
      PROVE  [Started /\ retries > 0 => 2 * (start' - start) >= every]_vars
  <2>1. ASSUME Started, retries > 0, Next PROVE 2 * (start' - start) >= every
    <3>1. Attempt
      BY <2>1 DEF Started, Next, GiveUp, WaitRefused, WaitCancelled, Return, Succeed, Fail
    <3>2. start' = now + (every - credit)
      BY <3>1 DEF Attempt, Due
    <3>3. QED
      BY <1>1, <2>1, <3>2 DEF Inv, TypeOK, CreditInv, Started
  <2>2. QED
    BY <1>1, <2>1
<1>2. QED
  BY Invariance, <1>1, PTL DEF Spec, StartsSpacedOut
=============================================================================
