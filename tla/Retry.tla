------------------------------- MODULE Retry -------------------------------
(***************************************************************************)
(* RetryWithExponentialBackoff (src/server/util.go): attempts paced by a   *)
(* rate.Limiter of burst one whose rate is halved after every failure.     *)
(*                                                                         *)
(* The limiter is a library; it is modelled in whole ticks by the calls    *)
(* the code makes.  Its tokens accrue at 1/every per tick up to one, so    *)
(* they are kept as the credit, in ticks, out of every.  SetLimit keeps    *)
(* the tokens: doubling every doubles the credit.                          *)
(***************************************************************************)
EXTENDS Integers

CONSTANTS
  MaxRetries,  \* the callers pass 5 (Build) and 10 (SSLManager.Run)
  BaseDelay,   \* ticks; the callers pass ten and two seconds
  Durations,   \* ticks one call of fn may take
  Deadlines    \* ticks after which ctx may be done

ASSUME MaxRetriesAssumption == MaxRetries \in Nat
ASSUME BaseDelayAssumption == BaseDelay \in Nat \ {0}
ASSUME DurationsAssumption == Durations \subseteq Nat
ASSUME DeadlinesAssumption == Deadlines \subseteq Nat

VARIABLES
  pc,        \* "wait" (in limiter.Wait), "call" (in fn), or "returned"
  now,       \* the clock
  ctx,       \* [kind, at]: a context cancelled at a time, with a deadline, or never done
  every,     \* the limiter's interval
  credit,    \* its tokens, in ticks out of every, as of now
  retries,   \* failed attempts
  result,    \* what was returned
  start,     \* when the last attempt started (history)
  pause,     \* the wait before the last attempt (history)
  waited     \* all such waits (history)

history == <<start, pause, waited>>
vars    == <<pc, now, ctx, every, credit, retries, result, history>>

Contexts ==
  [kind : {"background"}, at : {0}] \cup [kind : {"cancel", "deadline"}, at : Deadlines]

DoneBy(t) == ctx.kind # "background" /\ ctx.at <= t

Smaller(a, b) == IF a < b THEN a ELSE b
\* Wrong: the limiter starts without its burst.
InitEmpty ==
  /\ pc = "wait"
  /\ now = 0
  /\ ctx \in Contexts
  /\ every = BaseDelay
  /\ credit = 0
  /\ retries = 0
  /\ result = "none"
  /\ start = 0
  /\ pause = 0
  /\ waited = 0

Init ==
  /\ pc = "wait"
  /\ now = 0
  /\ ctx \in Contexts
  /\ every = BaseDelay
  /\ credit = BaseDelay
  /\ retries = 0
  /\ result = "none"
  /\ start = 0
  /\ pause = 0
  /\ waited = 0

Return(r) == pc' = "returned" /\ result' = r

\* Wrong: one attempt too many.
GiveUpLate ==
  /\ pc = "wait"
  /\ retries > MaxRetries
  /\ Return("allFailed")
  /\ UNCHANGED <<now, ctx, every, credit, retries, history>>

\* The loop ends: every attempt failed, or none was allowed.
GiveUp ==
  /\ pc = "wait"
  /\ retries >= MaxRetries
  /\ Return("allFailed")
  /\ UNCHANGED <<now, ctx, every, credit, retries, history>>

\* When limiter.Wait would let the next attempt start.
Due == now + (every - credit)

\* limiter.Wait fails at once when ctx is done, or when its deadline comes
\* before the wait would be over ...
WaitRefused ==
  /\ pc = "wait"
  /\ retries < MaxRetries
  /\ DoneBy(now) \/ (ctx.kind = "deadline" /\ DoneBy(Due - 1))
  /\ Return("ctxError")
  /\ UNCHANGED <<now, ctx, every, credit, retries, history>>

\* ... and fails when ctx is done during the wait (at its very end, either
\* may be noticed first, and that is all a deadline leaves open).
WaitCancelled ==
  /\ pc = "wait"
  /\ retries < MaxRetries
  /\ ~DoneBy(now) /\ DoneBy(Due)
  /\ ctx.kind = "cancel" \/ ctx.at = Due
  /\ now' = ctx.at
  /\ Return("ctxError")
  /\ UNCHANGED <<ctx, every, credit, retries, history>>

\* Otherwise it takes the token, and the attempt starts.
Attempt ==
  /\ pc = "wait"
  /\ retries < MaxRetries
  /\ ~DoneBy(now) /\ ~DoneBy(Due - 1)
  /\ pc' = "call"
  /\ now' = Due
  /\ start' = Due
  /\ credit' = 0
  /\ pause' = Due - now
  /\ waited' = waited + pause'
  /\ UNCHANGED <<ctx, every, retries, result>>

\* fn succeeds after d ticks; it does not look at ctx.
Succeed(d) ==
  /\ pc = "call"
  /\ now' = now + d
  /\ Return("ok")
  /\ UNCHANGED <<ctx, every, credit, retries, history>>
\* Wrong: tokens are not capped at the burst.
FailUncapped(d) ==
  /\ pc = "call"
  /\ now' = now + d
  /\ retries' = retries + 1
  /\ every' = 2 * every
  /\ credit' = 2 * (credit + d)
  /\ pc' = "wait"
  /\ UNCHANGED <<ctx, result, history>>

\* Wrong: every failure makes a new limiter, with its burst.
FailFresh(d) ==
  /\ pc = "call"
  /\ now' = now + d
  /\ retries' = retries + 1
  /\ every' = 2 * every
  /\ credit' = every'
  /\ pc' = "wait"
  /\ UNCHANGED <<ctx, result, history>>

\* fn fails after d ticks, in which tokens accrued at the old rate; SetLimit
\* brings them up to date and doubles the interval: base * 2^retries.
Fail(d) ==
  /\ pc = "call"
  /\ now' = now + d
  /\ retries' = retries + 1
  /\ every' = 2 * every
  /\ credit' = 2 * Smaller(every, credit + d)
  /\ pc' = "wait"
  /\ UNCHANGED <<ctx, result, history>>

Next ==
  \/ GiveUp \/ WaitRefused \/ WaitCancelled \/ Attempt
  \/ \E d \in Durations : Succeed(d) \/ Fail(d)

Spec == Init /\ [][Next]_vars

\* The caller's goroutine runs, and fn returns.
FairSpec == Spec /\ WF_vars(Next)

-----------------------------------------------------------------------------
\* The type invariant of the retry loop and its limiter.
TypeOK ==
  /\ pc \in {"wait", "call", "returned"}
  /\ now \in Nat
  /\ ctx \in Contexts
  /\ every \in Nat \ {0}
  /\ credit \in 0 .. every
  /\ retries \in 0 .. MaxRetries
  /\ result \in {"none", "ok", "allFailed", "ctxError"}
  /\ start \in Nat
  /\ pause \in Nat /\ waited \in Nat

Started == pc = "wait" /\ pc' = "call"

\* Back-off is kept from start to start: attempt k + 1 starts at least
\* BaseDelay * 2^(k-1) after attempt k did, however much of it fn took.
StartsSpacedOut == [][Started /\ retries > 0 => 2 * (start' - start) >= every]_vars

\* All waits together stay below BaseDelay * 2^(retries + 1), so a caller
\* without a context (Build) knows how long it may be kept.
WaitBounded == waited <= 2 * every - 2 * BaseDelay

\* The loop reports a failure only after MaxRetries failed calls of fn, and a
\* success only from a call it was allowed to make.
OutcomeCounted ==
  /\ result = "allFailed" => retries = MaxRetries
  /\ result = "ok" \/ pc = "call" => retries < MaxRetries

\* Whatever fn and ctx do, the loop ends.
Terminates == <>(pc = "returned")
=============================================================================
