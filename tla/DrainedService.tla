--------------------------- MODULE DrainedService ---------------------------
(***************************************************************************)
(* What a caller of Serve is promised (src/server/server.go), without      *)
(* listeners, goroutines or phases: a service that takes calls while it is *)
(* open, finishes every call it took, and terminates once, with an error,  *)
(* when no call is left.                                                   *)
(***************************************************************************)
CONSTANTS Calls, Outcomes

VARIABLES
  phase,   \* "open", "draining" or "terminated"
  call,    \* state of each call
  outcome  \* what Serve returned

svars == <<phase, call, outcome>>

NoOutcome == "none"

Init ==
  /\ phase = "open"
  /\ call = [c \in Calls |-> "new"]
  /\ outcome = NoOutcome

Accept(c) ==
  /\ phase = "open"
  /\ call[c] = "new"
  /\ call' = [call EXCEPT ![c] = "active"]
  /\ UNCHANGED <<phase, outcome>>

Complete(c) ==
  /\ call[c] = "active"
  /\ call' = [call EXCEPT ![c] = "done"]
  /\ UNCHANGED <<phase, outcome>>

Drain ==
  /\ phase = "open"
  /\ phase' = "draining"
  /\ UNCHANGED <<call, outcome>>

Terminate(o) ==
  /\ phase = "draining"
  /\ \A c \in Calls : call[c] # "active"
  /\ phase' = "terminated"
  /\ outcome' = o
  /\ UNCHANGED call

Next ==
  \/ \E c \in Calls : Accept(c) \/ Complete(c)
  \/ Drain
  \/ \E o \in Outcomes : Terminate(o)

Spec == Init /\ [][Next]_svars
=============================================================================
