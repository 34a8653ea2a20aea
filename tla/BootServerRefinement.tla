------------------------ MODULE BootServerRefinement ------------------------
(***************************************************************************)
(* BootServer implements DrainedService: the refinement mapping.           *)
(***************************************************************************)
EXTENDS BootServer

\* The service is open until the transports were told to drain, and
\* terminated when Serve has returned.
Phase ==
  IF ServeReturned THEN "terminated"
  ELSE IF grpc \in {"up", "closing"} THEN "open" ELSE "draining"

Service == INSTANCE DrainedService WITH
  Calls    <- Rpcs,
  Outcomes <- Errors,
  phase    <- Phase,
  call     <- rpc,
  outcome  <- IF ServeReturned THEN grpErr ELSE "none"

\* Serve and Shutdown, on whatever listeners, goroutines and providers, do
\* what DrainedService promises: every gRPC call taken is finished, none is
\* taken once draining began, and Serve returns one error, after the last one.
ImplementsService == Service!Spec
=============================================================================
