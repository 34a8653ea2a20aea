----------------------------- MODULE BootServer -----------------------------
(***************************************************************************)
(* Life cycle of the server that Builder.Build returns: src/server/        *)
(* server.go (Serve, Shutdown) with the SSL providers it runs              *)
(* (ssl_provider.go, ssl_manager.go).                                      *)
(*                                                                         *)
(* Serve starts an errgroup of up to three goroutines (gRPC, HTTP, and a   *)
(* Temporal worker), waits for the group's context, then stops the servers *)
(* and joins the group.  Shutdown stops the same servers from any other    *)
(* goroutine.  The manager's challenge server runs in a goroutine of its   *)
(* own, which nobody joins.  grpc.Server, http.Server, errgroup and        *)
(* worker.Worker are libraries, modelled by the calls made to them.        *)
(***************************************************************************)
EXTENDS Naturals, FiniteSets

CONSTANTS
  Rpcs,      \* gRPC calls clients may make, each at most once
  Requests,  \* HTTP requests clients may make, each at most once
  Configs    \* ways the Builder may have configured the server

SSLKinds == {"none", "dirCache", "manager"}

\* sslProvider (nil, DirCache, or CloudCacheProvider / NewSSLManager) and
\* whether a Temporal worker and client were built.
ConfigSpace == [ssl: SSLKinds, temporal: BOOLEAN]

ASSUME ConfigsAssumption == Configs \subseteq ConfigSpace

VARIABLES
  cfg,        \* the configuration, chosen by Build
  cancelled,  \* the context the caller passed to Serve is done
  pc,         \* where each caller (of Serve, of Shutdown) stands
  expired,    \* the deadline of each caller's shutdown context has passed
  job,        \* where each goroutine of the errgroup stands
  ret,        \* what each goroutine returned
  grpErr,     \* the first error of the errgroup; setting it cancels its context
  grpc,       \* state of the grpc.Server
  httpDown,   \* http.Server.Shutdown has been called
  lis,        \* which listeners are open
  chal,       \* where the goroutine of the challenge server stands
  acmeDown,   \* Shutdown of the challenge server has been called
  rpc, req,   \* state of each call
  client      \* the Temporal client

server == <<grpc, httpDown, lis>>
calls  == <<rpc, req>>
acme   == <<chal, acmeDown>>
vars   == <<cfg, cancelled, pc, expired, job, ret, grpErr, server, acme, calls, client>>

Callers   == {"serve", "shutdown"}
Jobs      == {"grpc", "http", "worker"}
Listeners == {"grpc", "http", "acme"}

Sentinels == {"ErrServerClosed", "ErrServerStopped"}
Failures  == {"acceptError", "acmeError", "workerError"}
Errors    == Sentinels \cup Failures

StopPhases == {"grpcClose", "grpcDrain", "grpcWait", "httpClose", "httpWait"}
ServePcs   == {"init", "waiting", "closeClient", "join", "returned", "panicked"} \cup StopPhases
ShutPcs    == {"idle", "returned", "panicked"} \cup StopPhases
JobStates  == {"off", "start", "prefetch", "acmeWait", "acmeStop", "serve", "serving", "done"}

\* A panic of Serve's or Shutdown's goroutine ends the process.
Panicked == \E c \in Callers : pc[c] = "panicked"

\* Wrong: the group's context is done when any goroutine returns.
GroupDoneOnReturn == cancelled \/ \E j \in {"grpc", "http", "worker"} : ret[j] # "none"

\* ctx.Done() of errgroup.WithContext: the parent is done or a goroutine failed.
GroupDone == cancelled \/ grpErr # "nil"

\* The calls in flight; "proxied" is a request the gRPC-Web proxy has handed to
\* grpc.Server.ServeHTTP.
Active(state) == {c \in DOMAIN state : state[c] \in {"active", "proxied"}}

Init ==
  /\ cfg \in Configs
  /\ cancelled = FALSE
  /\ pc = [c \in Callers |-> IF c = "serve" THEN "init" ELSE "idle"]
  /\ expired = [c \in Callers |-> FALSE]
  /\ job = [j \in Jobs |-> "off"]
  /\ ret = [j \in Jobs |-> "none"]
  /\ grpErr = "nil"
  /\ grpc = "up"
  /\ httpDown = FALSE
  /\ lis = [l \in Listeners |-> l # "acme"]
  /\ chal = "off"
  /\ acmeDown = FALSE
  /\ rpc = [r \in Rpcs |-> "new"]
  /\ req = [q \in Requests |-> "new"]
  /\ client = IF cfg.temporal THEN "open" ELSE "none"

-----------------------------------------------------------------------------
(* The errgroup.                                                           *)

\* Goroutine j returns r.  The first error wins and cancels the context.
Finish(j, r) ==
  /\ job' = [job EXCEPT ![j] = "done"]
  /\ ret' = [ret EXCEPT ![j] = r]
  /\ grpErr' = IF grpErr = "nil" THEN r ELSE grpErr

Advance(j, from, to) ==
  /\ job[j] = from
  /\ job' = [job EXCEPT ![j] = to]
  /\ UNCHANGED <<ret, grpErr>>

-----------------------------------------------------------------------------
(* The gRPC goroutine: grpc.Server.Serve(lnGrpc).                          *)

\* Serve registers the listener, unless a stop came first: then it closes it.
GrpcStart ==
  /\ job["grpc"] = "start"
  /\ IF grpc = "up"
       THEN Advance("grpc", "start", "serving") /\ UNCHANGED lis
       ELSE Finish("grpc", "ErrServerStopped") /\ lis' = [lis EXCEPT !["grpc"] = FALSE]
  /\ UNCHANGED <<cfg, cancelled, pc, expired, grpc, httpDown, acme, calls, client>>

\* After a stop Serve returns nil, and only once GracefulStop is through.
GrpcReturn ==
  /\ job["grpc"] = "serving"
  /\ grpc = "stopped"
  /\ Finish("grpc", "nil")
  /\ UNCHANGED <<cfg, cancelled, pc, expired, server, acme, calls, client>>

\* Accept fails for good.  Calls on open connections go on.
GrpcAcceptError ==
  /\ job["grpc"] = "serving"
  /\ grpc = "up"
  /\ Finish("grpc", "acceptError")
  /\ lis' = [lis EXCEPT !["grpc"] = FALSE]
  /\ UNCHANGED <<cfg, cancelled, pc, expired, grpc, httpDown, acme, calls, client>>

-----------------------------------------------------------------------------
(* The HTTP goroutine: sslProvider.Run(ctx), then http.Server.Serve.       *)

HttpFrame == UNCHANGED <<cfg, cancelled, pc, expired, grpc, httpDown, calls, client>>
HttpOnly  == HttpFrame /\ UNCHANGED acme

\* No provider: straight to http.Serve.
HttpNoSSL ==
  /\ cfg.ssl = "none"
  /\ Advance("http", "start", "serve")
  /\ UNCHANGED lis
  /\ HttpOnly

\* dirCache.Run: wait for the context.
DirCacheRun ==
  /\ cfg.ssl = "dirCache"
  /\ GroupDone
  /\ Advance("http", "start", "serve")
  /\ UNCHANGED lis
  /\ HttpOnly

\* SSLManager.Run: listen on port 80 and start a goroutine that serves it ...
AcmeListen ==
  /\ cfg.ssl = "manager"
  /\ Advance("http", "start", "prefetch")
  /\ lis' = [lis EXCEPT !["acme"] = TRUE]
  /\ chal' = "start"
  /\ UNCHANGED acmeDown
  /\ HttpFrame

\* ... which may fail: the error ends the goroutine, unless the context is
\* done already, when it is ignored and the HTTPS server started.
AcmeListenError ==
  /\ cfg.ssl = "manager"
  /\ job["http"] = "start"
  /\ IF GroupDone THEN Advance("http", "start", "serve")
                  ELSE Finish("http", "acmeError")
  /\ UNCHANGED lis
  /\ HttpOnly

\* The certificate prefetch, with its retries, ends; its error is only logged.
AcmePrefetched ==
  /\ Advance("http", "prefetch", "acmeWait")
  /\ UNCHANGED lis
  /\ HttpOnly

\* Wrong: Run returns without shutting the challenge server down.
AcmeLeave ==
  /\ GroupDone
  /\ Advance("http", "acmeWait", "serve")
  /\ UNCHANGED lis
  /\ HttpOnly

\* The context is done: Run calls Shutdown of the challenge server, which
\* closes the listener, if its goroutine has come to track it ...
AcmeClose ==
  /\ GroupDone
  /\ Advance("http", "acmeWait", "acmeStop")
  /\ acmeDown' = TRUE
  /\ lis' = [lis EXCEPT !["acme"] = @ /\ chal # "serving"]
  /\ UNCHANGED chal
  /\ HttpFrame

\* ... and waits for Serve to return, if it was begun, and then five seconds
\* at most for the handlers, which are not modelled.  Run returns nil.
AcmeStopped ==
  /\ Advance("http", "acmeStop", "serve")
  /\ chal # "serving"
  /\ UNCHANGED lis
  /\ HttpOnly

\* http.Serve / ServeTLS tracks the listener, unless Shutdown came first.
HttpStart ==
  /\ job["http"] = "serve"
  /\ IF httpDown
       THEN Finish("http", "ErrServerClosed") /\ lis' = [lis EXCEPT !["http"] = FALSE]
       ELSE Advance("http", "serve", "serving") /\ UNCHANGED lis
  /\ HttpOnly
\* Wrong: ErrServerClosed is taken for success.
HttpReturnNil ==
  /\ job["http"] = "serving"
  /\ httpDown
  /\ Finish("http", "nil")
  /\ UNCHANGED lis
  /\ HttpOnly

HttpReturn ==
  /\ job["http"] = "serving"
  /\ httpDown
  /\ Finish("http", "ErrServerClosed")
  /\ UNCHANGED lis
  /\ HttpOnly

HttpAcceptError ==
  /\ job["http"] = "serving"
  /\ ~httpDown
  /\ Finish("http", "acceptError")
  /\ lis' = [lis EXCEPT !["http"] = FALSE]
  /\ HttpOnly

-----------------------------------------------------------------------------
(* The challenge server's goroutine: httpSrv.Serve(ln), result dropped.    *)

ChallengeOnly ==
  UNCHANGED <<cfg, cancelled, pc, expired, job, ret, grpErr, grpc, httpDown, acmeDown, calls, client>>

\* Serve tracks the listener, unless Shutdown came first: then it closes it.
ChallengeStart ==
  /\ chal = "start"
  /\ chal' = IF acmeDown THEN "done" ELSE "serving"
  /\ lis' = [lis EXCEPT !["acme"] = @ /\ ~acmeDown]
  /\ ChallengeOnly

ChallengeReturn ==
  /\ chal = "serving"
  /\ acmeDown
  /\ chal' = "done"
  /\ UNCHANGED lis
  /\ ChallengeOnly

\* Accept fails for good.  Nobody is told.
ChallengeAcceptError ==
  /\ chal = "serving"
  /\ ~acmeDown
  /\ chal' = "done"
  /\ lis' = [lis EXCEPT !["acme"] = FALSE]
  /\ ChallengeOnly

-----------------------------------------------------------------------------
(* The worker goroutine: worker.Run(worker.InterruptCh()).  It is given no *)
(* context: an interrupt or a fatal error is all that ends it.             *)

WorkerOnly == UNCHANGED <<cfg, cancelled, pc, expired, server, acme, calls, client>>

WorkerStart == Advance("worker", "start", "serving") /\ WorkerOnly

WorkerError ==
  /\ job["worker"] \in {"start", "serving"}
  /\ Finish("worker", "workerError")
  /\ WorkerOnly

\* The process receives SIGINT or SIGTERM: the worker stops and returns nil.
Interrupt ==
  /\ job["worker"] = "serving"
  /\ Finish("worker", "nil")
  /\ WorkerOnly

-----------------------------------------------------------------------------
(* Stopping the servers, by Serve and by Shutdown alike.                   *)

Goto(c, from, to) == pc[c] = from /\ pc' = [pc EXCEPT ![c] = to]

StopOnly == UNCHANGED <<cfg, cancelled, expired, job, ret, grpErr, acme, calls, client>>

\* GracefulStop closes the listeners Serve registered; the server accepts
\* no other from here on.
GrpcClose(c) ==
  /\ Goto(c, "grpcClose", "grpcDrain")
  /\ grpc' = IF grpc = "up" THEN "closing" ELSE grpc
  /\ lis' = [lis EXCEPT !["grpc"] = @ /\ job["grpc"] # "serving"]
  /\ UNCHANGED httpDown
  /\ StopOnly

ProxyBusy == \E q \in Requests : req[q] = "proxied"

\* It tells every connection to take no new call ...
GrpcDrain(c) ==
  /\ Goto(c, "grpcDrain", "grpcWait")
  /\ grpc = "closing" => ~ProxyBusy
  /\ grpc' = IF grpc = "closing" THEN "draining" ELSE grpc
  /\ UNCHANGED <<httpDown, lis>>
  /\ StopOnly
\* ... which the transport of a call under ServeHTTP cannot: Drain panics.
GrpcDrainPanics(c) ==
  /\ Goto(c, "grpcDrain", "panicked")
  /\ grpc = "closing"
  /\ ProxyBusy
  /\ UNCHANGED server
  /\ StopOnly

\* Wrong: Stop instead of GracefulStop, which waits for nobody.
GrpcWaitNot(c) ==
  /\ Goto(c, "grpcWait", "httpClose")
  /\ grpc' = "stopped"
  /\ UNCHANGED <<httpDown, lis>>
  /\ StopOnly

\* ... and waits for the calls in flight, however long they take.
GrpcWait(c) ==
  /\ Goto(c, "grpcWait", "httpClose")
  /\ Active(rpc) = {}
  /\ grpc' = "stopped"
  /\ UNCHANGED <<httpDown, lis>>
  /\ StopOnly

\* http.Server.Shutdown closes the tracked listeners ...
HttpClose(c) ==
  /\ Goto(c, "httpClose", "httpWait")
  /\ httpDown' = TRUE
  /\ lis' = [lis EXCEPT !["http"] = @ /\ job["http"] # "serving"]
  /\ UNCHANGED grpc
  /\ StopOnly
\* Wrong: Shutdown goes on to close the client, as Serve does.
HttpWaitClose(c) ==
  /\ Goto(c, "httpWait", "closeClient")
  /\ job["http"] # "serving"
  /\ Active(req) = {} \/ expired[c]
  /\ UNCHANGED server
  /\ StopOnly

\* Wrong: Close instead of Shutdown, which waits for no request.
HttpWaitNot(c) ==
  /\ Goto(c, "httpWait", IF c = "serve" THEN "closeClient" ELSE "returned")
  /\ job["http"] # "serving"
  /\ UNCHANGED server
  /\ StopOnly

\* ... and waits for http.Serve to return, and then for the requests in
\* flight or the deadline of its context.
HttpWait(c) ==
  /\ Goto(c, "httpWait", IF c = "serve" THEN "closeClient" ELSE "returned")
  /\ job["http"] # "serving"
  /\ Active(req) = {} \/ expired[c]
  /\ UNCHANGED server
  /\ StopOnly

Stop(c) ==
  \/ GrpcClose(c) \/ GrpcDrain(c) \/ GrpcDrainPanics(c) \/ GrpcWait(c)
  \/ HttpClose(c) \/ HttpWait(c)

-----------------------------------------------------------------------------
(* Serve and Shutdown.                                                     *)

\* Serve starts the goroutines.
Launch ==
  /\ Goto("serve", "init", "waiting")
  /\ job' = [j \in Jobs |-> IF j = "worker" /\ ~cfg.temporal THEN "off" ELSE "start"]
  /\ UNCHANGED <<cfg, cancelled, expired, ret, grpErr, server, acme, calls, client>>
\* Wrong: Serve waits for a goroutine's error only.
BeginStopOnError ==
  /\ grpErr # "nil"
  /\ Goto("serve", "waiting", "grpcClose")
  /\ UNCHANGED server
  /\ StopOnly

\* <-ctx.Done(): the five seconds of shutCtx start to run here, before
\* GracefulStop and not after it.
BeginStop ==
  /\ GroupDone
  /\ Goto("serve", "waiting", "grpcClose")
  /\ UNCHANGED server
  /\ StopOnly

CloseClient ==
  /\ Goto("serve", "closeClient", "join")
  /\ client' = IF client = "open" THEN "closed" ELSE client
  /\ UNCHANGED <<cfg, cancelled, expired, job, ret, grpErr, server, acme, calls>>
\* Wrong: Serve returns without grp.Wait.
ReturnUnjoined ==
  /\ Goto("serve", "join", "returned")
  /\ UNCHANGED server
  /\ StopOnly

\* grp.Wait(): every goroutine has returned; Serve returns grpErr.
Return ==
  /\ \A j \in Jobs : job[j] \in {"off", "done"}
  /\ Goto("serve", "join", "returned")
  /\ UNCHANGED server
  /\ StopOnly

\* Another goroutine calls Shutdown, once, at any time.
CallShutdown ==
  /\ Goto("shutdown", "idle", "grpcClose")
  /\ UNCHANGED server
  /\ StopOnly

-----------------------------------------------------------------------------
(* The surroundings: the caller's context, deadlines, and clients.         *)

Cancel ==
  /\ ~cancelled
  /\ cancelled' = TRUE
  /\ UNCHANGED <<cfg, pc, expired, job, ret, grpErr, server, acme, calls, client>>

Expire(c) ==
  /\ pc[c] \in StopPhases
  /\ ~expired[c]
  /\ expired' = [expired EXCEPT ![c] = TRUE]
  /\ UNCHANGED <<cfg, cancelled, pc, job, ret, grpErr, server, acme, calls, client>>

\* A call needs a connection, made while Serve accepted them, that has not
\* been told to drain.
BeginRpc(r) ==
  /\ rpc[r] = "new"
  /\ job["grpc"] = "serving" \/ ret["grpc"] = "acceptError"
  /\ grpc \in {"up", "closing"}
  /\ rpc' = [rpc EXCEPT ![r] = "active"]
  /\ UNCHANGED <<cfg, cancelled, pc, expired, job, ret, grpErr, server, acme, req, client>>

EndRpc(r) ==
  /\ rpc[r] = "active"
  /\ rpc' = [rpc EXCEPT ![r] = "done"]
  /\ UNCHANGED <<cfg, cancelled, pc, expired, job, ret, grpErr, server, acme, req, client>>

BeginRequest(q) ==
  /\ req[q] = "new"
  /\ job["http"] = "serving" \/ ret["http"] = "acceptError"
  /\ ~httpDown
  /\ req' = [req EXCEPT ![q] = "active"]
  /\ UNCHANGED <<cfg, cancelled, pc, expired, job, ret, grpErr, server, acme, rpc, client>>

\* The request comes to the gRPC-Web proxy.  A gRPC server that drains or has
\* stopped takes no call of it (while it drains, by a panic that net/http
\* recovers), and the request goes on as any other.
BeginProxied(q) ==
  /\ req[q] = "active"
  /\ grpc \in {"up", "closing"}
  /\ req' = [req EXCEPT ![q] = "proxied"]
  /\ UNCHANGED <<cfg, cancelled, pc, expired, job, ret, grpErr, server, acme, rpc, client>>

EndRequest(q) ==
  /\ req[q] \in {"active", "proxied"}
  /\ req' = [req EXCEPT ![q] = "done"]
  /\ UNCHANGED <<cfg, cancelled, pc, expired, job, ret, grpErr, server, acme, rpc, client>>

-----------------------------------------------------------------------------
ServeSteps == Launch \/ BeginStop \/ Stop("serve") \/ CloseClient \/ Return

GrpcSteps == GrpcStart \/ GrpcReturn

HttpSteps ==
  \/ HttpNoSSL \/ DirCacheRun \/ AcmeListen \/ AcmeListenError
  \/ AcmePrefetched \/ AcmeClose \/ AcmeStopped \/ HttpStart \/ HttpReturn

ChallengeSteps == ChallengeStart \/ ChallengeReturn

Faults == GrpcAcceptError \/ HttpAcceptError \/ WorkerError

Clients ==
  \/ \E r \in Rpcs : BeginRpc(r) \/ EndRpc(r)
  \/ \E q \in Requests : BeginRequest(q) \/ BeginProxied(q) \/ EndRequest(q)

\* Everything the goroutines of the errgroup do.
GroupSteps == GrpcSteps \/ HttpSteps \/ WorkerStart \/ Interrupt \/ Faults

\* Everything the goroutine of the challenge server does.
AcmeSteps == ChallengeSteps \/ ChallengeAcceptError

Next ==
  /\ ~Panicked
  /\ \/ ServeSteps \/ GroupSteps \/ AcmeSteps
     \/ CallShutdown \/ Stop("shutdown")
     \/ Cancel \/ (\E c \in Callers : Expire(c))
     \/ Clients

Spec == Init /\ [][Next]_vars

\* The scheduler runs every goroutine that can go on, and the five seconds of
\* Serve's shutCtx do pass.  Nothing is said of the faults, of signals, of
\* callers and clients, nor of how long a handler or Shutdown's context takes.
SchedulerFairness ==
  /\ WF_vars(~Panicked /\ ServeSteps)
  /\ WF_vars(~Panicked /\ GrpcSteps)
  /\ WF_vars(~Panicked /\ HttpSteps)
  /\ WF_vars(~Panicked /\ ChallengeSteps)
  /\ WF_vars(~Panicked /\ WorkerStart)
  /\ WF_vars(~Panicked /\ Stop("shutdown"))
  /\ WF_vars(~Panicked /\ Expire("serve"))

FairSpec == Spec /\ SchedulerFairness

-----------------------------------------------------------------------------
(* Properties.                                                             *)

\* The type invariant of the server's life cycle.
TypeOK ==
  /\ cfg \in Configs
  /\ cancelled \in BOOLEAN
  /\ pc \in [Callers -> ServePcs \cup ShutPcs]
  /\ pc["serve"] \in ServePcs /\ pc["shutdown"] \in ShutPcs
  /\ expired \in [Callers -> BOOLEAN]
  /\ job \in [Jobs -> JobStates]
  /\ ret \in [Jobs -> {"none", "nil"} \cup Errors]
  /\ grpErr \in {"nil"} \cup Errors
  /\ grpc \in {"up", "closing", "draining", "stopped"}
  /\ httpDown \in BOOLEAN
  /\ lis \in [Listeners -> BOOLEAN]
  /\ chal \in {"off", "start", "serving", "done"}
  /\ acmeDown \in BOOLEAN
  /\ rpc \in [Rpcs -> {"new", "active", "done"}]
  /\ req \in [Requests -> {"new", "active", "proxied", "done"}]
  /\ client \in {"none", "open", "closed"}

ServeReturned == pc["serve"] = "returned"

\* What Serve leaves behind when it returns: no goroutine of the errgroup, no
\* gRPC call, no gRPC listener, no Temporal client, and no challenge server
\* that serves.  Two things may be left.  When the provider's own listener
\* failed, http.Serve was never reached and lnHTTP stays open; and port 80 is
\* open when the goroutine of the challenge server, which nobody joins, has not
\* run yet.
ReturnedIsQuiet ==
  ServeReturned =>
    /\ \A j \in Jobs : job[j] # "off" => job[j] = "done"
    /\ grpc = "stopped" /\ httpDown
    /\ Active(rpc) = {}
    /\ client # "open"
    /\ ~lis["grpc"]
    /\ lis["http"] => ret["http"] = "acmeError"
    /\ chal # "serving"
    /\ lis["acme"] => chal = "start"

\* What the challenge server's goroutine leaves of itself past Serve's return
\* goes away: it finds the server shut down, closes port 80 and ends.
LeftoverEnds == ServeReturned ~> (chal \in {"off", "done"} /\ ~lis["acme"])

\* Serve's result is a goroutine's own error, never nil: http.Serve always
\* returns an error, so even a clean stop is reported as one.
ReturnsAnError == ServeReturned => \E j \in Jobs : grpErr = ret[j] /\ grpErr \in Errors

\* The sentinel errors of a stopped server are the outcome only when the
\* caller asked for the stop; a stop caused by a failure reports that failure
\* and not the ErrServerClosed or ErrServerStopped it provokes elsewhere.
SentinelMeansAsked == grpErr \in Sentinels => cancelled \/ pc["shutdown"] # "idle"

\* Servers are never stopped spontaneously.
StopHasCause ==
  (grpc # "up" \/ httpDown) =>
    \/ cancelled
    \/ pc["shutdown"] # "idle"
    \/ \E j \in Jobs : ret[j] \in Failures

\* The Temporal client is not taken away from a gRPC handler that may be using
\* it, called directly or through the gRPC-Web proxy, and from another HTTP
\* handler only when the five seconds ran out.
ClientOutlivesHandlers ==
  client = "closed" =>
    /\ Active(rpc) = {} /\ grpc = "stopped"
    /\ ~ProxyBusy
    /\ Active(req) # {} => expired["serve"]

\* What may keep Serve from returning for good: a gRPC handler that never
\* returns, a worker nobody interrupts, and the end of the process, when
\* GracefulStop meets a call under ServeHTTP.
Blocked ==
  \/ \E r \in Rpcs : <>[](rpc[r] = "active")
  \/ <>[](job["worker"] = "serving")
  \/ <>Panicked

\* Once the group's context is done, by its parent or by any goroutine's
\* failure, Serve returns unless one of these holds it up.  Another HTTP
\* handler cannot, because of the deadline, nor can an SSL provider.
DoneReturns == <>GroupDone => <>ServeReturned \/ Blocked

\* Without SSL, Shutdown alone makes Serve return: no context is cancelled,
\* it is http.Serve's ErrServerClosed that ends the group.
ShutdownReturns ==
  cfg.ssl = "none" => (<>(pc["shutdown"] = "returned") => <>ServeReturned \/ Blocked)

\* What server.go:40 says: the ACME helper runs concurrently with the HTTPS
\* server, which is therefore reached while the context is not done.
HttpsServed ==
  (job["http"] = "acmeWait") ~> (job["http"] \in {"serving", "done"} \/ GroupDone)

-----------------------------------------------------------------------------
(* The inductive invariant behind the safety properties.                   *)

\* How far a caller got says how far the servers are down.
PhaseInv ==
  \A c \in Callers :
    /\ pc[c] = "grpcDrain" => grpc # "up"
    /\ pc[c] = "grpcWait" => grpc \in {"draining", "stopped"}
    /\ pc[c] \in {"httpClose", "httpWait", "closeClient", "join", "returned"} => grpc = "stopped"
    /\ pc[c] \in {"httpWait", "closeClient", "join", "returned"} => httpDown

DrainInv ==
  /\ grpc = "stopped" => Active(rpc) = {}
  /\ grpc \in {"draining", "stopped"} => ~ProxyBusy

\* Each goroutine's states and results.
JobInv ==
  /\ \A j \in Jobs : job[j] = "done" <=> ret[j] # "none"
  /\ job["grpc"] \in {"off", "start", "serving", "done"}
  /\ job["worker"] \in {"off", "start", "serving", "done"}
  /\ ret["grpc"] \in {"none", "nil", "ErrServerStopped", "acceptError"}
  /\ ret["http"] \in {"none", "ErrServerClosed", "acceptError", "acmeError"}
  /\ ret["worker"] \in {"none", "nil", "workerError"}
  /\ pc["serve"] = "init" => \A j \in Jobs : job[j] = "off"
  /\ pc["serve"] # "init" => job["grpc"] # "off" /\ job["http"] # "off"
  /\ ServeReturned => \A j \in Jobs : job[j] \in {"off", "done"}

\* The errgroup's error is the error of a goroutine.
GroupInv ==
  /\ grpErr = "nil" => \A j \in Jobs : ret[j] \in {"none", "nil"}
  /\ grpErr # "nil" => \E j \in Jobs : ret[j] = grpErr

\* Someone asked for the stop, or something failed.
Cause ==
  \/ cancelled
  \/ pc["shutdown"] # "idle"
  \/ \E j \in Jobs : ret[j] \in Failures

CauseInv ==
  /\ pc["serve"] \notin {"init", "waiting"} => Cause
  /\ grpc # "up" \/ httpDown => Cause
  /\ SentinelMeansAsked

ListenerInv ==
  /\ job["grpc"] = "done" => ~lis["grpc"]
  /\ job["grpc"] = "serving" /\ grpc # "up" => ~lis["grpc"]
  /\ job["http"] = "done" /\ lis["http"] => ret["http"] = "acmeError"
  /\ job["http"] = "serving" /\ httpDown => ~lis["http"]

\* The challenge server against the HTTP goroutine, which starts it and shuts
\* it down.
ChallengeInv ==
  /\ acmeDown => job["http"] \in {"acmeStop", "serve", "serving", "done"}
  /\ chal # "off" => job["http"] \notin {"off", "start"}
  /\ chal # "off" /\ ~acmeDown => job["http"] \in {"prefetch", "acmeWait"}
  /\ chal = "serving" => job["http"] \in {"prefetch", "acmeWait", "acmeStop"}
  /\ lis["acme"] => chal = "start" \/ (chal = "serving" /\ ~acmeDown)

ClientInv ==
  /\ client = "closed" => pc["serve"] \in {"join", "returned"}
  /\ pc["serve"] \in {"join", "returned"} => client # "open"
  /\ pc["serve"] \in {"closeClient", "join", "returned"} =>
       Active(req) = {} \/ expired["serve"]

Inv ==
  /\ TypeOK /\ PhaseInv /\ DrainInv /\ JobInv /\ GroupInv
  /\ CauseInv /\ ListenerInv /\ ChallengeInv /\ ClientInv
=============================================================================
