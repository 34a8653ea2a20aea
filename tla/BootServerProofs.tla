-------------------------- MODULE BootServerProofs --------------------------
(***************************************************************************)
(* The safety properties of BootServer, proved for every set of calls and  *)
(* every set of configurations, and its refinement of DrainedService.      *)
(***************************************************************************)
EXTENDS BootServerRefinement, TLAPS

\* Goroutines touch neither the callers nor the servers' states nor the calls.
LEMMA GroupFrame ==
  GroupSteps => UNCHANGED <<cfg, cancelled, pc, expired, grpc, httpDown, rpc, req, client>>
  BY DEF GroupSteps, GrpcSteps, HttpSteps, Faults, GrpcStart, GrpcReturn, GrpcAcceptError,
     HttpNoSSL, DirCacheRun, AcmeListen, AcmeListenError, AcmePrefetched, AcmeClose, AcmeStopped,
     HttpStart, HttpReturn, HttpAcceptError, WorkerStart, WorkerError, Interrupt,
     HttpOnly, HttpFrame, WorkerOnly, server, acme, calls, acme

\* The challenge server's goroutine touches nothing but itself and its listener.
LEMMA AcmeFrame ==
  AcmeSteps => /\ UNCHANGED <<cfg, cancelled, pc, expired, job, ret, grpErr, grpc, httpDown>>
               /\ UNCHANGED <<acmeDown, rpc, req, client>>
               /\ TypeOK => lis' \in [Listeners -> BOOLEAN] /\ \A l \in {"grpc", "http"} : lis'[l] = lis[l]
  BY DEF AcmeSteps, ChallengeSteps, ChallengeStart, ChallengeReturn, ChallengeAcceptError,
     ChallengeOnly, calls, TypeOK, Listeners

\* Stopping the servers touches no goroutine, no call and no context.
LEMMA StopFrame ==
  ASSUME NEW c \in Callers, Stop(c)
  PROVE  UNCHANGED <<cfg, cancelled, expired, job, ret, grpErr, chal, acmeDown, rpc, req, client>>
  BY DEF Stop, GrpcClose, GrpcDrain, GrpcDrainPanics, GrpcWait, HttpClose, HttpWait, StopOnly, calls, acme

\* Clients touch nothing but their calls.
LEMMA ClientsFrame ==
  Clients => UNCHANGED <<cfg, cancelled, pc, expired, job, ret, grpErr, grpc, httpDown, lis, chal, acmeDown, client>>
  BY DEF Clients, BeginRpc, EndRpc, BeginRequest, BeginProxied, EndRequest, server, acme

\* A returning goroutine keeps the types of the errgroup's variables.
LEMMA FinishType ==
  ASSUME TypeOK, NEW j \in Jobs, NEW r \in {"nil"} \cup Errors, Finish(j, r)
  PROVE  /\ job' \in [Jobs -> JobStates]
         /\ ret' \in [Jobs -> {"none", "nil"} \cup Errors]
         /\ grpErr' \in {"nil"} \cup Errors
  BY DEF TypeOK, Finish, JobStates

\* Every step keeps the types.
LEMMA TypeStep ==
  ASSUME TypeOK, [Next]_vars
  PROVE  TypeOK'
<1> USE DEF TypeOK, Callers, Jobs, Listeners, Sentinels, Failures, Errors,
   StopPhases, ServePcs, ShutPcs, JobStates
<1>1. CASE Launch
  BY <1>1 DEF Launch, Goto, calls, acme, server
<1>2. CASE BeginStop
  BY <1>2 DEF BeginStop, Goto, StopOnly, calls, acme, server
<1>3. CASE CloseClient
  BY <1>3 DEF CloseClient, Goto, calls, acme, server
<1>4. CASE Return
  BY <1>4 DEF Return, Goto, StopOnly, calls, acme, server
<1>5. CASE GrpcSteps
  <2>1. CASE GrpcStart
    <3>1. CASE grpc = "up"
      BY <2>1, <3>1 DEF GrpcStart, Advance, calls, acme
    <3>2. CASE grpc # "up"
      <4>1. Finish("grpc", "ErrServerStopped") /\ lis' = [lis EXCEPT !["grpc"] = FALSE]
        BY <2>1, <3>2 DEF GrpcStart
      <4>2. QED
        BY <2>1, <4>1, FinishType DEF GrpcStart, calls, acme
    <3>3. QED
      BY <3>1, <3>2
  <2>2. CASE GrpcReturn
    BY <2>2 DEF GrpcReturn, Finish, calls, acme, server
  <2>3. QED
    BY <1>5, <2>1, <2>2 DEF GrpcSteps
<1>6. CASE HttpSteps
  <2>1. CASE HttpNoSSL
    BY <2>1 DEF HttpNoSSL, Advance, HttpOnly, HttpFrame, calls, acme
  <2>2. CASE DirCacheRun
    BY <2>2 DEF DirCacheRun, Advance, HttpOnly, HttpFrame, calls, acme
  <2>3. CASE AcmeListen
    BY <2>3 DEF AcmeListen, Advance, HttpOnly, HttpFrame, calls, acme
  <2>4. CASE AcmeListenError
    BY <2>4 DEF AcmeListenError, Advance, Finish, HttpOnly, HttpFrame, calls, acme
  <2>5. CASE AcmePrefetched
    BY <2>5 DEF AcmePrefetched, Advance, HttpOnly, HttpFrame, calls, acme
  <2>6. CASE AcmeClose
    BY <2>6 DEF AcmeClose, Advance, HttpOnly, HttpFrame, calls, acme
  <2>7. CASE HttpStart
    <3>1. CASE httpDown
      <4>1. Finish("http", "ErrServerClosed") /\ lis' = [lis EXCEPT !["http"] = FALSE]
        BY <2>7, <3>1 DEF HttpStart
      <4>2. QED
        BY <2>7, <4>1, FinishType DEF HttpStart, HttpOnly, HttpFrame, calls, acme
    <3>2. CASE ~httpDown
      BY <2>7, <3>2 DEF HttpStart, Advance, HttpOnly, HttpFrame, calls, acme
    <3>3. QED
      BY <3>1, <3>2
  <2>8. CASE HttpReturn
    BY <2>8 DEF HttpReturn, Finish, HttpOnly, HttpFrame, calls, acme
  <2>9. CASE AcmeStopped
    BY <2>9 DEF AcmeStopped, Advance, HttpOnly, HttpFrame, calls, acme
  <2>10. QED
    BY <1>6, <2>9, <2>1, <2>2, <2>3, <2>4, <2>5, <2>6, <2>7, <2>8 DEF HttpSteps
<1>7. CASE WorkerStart
  BY <1>7 DEF WorkerStart, Advance, WorkerOnly, calls, acme, server
<1>8. CASE Interrupt
  BY <1>8 DEF Interrupt, Finish, WorkerOnly, calls, acme, server
<1>9. CASE Faults
  <2>1. CASE GrpcAcceptError
    BY <2>1 DEF GrpcAcceptError, Finish, calls, acme
  <2>2. CASE HttpAcceptError
    BY <2>2 DEF HttpAcceptError, Finish, HttpOnly, HttpFrame, calls, acme
  <2>3. CASE WorkerError
    BY <2>3 DEF WorkerError, Finish, WorkerOnly, calls, acme, server
  <2>4. QED
    BY <1>9, <2>1, <2>2, <2>3 DEF Faults
<1>10. ASSUME NEW c \in Callers, Stop(c) PROVE TypeOK'
  <2>1. CASE GrpcClose(c)
    BY <2>1 DEF GrpcClose, Goto, StopOnly, calls, acme
  <2>2. CASE GrpcDrain(c)
    BY <2>2 DEF GrpcDrain, Goto, StopOnly, calls, acme
  <2>3. CASE GrpcWait(c)
    BY <2>3 DEF GrpcWait, Goto, StopOnly, calls, acme
  <2>4. CASE HttpClose(c)
    BY <2>4 DEF HttpClose, Goto, StopOnly, calls, acme
  <2>5. CASE HttpWait(c)
    BY <2>5 DEF HttpWait, Goto, StopOnly, calls, acme, server
  <2>6. CASE GrpcDrainPanics(c)
    BY <2>6 DEF GrpcDrainPanics, Goto, StopOnly, calls, acme, server
  <2>7. QED
    BY <1>10, <2>1, <2>2, <2>3, <2>4, <2>5, <2>6 DEF Stop
<1>11. CASE CallShutdown
  BY <1>11 DEF CallShutdown, Goto, StopOnly, calls, acme, server
<1>12. CASE Cancel
  BY <1>12 DEF Cancel, calls, acme, server
<1>13. ASSUME NEW c \in Callers, Expire(c) PROVE TypeOK'
  BY <1>13 DEF Expire, calls, acme, server
<1>14. CASE Clients
  BY <1>14 DEF Clients, BeginRpc, EndRpc, BeginRequest, BeginProxied, EndRequest, server, acme
<1>15. CASE UNCHANGED vars
  BY <1>15 DEF vars, server, acme, calls, acme
<1>16. CASE AcmeSteps
  BY <1>16, AcmeFrame DEF AcmeSteps, ChallengeSteps, ChallengeStart, ChallengeReturn, ChallengeAcceptError
<1>17. QED
  BY <1>1, <1>2, <1>3, <1>4, <1>5, <1>6, <1>7, <1>8, <1>9, <1>10, <1>11,
     <1>12, <1>13, <1>14, <1>15, <1>16 DEF Next, ServeSteps, Callers, GroupSteps

\* Every step keeps the callers' phases and the servers' states in agreement.
LEMMA PhaseStep ==
  ASSUME TypeOK, PhaseInv, JobInv, [Next]_vars
  PROVE  PhaseInv'
<1> USE DEF TypeOK, PhaseInv, Callers, Jobs, Listeners, Sentinels, Failures,
   Errors, StopPhases, ServePcs, ShutPcs, JobStates
<1>1. CASE Launch
  BY <1>1 DEF Launch, Goto, calls, acme, server
<1>2. CASE BeginStop
  BY <1>2 DEF BeginStop, Goto, StopOnly, calls, acme, server
<1>3. CASE CloseClient
  BY <1>3 DEF CloseClient, Goto, calls, acme, server
<1>4. CASE Return
  BY <1>4 DEF Return, Goto, StopOnly, calls, acme, server
<1>5. CASE GroupSteps
  BY <1>5, GroupFrame
<1>6. ASSUME NEW c \in Callers, GrpcClose(c) PROVE PhaseInv'
  BY <1>6 DEF GrpcClose, Goto, StopOnly, calls, acme
<1>7. ASSUME NEW c \in Callers, GrpcDrain(c) PROVE PhaseInv'
  BY <1>7 DEF GrpcDrain, Goto, StopOnly, calls, acme
<1>8. ASSUME NEW c \in Callers, GrpcWait(c) PROVE PhaseInv'
  BY <1>8 DEF GrpcWait, Goto, StopOnly, calls, acme
<1>9. ASSUME NEW c \in Callers, HttpClose(c) PROVE PhaseInv'
  BY <1>9 DEF HttpClose, Goto, StopOnly, calls, acme
<1>10. ASSUME NEW c \in Callers, HttpWait(c) PROVE PhaseInv'
  BY <1>10 DEF HttpWait, Goto, StopOnly, calls, acme, server
<1>11. CASE CallShutdown
  BY <1>11 DEF CallShutdown, Goto, StopOnly, calls, acme, server
<1>12. CASE Cancel
  BY <1>12 DEF Cancel, calls, acme, server
<1>13. ASSUME NEW c \in Callers, Expire(c) PROVE PhaseInv'
  BY <1>13 DEF Expire, calls, acme, server
<1>14. CASE Clients
  BY <1>14, ClientsFrame
<1>15. CASE UNCHANGED vars
  BY <1>15 DEF vars, server, acme, calls, acme
<1>16. CASE AcmeSteps
  BY <1>16, AcmeFrame
<1>17. ASSUME NEW c \in Callers, GrpcDrainPanics(c) PROVE PhaseInv'
  BY <1>17 DEF GrpcDrainPanics, Goto, StopOnly, calls, acme, server
<1>18. QED
  BY <1>1, <1>2, <1>3, <1>4, <1>5, <1>6, <1>7, <1>8, <1>9, <1>10, <1>11,
     <1>12, <1>13, <1>14, <1>15, <1>16, <1>17 DEF Next, ServeSteps, Callers, Stop

\* A stopped gRPC server has no call, and gets none.
LEMMA DrainStep ==
  ASSUME TypeOK, PhaseInv, DrainInv, [Next]_vars
  PROVE  DrainInv'
<1> USE DEF TypeOK, PhaseInv, DrainInv, Active, ProxyBusy, Callers, Jobs, Listeners,
   Sentinels, Failures, Errors, StopPhases, ServePcs, ShutPcs, JobStates
<1>1. CASE Launch
  BY <1>1 DEF Launch, Goto, calls, acme, server
<1>2. CASE BeginStop
  BY <1>2 DEF BeginStop, Goto, StopOnly, calls, acme, server
<1>3. CASE CloseClient
  BY <1>3 DEF CloseClient, Goto, calls, acme, server
<1>4. CASE Return
  BY <1>4 DEF Return, Goto, StopOnly, calls, acme, server
<1>5. CASE GroupSteps
  BY <1>5, GroupFrame
<1>6. ASSUME NEW c \in Callers, GrpcClose(c) PROVE DrainInv'
  BY <1>6 DEF GrpcClose, Goto, StopOnly, calls, acme
<1>7. ASSUME NEW c \in Callers, GrpcDrain(c) PROVE DrainInv'
  BY <1>7 DEF GrpcDrain, Goto, StopOnly, calls, acme
<1>8. ASSUME NEW c \in Callers, GrpcWait(c) PROVE DrainInv'
  BY <1>8 DEF GrpcWait, Goto, StopOnly, calls, acme
<1>9. ASSUME NEW c \in Callers, HttpClose(c) PROVE DrainInv'
  BY <1>9 DEF HttpClose, Goto, StopOnly, calls, acme
<1>10. ASSUME NEW c \in Callers, HttpWait(c) PROVE DrainInv'
  BY <1>10 DEF HttpWait, Goto, StopOnly, calls, acme, server
<1>11. CASE CallShutdown
  BY <1>11 DEF CallShutdown, Goto, StopOnly, calls, acme, server
<1>12. CASE Cancel
  BY <1>12 DEF Cancel, calls, acme, server
<1>13. ASSUME NEW c \in Callers, Expire(c) PROVE DrainInv'
  BY <1>13 DEF Expire, calls, acme, server
<1>14. CASE Clients
  BY <1>14 DEF Clients, BeginRpc, EndRpc, BeginRequest, BeginProxied, EndRequest, server, acme
<1>15. CASE UNCHANGED vars
  BY <1>15 DEF vars, server, acme, calls, acme
<1>16. CASE AcmeSteps
  BY <1>16, AcmeFrame
<1>17. ASSUME NEW c \in Callers, GrpcDrainPanics(c) PROVE DrainInv'
  BY <1>17 DEF GrpcDrainPanics, Goto, StopOnly, calls, acme, server
<1>18. QED
  BY <1>1, <1>2, <1>3, <1>4, <1>5, <1>6, <1>7, <1>8, <1>9, <1>10, <1>11,
     <1>12, <1>13, <1>14, <1>15, <1>16, <1>17 DEF Next, ServeSteps, Callers, Stop

\* Every step keeps the goroutines' states and results in agreement.
LEMMA JobStep ==
  ASSUME TypeOK, JobInv, [Next]_vars
  PROVE  JobInv'
<1> USE DEF TypeOK, JobInv, ServeReturned, Callers, Jobs, Listeners,
   Sentinels, Failures, Errors, StopPhases, ServePcs, ShutPcs, JobStates
<1>1. CASE Launch
  BY <1>1 DEF Launch, Goto, calls, acme, server
<1>2. CASE BeginStop
  BY <1>2 DEF BeginStop, Goto, StopOnly, calls, acme, server
<1>3. CASE CloseClient
  BY <1>3 DEF CloseClient, Goto, calls, acme, server
<1>4. CASE Return
  BY <1>4 DEF Return, Goto, StopOnly, calls, acme, server
<1>5. CASE GrpcSteps
  BY <1>5 DEF GrpcSteps, GrpcStart, GrpcReturn, Advance, Finish, calls, acme, server
<1>6. CASE HttpSteps
  BY <1>6 DEF HttpSteps, HttpNoSSL, DirCacheRun, AcmeListen, AcmeListenError,
     AcmePrefetched, AcmeClose, AcmeStopped, HttpStart, HttpReturn, Advance, Finish,
     HttpOnly, HttpFrame, calls, acme
<1>7. CASE WorkerStart
  BY <1>7 DEF WorkerStart, Advance, WorkerOnly, calls, acme, server
<1>8. CASE Interrupt
  BY <1>8 DEF Interrupt, Finish, WorkerOnly, calls, acme, server
<1>9. CASE Faults
  BY <1>9 DEF Faults, GrpcAcceptError, HttpAcceptError, WorkerError, Finish,
     HttpOnly, HttpFrame, WorkerOnly, calls, acme, server
<1>10. ASSUME NEW c \in Callers, Stop(c) PROVE JobInv'
  BY <1>10 DEF Stop, GrpcClose, GrpcDrain, GrpcDrainPanics, GrpcWait, HttpClose, HttpWait,
     Goto, StopOnly, calls, acme, server
<1>11. CASE CallShutdown
  BY <1>11 DEF CallShutdown, Goto, StopOnly, calls, acme, server
<1>12. CASE Cancel
  BY <1>12 DEF Cancel, calls, acme, server
<1>13. ASSUME NEW c \in Callers, Expire(c) PROVE JobInv'
  BY <1>13 DEF Expire, calls, acme, server
<1>14. CASE Clients
  BY <1>14, ClientsFrame
<1>15. CASE UNCHANGED vars
  BY <1>15 DEF vars, server, acme, calls, acme
<1>16. CASE AcmeSteps
  BY <1>16, AcmeFrame
<1>17. QED
  BY <1>1, <1>2, <1>3, <1>4, <1>5, <1>6, <1>7, <1>8, <1>9, <1>10, <1>11,
     <1>12, <1>13, <1>14, <1>15, <1>16 DEF Next, ServeSteps, Callers, GroupSteps

\* The errgroup's error stays the error of a goroutine.
LEMMA GroupStep ==
  ASSUME TypeOK, JobInv, GroupInv, [Next]_vars
  PROVE  GroupInv'
<1> USE DEF TypeOK, JobInv, GroupInv, Callers, Jobs, Listeners, Sentinels,
   Failures, Errors, StopPhases, ServePcs, ShutPcs, JobStates
<1>1. CASE Launch
  BY <1>1 DEF Launch, Goto, calls, acme, server
<1>2. CASE BeginStop
  BY <1>2 DEF BeginStop, Goto, StopOnly, calls, acme, server
<1>3. CASE CloseClient
  BY <1>3 DEF CloseClient, Goto, calls, acme, server
<1>4. CASE Return
  BY <1>4 DEF Return, Goto, StopOnly, calls, acme, server
<1>5. CASE GrpcSteps
  BY <1>5 DEF GrpcSteps, GrpcStart, GrpcReturn, Advance, Finish, calls, acme, server
<1>6. CASE HttpSteps
  BY <1>6 DEF HttpSteps, HttpNoSSL, DirCacheRun, AcmeListen, AcmeListenError,
     AcmePrefetched, AcmeClose, AcmeStopped, HttpStart, HttpReturn, Advance, Finish,
     HttpOnly, HttpFrame, calls, acme
<1>7. CASE WorkerStart
  BY <1>7 DEF WorkerStart, Advance, WorkerOnly, calls, acme, server
<1>8. CASE Interrupt
  BY <1>8 DEF Interrupt, Finish, WorkerOnly, calls, acme, server
<1>9. CASE Faults
  BY <1>9 DEF Faults, GrpcAcceptError, HttpAcceptError, WorkerError, Finish,
     HttpOnly, HttpFrame, WorkerOnly, calls, acme, server
<1>10. ASSUME NEW c \in Callers, Stop(c) PROVE GroupInv'
  BY <1>10, StopFrame
<1>11. CASE CallShutdown
  BY <1>11 DEF CallShutdown, Goto, StopOnly, calls, acme, server
<1>12. CASE Cancel
  BY <1>12 DEF Cancel, calls, acme, server
<1>13. ASSUME NEW c \in Callers, Expire(c) PROVE GroupInv'
  BY <1>13 DEF Expire, calls, acme, server
<1>14. CASE Clients
  BY <1>14, ClientsFrame
<1>15. CASE UNCHANGED vars
  BY <1>15 DEF vars, server, acme, calls, acme
<1>16. CASE AcmeSteps
  BY <1>16, AcmeFrame
<1>17. QED
  BY <1>1, <1>2, <1>3, <1>4, <1>5, <1>6, <1>7, <1>8, <1>9, <1>10, <1>11,
     <1>12, <1>13, <1>14, <1>15, <1>16 DEF Next, ServeSteps, Callers, GroupSteps

\* No step stops a server without a cause.
LEMMA CauseStep ==
  ASSUME TypeOK, JobInv, GroupInv, CauseInv, [Next]_vars
  PROVE  CauseInv'
<1> USE DEF TypeOK, JobInv, GroupInv, CauseInv, Cause, SentinelMeansAsked,
   GroupDone, Callers, Jobs, Listeners, Sentinels, Failures, Errors,
   StopPhases, ServePcs, ShutPcs, JobStates
<1>1. CASE Launch
  BY <1>1 DEF Launch, Goto, calls, acme, server
<1>2. CASE BeginStop
  BY <1>2 DEF BeginStop, Goto, StopOnly, calls, acme, server
<1>3. CASE CloseClient
  BY <1>3 DEF CloseClient, Goto, calls, acme, server
<1>4. CASE Return
  BY <1>4 DEF Return, Goto, StopOnly, calls, acme, server
<1>5. CASE GrpcSteps
  BY <1>5 DEF GrpcSteps, GrpcStart, GrpcReturn, Advance, Finish, calls, acme, server
<1>6. CASE HttpSteps
  BY <1>6 DEF HttpSteps, HttpNoSSL, DirCacheRun, AcmeListen, AcmeListenError,
     AcmePrefetched, AcmeClose, AcmeStopped, HttpStart, HttpReturn, Advance, Finish,
     HttpOnly, HttpFrame, calls, acme
<1>7. CASE WorkerStart
  BY <1>7 DEF WorkerStart, Advance, WorkerOnly, calls, acme, server
<1>8. CASE Interrupt
  BY <1>8 DEF Interrupt, Finish, WorkerOnly, calls, acme, server
<1>9. CASE Faults
  BY <1>9 DEF Faults, GrpcAcceptError, HttpAcceptError, WorkerError, Finish,
     HttpOnly, HttpFrame, WorkerOnly, calls, acme, server
<1>10. ASSUME NEW c \in Callers, Stop(c) PROVE CauseInv'
  BY <1>10 DEF Stop, GrpcClose, GrpcDrain, GrpcDrainPanics, GrpcWait, HttpClose, HttpWait,
     Goto, StopOnly, calls, acme, server
<1>11. CASE CallShutdown
  BY <1>11 DEF CallShutdown, Goto, StopOnly, calls, acme, server
<1>12. CASE Cancel
  BY <1>12 DEF Cancel, calls, acme, server
<1>13. ASSUME NEW c \in Callers, Expire(c) PROVE CauseInv'
  BY <1>13 DEF Expire, calls, acme, server
<1>14. CASE Clients
  BY <1>14, ClientsFrame
<1>15. CASE UNCHANGED vars
  BY <1>15 DEF vars, server, acme, calls, acme
<1>16. CASE AcmeSteps
  BY <1>16, AcmeFrame
<1>17. QED
  BY <1>1, <1>2, <1>3, <1>4, <1>5, <1>6, <1>7, <1>8, <1>9, <1>10, <1>11,
     <1>12, <1>13, <1>14, <1>15, <1>16 DEF Next, ServeSteps, Callers, GroupSteps

\* A goroutine that is through leaves no listener open.
LEMMA ListenerStep ==
  ASSUME TypeOK, PhaseInv, JobInv, ListenerInv, [Next]_vars
  PROVE  ListenerInv'
<1> USE DEF TypeOK, PhaseInv, JobInv, ListenerInv, Callers, Jobs, Listeners, Sentinels,
   Failures, Errors, StopPhases, ServePcs, ShutPcs, JobStates
<1>1. CASE Launch
  BY <1>1 DEF Launch, Goto, calls, acme, server
<1>2. CASE BeginStop
  BY <1>2 DEF BeginStop, Goto, StopOnly, calls, acme, server
<1>3. CASE CloseClient
  BY <1>3 DEF CloseClient, Goto, calls, acme, server
<1>4. CASE Return
  BY <1>4 DEF Return, Goto, StopOnly, calls, acme, server
<1>5. CASE GrpcSteps
  BY <1>5 DEF GrpcSteps, GrpcStart, GrpcReturn, Advance, Finish, calls, acme, server
<1>6. CASE HttpSteps
  BY <1>6 DEF HttpSteps, HttpNoSSL, DirCacheRun, AcmeListen, AcmeListenError,
     AcmePrefetched, AcmeClose, AcmeStopped, HttpStart, HttpReturn, Advance, Finish,
     HttpOnly, HttpFrame, calls, acme
<1>7. CASE WorkerStart
  BY <1>7 DEF WorkerStart, Advance, WorkerOnly, calls, acme, server
<1>8. CASE Interrupt
  BY <1>8 DEF Interrupt, Finish, WorkerOnly, calls, acme, server
<1>9. CASE Faults
  BY <1>9 DEF Faults, GrpcAcceptError, HttpAcceptError, WorkerError, Finish,
     HttpOnly, HttpFrame, WorkerOnly, calls, acme, server
<1>10. ASSUME NEW c \in Callers, Stop(c) PROVE ListenerInv'
  <2>1. CASE GrpcClose(c)
    BY <2>1 DEF GrpcClose, Goto, StopOnly, calls, acme
  <2>2. CASE GrpcDrain(c)
    BY <2>2 DEF GrpcDrain, Goto, StopOnly, calls, acme
  <2>3. CASE GrpcWait(c)
    BY <2>3 DEF GrpcWait, Goto, StopOnly, calls, acme
  <2>4. CASE HttpClose(c)
    BY <2>4 DEF HttpClose, Goto, StopOnly, calls, acme
  <2>5. CASE HttpWait(c)
    BY <2>5 DEF HttpWait, Goto, StopOnly, calls, acme, server
  <2>6. CASE GrpcDrainPanics(c)
    BY <2>6 DEF GrpcDrainPanics, Goto, StopOnly, calls, acme, server
  <2>7. QED
    BY <1>10, <2>1, <2>2, <2>3, <2>4, <2>5, <2>6 DEF Stop
<1>11. CASE CallShutdown
  BY <1>11 DEF CallShutdown, Goto, StopOnly, calls, acme, server
<1>12. CASE Cancel
  BY <1>12 DEF Cancel, calls, acme, server
<1>13. ASSUME NEW c \in Callers, Expire(c) PROVE ListenerInv'
  BY <1>13 DEF Expire, calls, acme, server
<1>14. CASE Clients
  BY <1>14, ClientsFrame
<1>15. CASE UNCHANGED vars
  BY <1>15 DEF vars, server, acme, calls, acme
<1>16. CASE AcmeSteps
  BY <1>16, AcmeFrame
<1>17. QED
  BY <1>1, <1>2, <1>3, <1>4, <1>5, <1>6, <1>7, <1>8, <1>9, <1>10, <1>11,
     <1>12, <1>13, <1>14, <1>15, <1>16 DEF Next, ServeSteps, Callers, GroupSteps

\* The challenge server is started and shut down by the HTTP goroutine alone.
LEMMA ChallengeStep ==
  ASSUME TypeOK, JobInv, ChallengeInv, [Next]_vars
  PROVE  ChallengeInv'
<1> USE DEF TypeOK, ChallengeInv, Jobs, Listeners
<1>1. CASE Launch
  <2>1. chal = "off" /\ ~acmeDown /\ ~lis["acme"]
    BY <1>1 DEF Launch, Goto, JobInv
  <2>2. UNCHANGED <<chal, acmeDown, lis>>
    BY <1>1 DEF Launch, server, acme
  <2>3. QED
    BY <2>1, <2>2
<1>2. CASE GrpcSteps \/ GrpcAcceptError \/ WorkerStart \/ Interrupt \/ WorkerError
  BY <1>2 DEF GrpcSteps, GrpcStart, GrpcReturn, GrpcAcceptError, WorkerStart, WorkerError, Interrupt,
     WorkerOnly, Advance, Finish, server, acme
<1>3. CASE HttpSteps \/ HttpAcceptError
  BY <1>3 DEF HttpSteps, HttpNoSSL, DirCacheRun, AcmeListen, AcmeListenError, AcmePrefetched,
     AcmeClose, AcmeStopped, HttpStart, HttpReturn, HttpAcceptError, HttpOnly, Advance, Finish, acme
<1>4. CASE AcmeSteps
  <2>1. UNCHANGED <<job, acmeDown>>
    BY <1>4, AcmeFrame
  <2>2. CASE ChallengeStart
    BY <2>1, <2>2 DEF ChallengeStart
  <2>3. CASE ChallengeReturn
    BY <2>1, <2>3 DEF ChallengeReturn
  <2>4. CASE ChallengeAcceptError
    BY <2>1, <2>4 DEF ChallengeAcceptError
  <2>5. QED
    BY <1>4, <2>2, <2>3, <2>4 DEF AcmeSteps, ChallengeSteps
<1>5. ASSUME NEW c \in Callers, Stop(c) PROVE ChallengeInv'
  <2>1. UNCHANGED <<job, chal, acmeDown, lis["acme"]>>
    BY <1>5, StopFrame DEF Stop, GrpcClose, GrpcDrain, GrpcDrainPanics, GrpcWait, HttpClose, HttpWait,
       server
  <2>2. QED
    BY <2>1
<1>6. CASE BeginStop \/ CloseClient \/ Return \/ CallShutdown \/ Cancel \/ \E c \in Callers : Expire(c)
  BY <1>6 DEF BeginStop, CloseClient, Return, CallShutdown, Cancel, Expire, StopOnly, server, acme
<1>7. CASE Clients \/ UNCHANGED vars
  BY <1>7, ClientsFrame DEF vars, server, acme
<1>8. QED
  BY <1>1, <1>2, <1>3, <1>4, <1>5, <1>6, <1>7 DEF Next, ServeSteps, GroupSteps, Faults, Callers

\* The Temporal client is closed after the servers.
LEMMA ClientStep ==
  ASSUME TypeOK, PhaseInv, JobInv, ClientInv, [Next]_vars
  PROVE  ClientInv'
<1> USE DEF TypeOK, PhaseInv, JobInv, ClientInv, Active, Callers, Jobs,
   Listeners, Sentinels, Failures, Errors, StopPhases, ServePcs, ShutPcs,
   JobStates
<1>1. CASE Launch
  BY <1>1 DEF Launch, Goto, calls, acme, server
<1>2. CASE BeginStop
  BY <1>2 DEF BeginStop, Goto, StopOnly, calls, acme, server
<1>3. CASE CloseClient
  BY <1>3 DEF CloseClient, Goto, calls, acme, server
<1>4. CASE Return
  BY <1>4 DEF Return, Goto, StopOnly, calls, acme, server
<1>5. CASE GroupSteps
  BY <1>5, GroupFrame
<1>6. ASSUME NEW c \in Callers, Stop(c) PROVE ClientInv'
  BY <1>6 DEF Stop, GrpcClose, GrpcDrain, GrpcDrainPanics, GrpcWait, HttpClose, HttpWait, Goto,
     StopOnly, calls, acme, server
<1>7. CASE CallShutdown
  BY <1>7 DEF CallShutdown, Goto, StopOnly, calls, acme, server
<1>8. CASE Cancel
  BY <1>8 DEF Cancel, calls, acme, server
<1>9. ASSUME NEW c \in Callers, Expire(c) PROVE ClientInv'
  BY <1>9 DEF Expire, calls, acme, server
<1>10. CASE Clients
  BY <1>10 DEF Clients, BeginRpc, EndRpc, BeginRequest, BeginProxied, EndRequest, server, acme
<1>11. CASE UNCHANGED vars
  BY <1>11 DEF vars, server, acme, calls, acme
<1>12. CASE AcmeSteps
  BY <1>12, AcmeFrame
<1>13. QED
  BY <1>1, <1>2, <1>3, <1>4, <1>5, <1>6, <1>7, <1>8, <1>9, <1>10, <1>11, <1>12 DEF
     Next, ServeSteps, Callers

-----------------------------------------------------------------------------
LEMMA InitInv == Init => Inv
<1> SUFFICES ASSUME Init PROVE Inv
  OBVIOUS
<1> USE DEF Init, Callers, Jobs, Listeners
<1>1. TypeOK
  BY ConfigsAssumption DEF TypeOK, StopPhases, ServePcs, ShutPcs, JobStates, ConfigSpace
<1>2. PhaseInv /\ DrainInv /\ ClientInv /\ ChallengeInv
  BY DEF PhaseInv, DrainInv, ClientInv, ChallengeInv
<1>3. JobInv /\ GroupInv /\ ListenerInv
  BY DEF JobInv, GroupInv, ListenerInv, ServeReturned
<1>4. CauseInv
  BY DEF CauseInv, SentinelMeansAsked, Sentinels
<1>5. QED
  BY <1>1, <1>2, <1>3, <1>4 DEF Inv

LEMMA NextInv == Inv /\ [Next]_vars => Inv'
  BY TypeStep, PhaseStep, DrainStep, JobStep, GroupStep, CauseStep, ListenerStep,
     ChallengeStep, ClientStep DEF Inv

\* Types, and the conjuncts above, hold of every reachable state.
THEOREM Invariance == Spec => []Inv
  BY InitInv, NextInv, PTL DEF Spec

\* The variables keep their types, whatever the calls and configurations.
THEOREM TypeCorrect == Spec => []TypeOK
<1>1. Inv => TypeOK
  BY DEF Inv
<1>2. QED
  BY Invariance, <1>1, PTL

\* What Serve started is gone when it returns, but for lnHTTP when the SSL
\* provider could not listen, and for port 80 while the challenge server's
\* goroutine has not run: follows from JobInv (the goroutines are joined),
\* PhaseInv and DrainInv (the servers were stopped first), ListenerInv and
\* ChallengeInv (Run shut the challenge server down before it returned).
THEOREM QuietReturn == Spec => []ReturnedIsQuiet
<1>1. Inv => ReturnedIsQuiet
  <2>1. SUFFICES ASSUME Inv, ServeReturned PROVE ReturnedIsQuiet
    BY DEF ReturnedIsQuiet
  <2>2. grpc = "stopped" /\ httpDown /\ Active(rpc) = {}
    BY <2>1 DEF Inv, PhaseInv, DrainInv, ServeReturned, Callers
  <2>3. \A j \in Jobs : job[j] # "off" => job[j] = "done"
    BY <2>1 DEF Inv, JobInv
  <2>4. job["grpc"] = "done" /\ job["http"] = "done"
    BY <2>1, <2>3 DEF Inv, JobInv, ServeReturned, Jobs
  <2>5. client # "open"
    BY <2>1 DEF Inv, ClientInv, ServeReturned
  <2>6. chal # "serving" /\ (lis["acme"] => chal = "start")
    BY <2>1, <2>4 DEF Inv, ChallengeInv
  <2>7. QED
    BY <2>1, <2>2, <2>3, <2>4, <2>5, <2>6 DEF ReturnedIsQuiet, Inv, ListenerInv
<1>2. QED
  BY Invariance, <1>1, PTL

\* Serve returns a goroutine's error and never nil: http.Serve has none.
THEOREM ErrorReturn == Spec => []ReturnsAnError
<1>1. Inv => ReturnsAnError
  <2>1. SUFFICES ASSUME Inv, ServeReturned
                 PROVE  \E j \in Jobs : grpErr = ret[j] /\ grpErr \in Errors
    BY DEF ReturnsAnError
  <2>2. job["http"] = "done"
    BY <2>1 DEF Inv, JobInv, ServeReturned, Jobs
  <2>3. ret["http"] \notin {"none", "nil"}
    BY <2>1, <2>2 DEF Inv, JobInv, Jobs
  <2>4. grpErr # "nil"
    BY <2>1, <2>3 DEF Inv, GroupInv, Jobs
  <2>5. QED
    BY <2>1, <2>4 DEF Inv, GroupInv, TypeOK
<1>2. QED
  BY Invariance, <1>1, PTL

\* A sentinel error is the outcome only of a stop somebody asked for.
THEOREM AskedStop == Spec => []SentinelMeansAsked
<1>1. Inv => SentinelMeansAsked
  BY DEF Inv, CauseInv
<1>2. QED
  BY Invariance, <1>1, PTL

\* No server is stopped without a context, a Shutdown or a failure behind it.
THEOREM CausedStop == Spec => []StopHasCause
<1>1. Inv => StopHasCause
  BY DEF Inv, CauseInv, Cause, StopHasCause
<1>2. QED
  BY Invariance, <1>1, PTL

\* The Temporal client is closed under no gRPC handler, and under an HTTP
\* handler only past the deadline.
THEOREM ClientLast == Spec => []ClientOutlivesHandlers
<1>1. Inv => ClientOutlivesHandlers
  BY DEF Inv, ClientInv, PhaseInv, DrainInv, ClientOutlivesHandlers, Callers
<1>2. QED
  BY Invariance, <1>1, PTL

-----------------------------------------------------------------------------
(* The providers.                                                          *)

\* With an SSL provider, the HTTP goroutine has not come to http.Serve, and no
\* HTTP request has begun, while the group's context is not done.
HttpsWaits ==
  cfg.ssl # "none" /\ ~GroupDone =>
    job["http"] \notin {"acmeStop", "serve", "serving", "done"} /\ \A q \in Requests : req[q] = "new"

\* A context that is done stays so.
LEMMA DoneForGood ==
  ASSUME Inv, [Next]_vars
  PROVE  cfg' = cfg /\ (GroupDone => GroupDone')
<1>1. CASE GroupSteps
  <2>1. cfg' = cfg /\ cancelled' = cancelled
    BY <1>1, GroupFrame
  <2>2. grpErr # "nil" => grpErr' = grpErr
    BY <1>1 DEF GroupSteps, GrpcSteps, HttpSteps, Faults, GrpcStart, GrpcReturn, GrpcAcceptError,
       HttpNoSSL, DirCacheRun, AcmeListen, AcmeListenError, AcmePrefetched, AcmeClose, AcmeStopped, HttpStart,
       HttpReturn, HttpAcceptError, WorkerStart, WorkerError, Interrupt, Advance, Finish
  <2>3. QED
    BY <2>1, <2>2 DEF GroupDone
<1>2. CASE Cancel
  BY <1>2 DEF Cancel, GroupDone
<1>3. CASE ~GroupSteps /\ ~Cancel
  <2>1. UNCHANGED <<cfg, cancelled, grpErr>>
    BY <1>3, StopFrame, ClientsFrame, AcmeFrame DEF Next, ServeSteps, Launch, BeginStop, CloseClient, Return,
       CallShutdown, Expire, StopOnly, vars, Callers
  <2>2. QED
    BY <2>1 DEF GroupDone
<1>4. QED
  BY <1>1, <1>2, <1>3

LEMMA HttpsWaitsStep ==
  ASSUME Inv, HttpsWaits, [Next]_vars
  PROVE  HttpsWaits'
<1> SUFFICES ASSUME cfg'.ssl # "none", ~GroupDone'
             PROVE  /\ job'["http"] \notin {"acmeStop", "serve", "serving", "done"}
                    /\ \A q \in Requests : req'[q] = "new"
  BY DEF HttpsWaits
<1>1. cfg.ssl # "none" /\ ~GroupDone
  BY DoneForGood
<1>2. /\ job["http"] \notin {"acmeStop", "serve", "serving", "done"}
      /\ \A q \in Requests : req[q] = "new"
      /\ job \in [Jobs -> JobStates]
  BY <1>1 DEF HttpsWaits, Inv, TypeOK
<1>3. CASE GroupSteps
  <2>1. req' = req
    BY <1>3, GroupFrame
  <2>2. CASE GrpcSteps \/ GrpcAcceptError \/ WorkerStart \/ Interrupt \/ WorkerError
    BY <1>2, <2>1, <2>2 DEF GrpcSteps, GrpcStart, GrpcReturn, GrpcAcceptError, WorkerStart, WorkerError,
       Interrupt, Advance, Finish, Jobs
  \* The provider's own listener fails: the error ends the group.
  <2>3. CASE AcmeListenError
    <3>1. grpErr' # "nil"
      BY <1>1, <2>3 DEF AcmeListenError, Finish
    <3>2. QED
      BY <3>1 DEF GroupDone
  <2>4. CASE AcmeListen \/ AcmePrefetched
    BY <1>2, <2>1, <2>4 DEF AcmeListen, AcmePrefetched, Advance, Jobs
  <2>5. ~(HttpNoSSL \/ DirCacheRun \/ AcmeClose \/ AcmeStopped \/ HttpStart \/ HttpReturn \/ HttpAcceptError)
    BY <1>1, <1>2 DEF HttpNoSSL, DirCacheRun, AcmeClose, AcmeStopped, HttpStart, HttpReturn, HttpAcceptError, Advance
  <2>6. QED
    BY <1>3, <2>2, <2>3, <2>4, <2>5 DEF GroupSteps, HttpSteps, Faults
<1>4. CASE Launch
  BY <1>2, <1>4 DEF Launch, calls, Jobs
<1>5. CASE Clients
  <2>1. ret["http"] # "acceptError"
    BY <1>2 DEF Inv, JobInv, Jobs
  <2>2. \A q \in Requests : ~BeginRequest(q) /\ ~BeginProxied(q) /\ ~EndRequest(q)
    BY <1>2, <2>1 DEF BeginRequest, BeginProxied, EndRequest
  <2>3. UNCHANGED <<job, req>>
    BY <1>5, <2>2 DEF Clients, BeginRpc, EndRpc
  <2>4. QED
    BY <1>2, <2>3
<1>6. CASE ~GroupSteps /\ ~Launch /\ ~Clients
  <2>1. UNCHANGED <<job, req>>
    BY <1>6, StopFrame, AcmeFrame DEF Next, ServeSteps, BeginStop, CloseClient, Return, CallShutdown, Cancel,
       Expire, StopOnly, calls, vars, Callers
  <2>2. QED
    BY <1>2, <2>1
<1>7. QED
  BY <1>3, <1>4, <1>5, <1>6

\* No HTTPS request is ever served before the service is told to stop, with any
\* provider: Run returns when the context is done, or without listening, and
\* only then does the goroutine go on to http.ServeTLS.
THEOREM HttpsOnlyAtTheEnd == Spec => []HttpsWaits
<1>1. Init => HttpsWaits
  BY DEF Init, HttpsWaits, Jobs
<1>2. QED
  BY <1>1, Invariance, HttpsWaitsStep, PTL DEF Spec

-----------------------------------------------------------------------------
(* The refinement.                                                         *)

Outcome == IF ServeReturned THEN grpErr ELSE "none"

\* The initial states of BootServer map to the one of DrainedService.
LEMMA ServiceInit == Init => Service!Init
  BY DEF Init, Service!Init, Service!NoOutcome, Phase, ServeReturned, Callers

\* A step of the errgroup's goroutines is a stutter: once Serve has returned
\* they are all through, and nothing changes its outcome.
LEMMA GroupStutters ==
  ASSUME Inv, GroupSteps PROVE UNCHANGED <<Phase, rpc, Outcome>>
<1>1. UNCHANGED <<pc, grpc, rpc>>
  BY GroupFrame
<1>2. CASE ServeReturned
  <2>1. \A j \in Jobs : job[j] \in {"off", "done"}
    BY <1>2 DEF Inv, JobInv
  <2>2. QED
    BY <2>1 DEF GroupSteps, GrpcSteps, HttpSteps, Faults, GrpcStart, GrpcReturn,
       GrpcAcceptError, HttpNoSSL, DirCacheRun, AcmeListen, AcmeListenError,
       AcmePrefetched, AcmeClose, AcmeStopped, HttpStart, HttpReturn, HttpAcceptError, WorkerStart,
       WorkerError, Interrupt, Advance, Jobs
<1>3. CASE ~ServeReturned
  BY <1>1, <1>3 DEF Phase, Outcome, ServeReturned
<1>4. QED
  BY <1>2, <1>3

\* Stopping a server drains the service once, or is a stutter.
LEMMA StopRefines ==
  ASSUME Inv, NEW c \in Callers, Stop(c)
  PROVE  Service!Drain \/ UNCHANGED <<Phase, rpc, Outcome>>
<1> USE DEF Inv, TypeOK, PhaseInv, ServeReturned, Callers
<1>1. UNCHANGED <<grpErr, rpc>>
  BY StopFrame
<1>2. ServeReturned <=> ServeReturned'
  BY DEF Stop, GrpcClose, GrpcDrain, GrpcDrainPanics, GrpcWait, HttpClose, HttpWait, Goto
<1>3. UNCHANGED Outcome
  BY <1>1, <1>2 DEF Outcome
<1>4. CASE GrpcDrain(c) /\ grpc = "closing"
  BY <1>1, <1>2, <1>3, <1>4 DEF GrpcDrain, Service!Drain, Phase, Outcome
<1>5. CASE ~(GrpcDrain(c) /\ grpc = "closing")
  <2>1. grpc \in {"up", "closing"} <=> grpc' \in {"up", "closing"}
    <3>1. CASE GrpcClose(c)
      BY <3>1 DEF GrpcClose
    <3>2. CASE GrpcDrain(c)
      BY <1>5, <3>2 DEF GrpcDrain
    <3>3. CASE GrpcWait(c)
      BY <3>3 DEF GrpcWait, Goto
    <3>4. CASE HttpClose(c) \/ HttpWait(c)
      BY <3>4 DEF HttpClose, HttpWait, server
    <3>5. CASE GrpcDrainPanics(c)
      BY <3>5 DEF GrpcDrainPanics, server
    <3>6. QED
      BY <3>1, <3>2, <3>3, <3>4, <3>5 DEF Stop
  <2>2. QED
    BY <1>1, <1>2, <1>3, <2>1 DEF Phase
<1>6. QED
  BY <1>4, <1>5

\* Serve's return terminates the service.
LEMMA ReturnRefines ==
  ASSUME Inv, Return PROVE \E o \in Errors : Service!Terminate(o)
<1>1. grpc = "stopped" /\ Active(rpc) = {}
  BY DEF Inv, PhaseInv, DrainInv, Return, Goto, Callers
<1>2. grpErr \in Errors
  <2>1. job["http"] = "done"
    BY DEF Inv, JobInv, Return, Goto, Jobs
  <2>2. grpErr # "nil"
    BY <2>1 DEF Inv, JobInv, GroupInv, Jobs
  <2>3. QED
    BY <2>2 DEF Inv, TypeOK
<1>3. ~ServeReturned /\ ServeReturned' /\ UNCHANGED <<grpc, grpErr, rpc>>
  BY DEF Return, Goto, ServeReturned, Inv, TypeOK, StopOnly, server, acme, calls, Callers
<1>4. Service!Terminate(grpErr)
  BY <1>1, <1>2, <1>3 DEF Service!Terminate, Phase, Active, Inv, TypeOK
<1>5. QED
  BY <1>2, <1>4

\* Every step of BootServer is a step of DrainedService or a stutter.
LEMMA ServiceNext == Inv /\ [Next]_vars => [Service!Next]_(Service!svars)
<1> SUFFICES ASSUME Inv, [Next]_vars
             PROVE  Service!Next \/ UNCHANGED <<Phase, rpc, Outcome>>
  BY DEF Service!svars, Outcome
<1>1. CASE GroupSteps
  BY <1>1, GroupStutters
<1>2. ASSUME NEW c \in Callers, Stop(c) PROVE Service!Next \/ UNCHANGED <<Phase, rpc, Outcome>>
  BY <1>2, StopRefines DEF Service!Next
<1>3. CASE Return
  BY <1>3, ReturnRefines DEF Service!Next
<1>4. CASE Launch \/ BeginStop \/ CloseClient \/ CallShutdown
  BY <1>4 DEF Launch, BeginStop, CloseClient, CallShutdown, Goto, StopOnly, server, acme, calls,
     Phase, Outcome, ServeReturned, Inv, TypeOK, Callers
<1>5. CASE Cancel \/ \E c \in Callers : Expire(c)
  BY <1>5 DEF Cancel, Expire, server, acme, calls, Phase, Outcome, ServeReturned
<1>6. CASE Clients
  <2>1. UNCHANGED <<Phase, Outcome>>
    BY <1>6, ClientsFrame DEF Phase, Outcome, ServeReturned
  <2>2. grpc \in {"up", "closing"} => Phase = "open"
    BY DEF Phase, Inv, PhaseInv, ServeReturned, Callers
  <2>3. ASSUME NEW r \in Rpcs, BeginRpc(r) PROVE Service!Accept(r)
    BY <2>1, <2>2, <2>3, ClientsFrame DEF BeginRpc, Clients, Service!Accept, Outcome
  <2>4. ASSUME NEW r \in Rpcs, EndRpc(r) PROVE Service!Complete(r)
    BY <2>1, <2>4 DEF EndRpc, Service!Complete, Outcome
  <2>5. ASSUME NEW q \in Requests, BeginRequest(q) \/ BeginProxied(q) \/ EndRequest(q)
        PROVE  UNCHANGED rpc
    BY <2>5 DEF BeginRequest, BeginProxied, EndRequest
  <2>6. QED
    BY <1>6, <2>1, <2>3, <2>4, <2>5 DEF Clients, Service!Next
<1>7. CASE UNCHANGED vars
  BY <1>7 DEF vars, server, acme, calls, Phase, Outcome, ServeReturned
<1>8. CASE AcmeSteps
  BY <1>8, AcmeFrame DEF Phase, Outcome, ServeReturned
<1>9. QED
  BY <1>1, <1>2, <1>3, <1>4, <1>5, <1>6, <1>7, <1>8 DEF Next, ServeSteps, Callers

\* Serve and Shutdown implement DrainedService.
THEOREM Refinement == Spec => ImplementsService
  BY Invariance, ServiceInit, ServiceNext, PTL DEF Spec, ImplementsService, Service!Spec

=============================================================================
