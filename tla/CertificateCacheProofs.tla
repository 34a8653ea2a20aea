----------------------- MODULE CertificateCacheProofs -----------------------
(***************************************************************************)
(* Safety of the certificate cache for any replicas, hosts and attempts.   *)
(*                                                                         *)
(* WholeInv follows the shared file through a download, ClientInv the lazy *)
(* client, and OriginInv says where every certificate comes from as long   *)
(* as none has expired and no replica ordered after a disturbed read.      *)
(***************************************************************************)
EXTENDS CertificateCache, TLAPS

TriesInv ==
  \A t \in Tasks : t[2] = "manager" /\ pc[t] \notin Ended => tries[t[1]] < MaxAttempts

WholeInv ==
  \A t \in Tasks : ~mixed[t] =>
    /\ pc[t] = "rest" => file[HostOf(t)][1] = want[t]
    /\ pc[t] = "read" => file[HostOf(t)] = <<want[t], want[t]>>

Making == {"making", "half"}
Working == {"create", "request", "write", "rest", "read", "order", "put"}

ClientInv ==
  /\ \A u, v \in Tasks : u[1] = v[1] /\ pc[u] \in Making /\ pc[v] \in Making => u = v
  /\ \A t \in Tasks : pc[t] = "making" => client[t[1]] = "making"
  /\ \A t \in Tasks : pc[t] = "half" => Azure /\ client[t[1]] = "torn"
  /\ \A t \in Tasks : pc[t] \in Working => client[t[1]] = "made" \/ (Azure /\ client[t[1]] = "torn")
  /\ \A r \in Replicas : client[r] = "torn" => \E u \in Tasks : u[1] = r /\ pc[u] = "half"

\* A manager's download carries the bucket's certificate.
Carries(t) == pc[t] \in {"write", "rest", "read"} \/ (pc[t] = "create" /\ ~Azure)

OriginInv ==
  disturbed = {} /\ ~expired =>
    /\ stored = cfg.first
    /\ \A r \in Replicas : has[r] \in {0, cfg.first}
    /\ \A h \in Hosts : file[h][1] \in {0, cfg.first, Foreign}
    /\ \A t \in Tasks : want[t] \in {0, cfg.first, Foreign} /\ pc[t] \notin {"order", "put"}
    /\ \A t \in Tasks : t[2] = "manager" /\ Carries(t) => want[t] = cfg.first /\ cfg.first # 0

------------------------------------------------------------------------------
\* What the assumptions say of a configuration and a task.
LEMMA Shape ==
  ASSUME TypeOK, NEW t \in Tasks
  PROVE  /\ t[1] \in Replicas /\ t = <<t[1], t[2]>>
         /\ t[2] \in {"manager", "app"} \cup Tokens
         /\ HostOf(t) \in Hosts
         /\ cfg.first \in {0, 1}
         /\ cfg.provider \in {"azure", "gcp"}
         /\ Object(t) \in Nat \cup {Foreign}
<1>1. cfg \in ConfigSpace
  BY ConfigsAssumption DEF TypeOK
<1>2. t[1] \in Replicas /\ t = <<t[1], t[2]>> /\ t[2] \in {"manager", "app"} \cup Tokens
  BY ReplicasAssumption, ChallengesAssumption DEF Tasks, Others
<1>3. QED
  BY <1>1, <1>2 DEF ConfigSpace, HostOf, Object, TypeOK

\* An error leaves a task's step and its replica's count in their types.
LEMMA ErrorType ==
  ASSUME TypeOK, TriesInv, NEW t \in Tasks, pc[t] \notin Ended, Error(t)
  PROVE  /\ pc' \in [Tasks -> TaskSteps]
         /\ tries' \in [Replicas -> 0 .. MaxAttempts]
         /\ TriesInv'
<1>1. t[1] \in Replicas /\ t = <<t[1], t[2]>>
  BY Shape
<1>2. t[2] = "manager" => tries[t[1]] \in Nat /\ tries[t[1]] < MaxAttempts
  BY <1>1 DEF TypeOK, TriesInv
<1>3. pc' \in [Tasks -> TaskSteps] /\ tries' \in [Replicas -> 0 .. MaxAttempts]
  BY <1>1, <1>2, MaxAttemptsAssumption DEF Error, Goto, TypeOK, TaskSteps
<1>4. ASSUME NEW u \in Tasks, u[2] = "manager", pc'[u] \notin Ended
      PROVE  tries'[u[1]] < MaxAttempts
  <2>1. u[1] \in Replicas /\ u = <<u[1], u[2]>>
    BY Shape
  <2>2. CASE u = t
    BY <1>2, <1>4, <2>2, MaxAttemptsAssumption DEF Error, Goto, TypeOK, Ended
  <2>3. CASE u # t
    <3>1. pc'[u] = pc[u] /\ tries'[u[1]] = tries[u[1]]
      BY <1>1, <1>4, <2>1, <2>3 DEF Error, Goto, TypeOK
    <3>2. QED
      BY <1>4, <3>1 DEF TriesInv
  <2>4. QED
    BY <2>2, <2>3
<1>5. QED
  BY <1>3, <1>4 DEF TriesInv

LEMMA TypeStep ==
  ASSUME TypeOK, TriesInv, Next
  PROVE  TypeOK' /\ TriesInv'
<1>0. CASE Expire
  BY <1>0 DEF Expire, TypeOK, TriesInv, tasks, history
<1>1. SUFFICES ASSUME NEW t \in Tasks, Steps(t) \/ Faults(t)
               PROVE  TypeOK' /\ TriesInv'
  BY <1>0 DEF Next
<1> USE MaxAttemptsAssumption
<1>2. /\ t[1] \in Replicas /\ t = <<t[1], t[2]>> /\ HostOf(t) \in Hosts
      /\ cfg.first \in {0, 1} /\ Object(t) \in Nat \cup {Foreign}
  BY Shape
<1>3. CASE NoBucket(t)
  <2>1. pc[t] \notin Ended /\ Error(t)
    BY <1>3 DEF NoBucket, Ended
  <2>2. pc' \in [Tasks -> TaskSteps] /\ tries' \in [Replicas -> 0 .. MaxAttempts] /\ TriesInv'
    BY <2>1, ErrorType
  <2>3. QED
    BY <1>3, <2>2 DEF NoBucket, TypeOK, history
<1>4. CASE ClientReady(t)
  BY <1>4 DEF ClientReady, TypeOK, TriesInv, Goto, TaskSteps, Ended, history, Asks, Prepared
<1>5. CASE ClientFailed(t)
  <2>1. pc[t] \notin Ended /\ Error(t)
    BY <1>5 DEF ClientFailed, Ended, Asks
  <2>2. pc' \in [Tasks -> TaskSteps] /\ tries' \in [Replicas -> 0 .. MaxAttempts] /\ TriesInv'
    BY <2>1, ErrorType
  <2>3. QED
    BY <1>5, <2>2 DEF ClientFailed, TypeOK, history
<1>6. CASE MakeClient(t)
  BY <1>6 DEF MakeClient, TypeOK, TriesInv, Goto, TaskSteps, Ended, history, Asks
<1>7. CASE ClientHalfMade(t)
  BY <1>7 DEF ClientHalfMade, TypeOK, TriesInv, Goto, TaskSteps, Ended, history
<1>8. CASE ClientMade(t)
  BY <1>8 DEF ClientMade, TypeOK, TriesInv, Goto, TaskSteps, Ended, history, Prepared
<1>9. CASE Create(t)
  BY <1>9 DEF Create, TypeOK, TriesInv, Goto, TaskSteps, Ended, Touch
<1>10. CASE Request(t)
  BY <1>2, <1>10 DEF Request, TypeOK, TriesInv, Goto, TaskSteps, Ended, history
<1>11. CASE ObjectMissing(t)
  <2>1. pc[t] \notin Ended /\ Error(t)
    BY <1>11 DEF ObjectMissing, Ended
  <2>2. pc' \in [Tasks -> TaskSteps] /\ tries' \in [Replicas -> 0 .. MaxAttempts] /\ TriesInv'
    BY <2>1, ErrorType
  <2>3. QED
    BY <1>11, <2>2 DEF ObjectMissing, TypeOK, history
<1>12. CASE NilClient(t)
  BY <1>12 DEF NilClient, TypeOK, TriesInv, Goto, TaskSteps, Ended, history
<1>13. CASE Write(t)
  BY <1>13 DEF Write, TypeOK, TriesInv, Goto, TaskSteps, Ended, Touch
<1>14. CASE AppReads(t)
  BY <1>14 DEF AppReads, TypeOK, TriesInv, Goto, TaskSteps, history
<1>15. CASE CertificateRead(t)
  BY <1>2, <1>15 DEF CertificateRead, TypeOK, TriesInv, Goto, TaskSteps, Ended, history, Accepted
<1>16. CASE GarbageRead(t)
  BY <1>2, <1>16 DEF GarbageRead, TypeOK, TriesInv, Goto, TaskSteps, Ended
<1>17. CASE Order(t)
  BY <1>2, <1>17 DEF Order, TypeOK, TriesInv, Goto, TaskSteps, Ended, history
<1>18. CASE Put(t)
  BY <1>2, <1>18 DEF Put, TypeOK, TriesInv, Goto, TaskSteps, Ended, history
<1>19. CASE ClientFails(t)
  <2>1. pc[t] \notin Ended /\ Error(t)
    BY <1>19 DEF ClientFails, Ended
  <2>2. pc' \in [Tasks -> TaskSteps] /\ tries' \in [Replicas -> 0 .. MaxAttempts] /\ TriesInv'
    BY <2>1, ErrorType
  <2>3. QED
    BY <1>19, <2>2 DEF ClientFails, TypeOK
<1>20. CASE DownloadFails(t)
  <2>1. pc[t] \notin Ended /\ Error(t)
    BY <1>20 DEF DownloadFails, Ended
  <2>2. pc' \in [Tasks -> TaskSteps] /\ tries' \in [Replicas -> 0 .. MaxAttempts] /\ TriesInv'
    BY <2>1, ErrorType
  <2>3. QED
    BY <1>20, <2>2 DEF DownloadFails, TypeOK
<1>21. CASE OrderFails(t)
  <2>1. pc[t] \notin Ended /\ Error(t)
    BY <1>21 DEF OrderFails, Ended
  <2>2. pc' \in [Tasks -> TaskSteps] /\ tries' \in [Replicas -> 0 .. MaxAttempts] /\ TriesInv'
    BY <2>1, ErrorType
  <2>3. QED
    BY <1>21, <2>2 DEF OrderFails, TypeOK
<1>22. CASE PutFails(t)
  BY <1>22 DEF PutFails, TypeOK, TriesInv, Goto, TaskSteps, Ended
<1>23. CASE TokenAnswered(t)
  BY <1>23 DEF TokenAnswered, TypeOK, TriesInv, Goto, TaskSteps, Ended, history
<1>24. QED
  BY <1>1, <1>3, <1>4, <1>5, <1>6, <1>7, <1>8, <1>9, <1>10, <1>11, <1>12, <1>13, <1>14, <1>15, <1>16, <1>17, <1>18, <1>19, <1>20, <1>21, <1>22, <1>23 DEF Steps, Faults

\* An error ends a task or sends it back to the start, and moves no other.
LEMMA ErrorStep ==
  ASSUME TypeOK, NEW t \in Tasks, Error(t)
  PROVE  /\ pc' = [pc EXCEPT ![t] = pc'[t]]
         /\ pc'[t] \in {"start", "failed"}
BY DEF Error, Goto, TypeOK

LEMMA WholeStep ==
  ASSUME TypeOK, WholeInv, Next
  PROVE  WholeInv'
<1>0. CASE Expire
  BY <1>0 DEF Expire, WholeInv, HostOf, tasks, history
<1>1. SUFFICES ASSUME NEW t \in Tasks, Steps(t) \/ Faults(t)
               PROVE  WholeInv'
  BY <1>0 DEF Next
<1>2. /\ t[1] \in Replicas /\ t = <<t[1], t[2]>> /\ HostOf(t) \in Hosts
      /\ cfg.first \in {0, 1} /\ Object(t) \in Nat \cup {Foreign}
  BY Shape
<1>3. \A u \in Tasks : HostOf(u) \in Hosts
  BY Shape
<1>4. CASE NoBucket(t)
  <2>1. Error(t)
    BY <1>4 DEF NoBucket
  <2>2. pc' = [pc EXCEPT ![t] = pc'[t]] /\ pc'[t] \in {"start", "failed"}
    BY <2>1, ErrorStep
  <2>3. QED
    BY <1>4, <2>2 DEF NoBucket, WholeInv, TypeOK, HostOf, history
<1>5. CASE ClientReady(t)
  BY <1>5 DEF ClientReady, WholeInv, Goto, HostOf, history, Prepared, Usable
<1>6. CASE ClientFailed(t)
  <2>1. Error(t)
    BY <1>6 DEF ClientFailed
  <2>2. pc' = [pc EXCEPT ![t] = pc'[t]] /\ pc'[t] \in {"start", "failed"}
    BY <2>1, ErrorStep
  <2>3. QED
    BY <1>6, <2>2 DEF ClientFailed, WholeInv, TypeOK, HostOf, history
<1>7. CASE MakeClient(t)
  <2>1. pc' = [pc EXCEPT ![t] = "making"] /\ UNCHANGED <<cfg, file, want, mixed>>
    BY <1>7 DEF MakeClient, Goto, history
  <2>2. QED
    BY <2>1 DEF WholeInv, TypeOK, HostOf
<1>8. CASE ClientHalfMade(t)
  BY <1>8 DEF ClientHalfMade, WholeInv, TypeOK, Goto, HostOf, history
<1>9. CASE ClientMade(t)
  BY <1>2, <1>9 DEF ClientMade, WholeInv, Goto, HostOf, history, Prepared
<1>10. CASE Create(t)
  BY <1>3, <1>10 DEF Create, WholeInv, TypeOK, Goto, HostOf, Touch, Holds
<1>11. CASE Request(t)
  BY <1>11 DEF Request, WholeInv, TypeOK, Goto, HostOf, history
<1>12. CASE ObjectMissing(t)
  <2>1. Error(t)
    BY <1>12 DEF ObjectMissing
  <2>2. pc' = [pc EXCEPT ![t] = pc'[t]] /\ pc'[t] \in {"start", "failed"}
    BY <2>1, ErrorStep
  <2>3. QED
    BY <1>12, <2>2 DEF ObjectMissing, WholeInv, TypeOK, HostOf, history
<1>13. CASE NilClient(t)
  BY <1>2, <1>3, <1>13 DEF NilClient, WholeInv, Goto, HostOf, history
<1>14. CASE Write(t)
  BY <1>2, <1>3, <1>14 DEF Write, WholeInv, TypeOK, Goto, HostOf, history, Touch, Holds
<1>15. CASE AppReads(t)
  BY <1>15 DEF AppReads, WholeInv, Goto, HostOf, history
<1>16. CASE CertificateRead(t)
  BY <1>16 DEF CertificateRead, WholeInv, TypeOK, Goto, HostOf, history
<1>17. CASE GarbageRead(t)
  BY <1>2, <1>3, <1>17 DEF GarbageRead, WholeInv, TypeOK, Goto, HostOf, history, Accepted
<1>18. CASE Order(t)
  BY <1>18 DEF Order, WholeInv, TypeOK, Goto, HostOf, history
<1>19. CASE Put(t)
  BY <1>2, <1>19 DEF Put, WholeInv, Goto, HostOf, history
<1>20. CASE ClientFails(t)
  <2>1. Error(t)
    BY <1>20 DEF ClientFails
  <2>2. pc' = [pc EXCEPT ![t] = pc'[t]] /\ pc'[t] \in {"start", "failed"}
    BY <2>1, ErrorStep
  <2>3. QED
    BY <1>20, <2>2 DEF ClientFails, WholeInv, TypeOK, HostOf
<1>21. CASE DownloadFails(t)
  <2>1. Error(t)
    BY <1>21 DEF DownloadFails
  <2>2. pc' = [pc EXCEPT ![t] = pc'[t]] /\ pc'[t] \in {"start", "failed"}
    BY <2>1, ErrorStep
  <2>3. QED
    BY <1>21, <2>2 DEF DownloadFails, WholeInv, TypeOK, HostOf
<1>22. CASE OrderFails(t)
  <2>1. Error(t)
    BY <1>22 DEF OrderFails
  <2>2. pc' = [pc EXCEPT ![t] = pc'[t]] /\ pc'[t] \in {"start", "failed"}
    BY <2>1, ErrorStep
  <2>3. QED
    BY <1>22, <2>2 DEF OrderFails, WholeInv, TypeOK, HostOf
<1>23. CASE PutFails(t)
  BY <1>2, <1>23 DEF PutFails, WholeInv, Goto, HostOf
<1>24. CASE TokenAnswered(t)
  BY <1>24 DEF TokenAnswered, WholeInv, TypeOK, Goto, HostOf, history
<1>25. QED
  BY <1>1, <1>4, <1>5, <1>6, <1>7, <1>8, <1>9, <1>10, <1>11, <1>12, <1>13, <1>14, <1>15, <1>16, <1>17, <1>18, <1>19, <1>20, <1>21, <1>22, <1>23, <1>24 DEF Steps, Faults

LEMMA ClientStep ==
  ASSUME TypeOK, ClientInv, Next
  PROVE  ClientInv'
<1>0. CASE Expire
  BY <1>0 DEF Expire, ClientInv, Azure, tasks
<1>1. SUFFICES ASSUME NEW t \in Tasks, Steps(t) \/ Faults(t)
               PROVE  ClientInv'
  BY <1>0 DEF Next
<1>2. /\ t[1] \in Replicas /\ t = <<t[1], t[2]>> /\ HostOf(t) \in Hosts
      /\ cfg.first \in {0, 1} /\ Object(t) \in Nat \cup {Foreign}
  BY Shape
<1>3. \A u \in Tasks : u[1] \in Replicas
  BY Shape
<1> USE DEF Making, Working
<1>4. CASE NoBucket(t)
  <2>1. Error(t)
    BY <1>4 DEF NoBucket
  <2>2. pc' = [pc EXCEPT ![t] = pc'[t]] /\ pc'[t] \in {"start", "failed"}
    BY <2>1, ErrorStep
  <2>3. QED
    BY <1>4, <2>2 DEF NoBucket, ClientInv, TypeOK, Azure
<1>5. CASE ClientReady(t)
  BY <1>5 DEF ClientReady, ClientInv, Goto, Azure, Asks, Prepared, Usable
<1>6. CASE ClientFailed(t)
  <2>1. Error(t)
    BY <1>6 DEF ClientFailed
  <2>2. pc' = [pc EXCEPT ![t] = pc'[t]] /\ pc'[t] \in {"start", "failed"}
    BY <2>1, ErrorStep
  <2>3. QED
    BY <1>6, <2>2 DEF ClientFailed, ClientInv, TypeOK, Azure
<1>7. CASE MakeClient(t)
  BY <1>3, <1>7 DEF MakeClient, ClientInv, TypeOK, Goto, Azure
<1>8. CASE ClientHalfMade(t)
  BY <1>3, <1>8 DEF ClientHalfMade, ClientInv, TypeOK, Goto, Azure
<1>9. CASE ClientMade(t)
  BY <1>3, <1>9 DEF ClientMade, ClientInv, TypeOK, Goto, Azure, Prepared
<1>10. CASE Create(t)
  BY <1>10 DEF Create, ClientInv, Goto, Azure
<1>11. CASE Request(t)
  BY <1>11 DEF Request, ClientInv, Goto, Azure
<1>12. CASE ObjectMissing(t)
  <2>1. Error(t)
    BY <1>12 DEF ObjectMissing
  <2>2. pc' = [pc EXCEPT ![t] = pc'[t]] /\ pc'[t] \in {"start", "failed"}
    BY <2>1, ErrorStep
  <2>3. QED
    BY <1>12, <2>2 DEF ObjectMissing, ClientInv, TypeOK, Azure
<1>13. CASE NilClient(t)
  BY <1>3, <1>13 DEF NilClient, ClientInv, Goto, Azure
<1>14. CASE Write(t)
  BY <1>14 DEF Write, ClientInv, Goto, Azure
<1>15. CASE AppReads(t)
  BY <1>15 DEF AppReads, ClientInv, Goto, Azure
<1>16. CASE CertificateRead(t)
  BY <1>16 DEF CertificateRead, ClientInv, Goto, Azure
<1>17. CASE GarbageRead(t)
  BY <1>17 DEF GarbageRead, ClientInv, Goto, Azure
<1>18. CASE Order(t)
  BY <1>18 DEF Order, ClientInv, Goto, Azure
<1>19. CASE Put(t)
  BY <1>19 DEF Put, ClientInv, Goto, Azure
<1>20. CASE ClientFails(t)
  <2>1. Error(t)
    BY <1>20 DEF ClientFails
  <2>2. pc' = [pc EXCEPT ![t] = pc'[t]] /\ pc'[t] \in {"start", "failed"}
    BY <2>1, ErrorStep
  <2>3. QED
    BY <1>20, <2>2 DEF ClientFails, ClientInv, TypeOK, Azure
<1>21. CASE DownloadFails(t)
  <2>1. Error(t)
    BY <1>21 DEF DownloadFails
  <2>2. pc' = [pc EXCEPT ![t] = pc'[t]] /\ pc'[t] \in {"start", "failed"}
    BY <2>1, ErrorStep
  <2>3. QED
    BY <1>21, <2>2 DEF DownloadFails, ClientInv, TypeOK, Azure
<1>22. CASE OrderFails(t)
  <2>1. Error(t)
    BY <1>22 DEF OrderFails
  <2>2. pc' = [pc EXCEPT ![t] = pc'[t]] /\ pc'[t] \in {"start", "failed"}
    BY <2>1, ErrorStep
  <2>3. QED
    BY <1>22, <2>2 DEF OrderFails, ClientInv, TypeOK, Azure
<1>23. CASE PutFails(t)
  BY <1>23 DEF PutFails, ClientInv, Goto, Azure
<1>24. CASE TokenAnswered(t)
  BY <1>24 DEF TokenAnswered, ClientInv, TypeOK, Goto, Azure
<1>25. QED
  BY <1>1, <1>4, <1>5, <1>6, <1>7, <1>8, <1>9, <1>10, <1>11, <1>12, <1>13, <1>14, <1>15, <1>16, <1>17, <1>18, <1>19, <1>20, <1>21, <1>22, <1>23, <1>24 DEF Steps, Faults

LEMMA OriginStep ==
  ASSUME TypeOK, WholeInv, OriginInv, Next
  PROVE  OriginInv'
<1>0. CASE Expire
  BY <1>0 DEF Expire, OriginInv
<1>1. SUFFICES ASSUME NEW t \in Tasks, Steps(t) \/ Faults(t)
               PROVE  OriginInv'
  BY <1>0 DEF Next
<1>2. /\ t[1] \in Replicas /\ t = <<t[1], t[2]>> /\ HostOf(t) \in Hosts
      /\ cfg.first \in {0, 1} /\ Object(t) \in Nat \cup {Foreign}
  BY Shape
<1>3. \A u \in Tasks : u[1] \in Replicas /\ HostOf(u) \in Hosts
  BY Shape
<1> USE ForeignAssumption
<1>4. CASE NoBucket(t)
  <2>1. Error(t)
    BY <1>4 DEF NoBucket
  <2>2. pc' = [pc EXCEPT ![t] = pc'[t]] /\ pc'[t] \in {"start", "failed"}
    BY <2>1, ErrorStep
  <2>3. QED
    BY <1>4, <2>2 DEF NoBucket, OriginInv, TypeOK, history, Azure, Carries
<1>5. CASE ClientReady(t)
  BY <1>5 DEF ClientReady, OriginInv, Goto, history, Azure, Carries, Prepared
<1>6. CASE ClientFailed(t)
  <2>1. Error(t)
    BY <1>6 DEF ClientFailed
  <2>2. pc' = [pc EXCEPT ![t] = pc'[t]] /\ pc'[t] \in {"start", "failed"}
    BY <2>1, ErrorStep
  <2>3. QED
    BY <1>6, <2>2 DEF ClientFailed, OriginInv, TypeOK, history, Azure, Carries
<1>7. CASE MakeClient(t)
  BY <1>7 DEF MakeClient, OriginInv, Goto, history, Azure, Carries
<1>8. CASE ClientHalfMade(t)
  BY <1>8 DEF ClientHalfMade, OriginInv, Goto, history, Azure, Carries
<1>9. CASE ClientMade(t)
  BY <1>9 DEF ClientMade, OriginInv, Goto, history, Azure, Carries, Prepared
<1>10. CASE Create(t)
  BY <1>10 DEF Create, OriginInv, Goto, Azure, Carries, Touch
<1>11. CASE Request(t)
  BY <1>11 DEF Request, OriginInv, TypeOK, Goto, history, Azure, Carries, Object
<1>12. CASE ObjectMissing(t)
  <2>1. Error(t)
    BY <1>12 DEF ObjectMissing
  <2>2. pc' = [pc EXCEPT ![t] = pc'[t]] /\ pc'[t] \in {"start", "failed"}
    BY <2>1, ErrorStep
  <2>3. QED
    BY <1>12, <2>2 DEF ObjectMissing, OriginInv, TypeOK, history, Azure, Carries
<1>13. CASE NilClient(t)
  BY <1>13 DEF NilClient, OriginInv, Goto, history, Azure, Carries
<1>14. CASE Write(t)
  <2>1. SUFFICES ASSUME disturbed' = {}, ~expired'
                 PROVE  OriginInv'
    BY DEF OriginInv
  <2>2. disturbed = {} /\ ~expired /\ UNCHANGED <<cfg, stored, has, want>>
    BY <1>14, <2>1 DEF Write
  <2>3. \A h \in Hosts : file'[h][1] \in {0, cfg.first, Foreign}
    <3>1. want[t] \in {0, cfg.first, Foreign} /\ file[HostOf(t)][1] \in {0, cfg.first, Foreign}
      BY <1>2, <2>2 DEF OriginInv
    <3>2. PICK parts : /\ parts = <<want[t], file[HostOf(t)][2]>> \/ parts = <<file[HostOf(t)][1], want[t]>>
                       /\ file' = [file EXCEPT ![HostOf(t)] = parts]
      BY <1>14 DEF Write, Touch
    <3>3. parts[1] \in {0, cfg.first, Foreign}
      BY <3>1, <3>2
    <3>4. QED
      BY <2>2, <3>2 DEF OriginInv
  <2>4. \A u \in Tasks : pc'[u] \notin {"order", "put"} /\ (Carries(u)' => Carries(u))
    BY <1>14, <2>2 DEF Write, Goto, Carries, Azure, OriginInv
  <2>5. QED
    BY <2>2, <2>3, <2>4 DEF OriginInv
<1>15. CASE AppReads(t)
  BY <1>15 DEF AppReads, OriginInv, Goto, history, Azure, Carries
<1>16. CASE CertificateRead(t)
  BY <1>2, <1>3, <1>16 DEF CertificateRead, OriginInv, WholeInv, TypeOK, Goto, history, Azure, Carries, HostOf, Accepted
<1>17. CASE GarbageRead(t)
  <2>1. SUFFICES ASSUME disturbed' = {}, ~expired'
                 PROVE  FALSE
    BY DEF OriginInv
  <2>2. disturbed = {} /\ ~expired /\ ~mixed[t] /\ pc[t] = "read" /\ t[2] = "manager"
    BY <1>17, <2>1 DEF GarbageRead
  <2>3. file[HostOf(t)] = <<want[t], want[t]>>
    BY <2>2 DEF WholeInv
  <2>4. want[t] = cfg.first /\ cfg.first # 0
    BY <2>2 DEF OriginInv, Carries
  <2>5. QED
    BY <1>2, <1>17, <2>2, <2>3, <2>4 DEF GarbageRead, Accepted
<1>18. CASE Order(t)
  <2>1. ~(disturbed = {} /\ ~expired) /\ UNCHANGED <<disturbed, expired>>
    BY <1>18 DEF Order, OriginInv, history
  <2>2. QED
    BY <2>1 DEF OriginInv
<1>19. CASE Put(t)
  <2>1. ~(disturbed = {} /\ ~expired) /\ UNCHANGED <<disturbed, expired>>
    BY <1>19 DEF Put, OriginInv, history
  <2>2. QED
    BY <2>1 DEF OriginInv
<1>20. CASE ClientFails(t)
  <2>1. Error(t)
    BY <1>20 DEF ClientFails
  <2>2. pc' = [pc EXCEPT ![t] = pc'[t]] /\ pc'[t] \in {"start", "failed"}
    BY <2>1, ErrorStep
  <2>3. QED
    BY <1>20, <2>2 DEF ClientFails, OriginInv, TypeOK, Azure, Carries
<1>21. CASE DownloadFails(t)
  <2>1. Error(t)
    BY <1>21 DEF DownloadFails
  <2>2. pc' = [pc EXCEPT ![t] = pc'[t]] /\ pc'[t] \in {"start", "failed"}
    BY <2>1, ErrorStep
  <2>3. QED
    BY <1>21, <2>2 DEF DownloadFails, OriginInv, TypeOK, Azure, Carries
<1>22. CASE OrderFails(t)
  <2>1. Error(t)
    BY <1>22 DEF OrderFails
  <2>2. pc' = [pc EXCEPT ![t] = pc'[t]] /\ pc'[t] \in {"start", "failed"}
    BY <2>1, ErrorStep
  <2>3. QED
    BY <1>22 DEF OrderFails, OriginInv
<1>23. CASE PutFails(t)
  BY <1>23 DEF PutFails, OriginInv
<1>24. CASE TokenAnswered(t)
  BY <1>24 DEF TokenAnswered, OriginInv, TypeOK, Goto, history, Azure, Carries
<1>25. QED
  BY <1>1, <1>4, <1>5, <1>6, <1>7, <1>8, <1>9, <1>10, <1>11, <1>12, <1>13, <1>14, <1>15, <1>16, <1>17, <1>18, <1>19, <1>20, <1>21, <1>22, <1>23, <1>24 DEF Steps, Faults

------------------------------------------------------------------------------
IInv ==
  /\ TypeOK /\ TriesInv
  /\ WholeInv
  /\ ClientInv
  /\ OriginInv

LEMMA InitIInv == Init => IInv
<1> SUFFICES ASSUME Init PROVE IInv
  OBVIOUS
<1>1. cfg \in Configs /\ cfg.first \in {0, 1}
  BY ConfigsAssumption DEF Init, ConfigSpace
<1>2. \A t \in Tasks : t[1] \in Replicas
  BY ReplicasAssumption, ChallengesAssumption DEF Tasks, Others
<1>3. TypeOK /\ TriesInv
  <2>1. tries \in [Replicas -> 0 .. MaxAttempts] /\ TriesInv
    BY <1>2, MaxAttemptsAssumption DEF Init, TriesInv
  <2>2. file \in [Hosts -> (Nat \cup {Foreign}) \X (Nat \cup {Foreign})]
    BY DEF Init
  <2>3. stored \in Nat
    BY <1>1 DEF Init
  <2>4. QED
    BY <2>1, <2>3 DEF Init, TypeOK, TaskSteps
<1>4. WholeInv
  BY DEF Init, WholeInv
<1>5. ClientInv
  BY DEF Init, ClientInv, Making, Working
<1>6. OriginInv
  <2>1. \A h \in Hosts : file[h][1] = 0
    BY DEF Init
  <2>2. \A t \in Tasks : want[t] = 0 /\ pc[t] \in {"start", "have"}
    BY DEF Init
  <2>3. stored = cfg.first /\ \A r \in Replicas : has[r] = 0
    BY DEF Init
  <2>4. QED
    BY <2>1, <2>2, <2>3 DEF OriginInv, Carries
<1>7. QED
  BY <1>3, <1>4, <1>5, <1>6 DEF IInv

LEMMA NextIInv == IInv /\ [Next]_vars => IInv'
<1> SUFFICES ASSUME IInv, [Next]_vars PROVE IInv'
  OBVIOUS
<1>1. CASE Next
  BY <1>1, TypeStep, WholeStep, ClientStep, OriginStep DEF IInv
<1>2. CASE UNCHANGED vars
  <2>1. TypeOK' /\ TriesInv'
    BY <1>2 DEF IInv, TypeOK, TriesInv, vars, tasks, history
  <2>2. WholeInv'
    BY <1>2 DEF IInv, WholeInv, HostOf, vars, tasks, history
  <2>3. ClientInv'
    BY <1>2 DEF IInv, ClientInv, Azure, vars, tasks
  <2>4. OriginInv'
    BY <1>2 DEF IInv, OriginInv, Carries, Azure, vars, tasks, history
  <2>5. QED
    BY <2>1, <2>2, <2>3, <2>4 DEF IInv
<1>3. QED
  BY <1>1, <1>2

\* What a download's file holds, and where a certificate came from, is known at
\* every step of every replica.
THEOREM Inductive == Spec => []IInv
<1>1. Init => IInv
  BY InitIInv
<1>2. IInv /\ [Next]_vars => IInv'
  BY NextIInv
<1>3. QED
  BY <1>1, <1>2, PTL DEF Spec

\* The type invariant of the cache and its users, for any replicas, hosts,
\* clouds and number of attempts.
THEOREM TypeCorrect == Spec => []TypeOK
<1>1. IInv => TypeOK
  BY DEF IInv
<1>2. QED
  BY <1>1, Inductive, PTL

\* Every file a download hands to its caller is whole and the object's,
\* unless another download of that host touched it (DownloadFile, Get).
THEOREM Whole == Spec => []ReadsWhole
<1>1. IInv => ReadsWhole
  BY DEF IInv, WholeInv, ReadsWhole
<1>2. QED
  BY <1>1, Inductive, PTL

\* All replicas serve the bucket's certificate, for any number of them, until it
\* expires or one orders another after a disturbed read (SSLManager.Run, Get,
\* Put).
THEOREM Same == Spec => []SameCertificate
<1>1. IInv => SameCertificate
  BY DEF IInv, OriginInv, SameCertificate
<1>2. QED
  BY <1>1, Inductive, PTL

LEMMA PanicStep ==
  ASSUME TypeOK, ClientInv, [Next]_vars,
         NEW t \in Tasks, pc[t] # "panicked", pc'[t] = "panicked"
  PROVE  Azure /\ \E u \in Tasks \ {t} : u[1] = t[1] /\ pc[u] = "half"
<1>1. NilClient(t)
  <2>1. pc' # pc
    OBVIOUS
  <2>2. PICK u \in Tasks : Steps(u) \/ Faults(u)
    BY <2>1 DEF Next, Expire, vars, tasks
  <2>3. ASSUME Error(u) PROVE FALSE
    BY <2>3, ErrorStep DEF TypeOK
  <2>4. QED
    BY <2>2, <2>3 DEF TypeOK, Goto, Steps, Faults, NoBucket, ClientReady, ClientFailed, MakeClient,
       ClientHalfMade, ClientMade, Create, Request, ObjectMissing, TokenAnswered, NilClient, Write,
       AppReads, CertificateRead, GarbageRead, Order, Put, ClientFails, DownloadFails, OrderFails,
       PutFails, Prepared
<1>2. Azure /\ client[t[1]] = "torn"
  BY <1>1 DEF NilClient, ClientInv, Working
<1>3. QED
  BY <1>1, <1>2, Shape DEF NilClient, ClientInv

\* A nil SDK client is called only with Azure and only while another goroutine
\* of the replica is writing it, whoever the two are (EnsureBlob, EnsureStorage).
THEOREM Race == Spec => PanicNeedsRace
<1>1. IInv /\ [Next]_vars =>
        [\A t \in Tasks : pc[t] # "panicked" /\ pc'[t] = "panicked" =>
           Azure /\ \E u \in Tasks \ {t} : u[1] = t[1] /\ pc[u] = "half"]_vars
  BY PanicStep DEF IInv
<1>2. QED
  BY <1>1, Inductive, PTL DEF Spec, PanicNeedsRace

------------------------------------------------------------------------------
(***************************************************************************)
(* An empty bucket.                                                        *)
(***************************************************************************)
\* A bucket that was empty when the service started stays empty, and no replica
\* ever has a certificate, however often they try and whatever their
\* applications download.
NeverACertificate == cfg.first = 0 => stored = 0 /\ \A r \in Replicas : has[r] = 0

\* No prefetch gets past its request, and nobody else orders.
Unanswered(t) ==
  /\ pc[t] \notin {"order", "put"}
  /\ t[2] = "manager" => /\ pc[t] \notin {"write", "rest", "read", "have"}
                         /\ pc[t] = "create" => Azure

AskingInv == cfg.first = 0 => \A t \in Tasks : Unanswered(t)

LEMMA EmptyInit == Init => NeverACertificate /\ AskingInv
BY ChallengesAssumption DEF Init, NeverACertificate, AskingInv, Unanswered, Others

LEMMA EmptyStep ==
  ASSUME TypeOK, NeverACertificate, AskingInv, [Next]_vars
  PROVE  NeverACertificate' /\ AskingInv'
<1>0. CASE Expire
  BY <1>0 DEF Expire, NeverACertificate, AskingInv
<1>1. SUFFICES ASSUME cfg.first = 0, NEW t \in Tasks, Steps(t) \/ Faults(t)
               PROVE  NeverACertificate' /\ AskingInv'
  <2>1. CASE UNCHANGED vars
    BY <2>1 DEF NeverACertificate, AskingInv, Unanswered, Azure, vars, tasks
  <2>2. CASE Next
    <3>1. cfg' = cfg
      BY <2>2 DEF Next, Expire, Steps, Faults, NoBucket, ClientReady, ClientFailed, MakeClient, ClientHalfMade,
         ClientMade, Create, Request, ObjectMissing, TokenAnswered, NilClient, Write, AppReads, CertificateRead,
         GarbageRead, Order, Put, ClientFails, DownloadFails, OrderFails, PutFails
    <3>2. QED
      BY <1>0, <1>1, <2>2, <3>1 DEF Next, NeverACertificate, AskingInv
  <2>3. QED
    BY <2>1, <2>2
<1>2. cfg' = cfg /\ Azure' = Azure
  BY <1>1 DEF Azure, Steps, Faults, NoBucket, ClientReady, ClientFailed, MakeClient, ClientHalfMade,
     ClientMade, Create, Request, ObjectMissing, TokenAnswered, NilClient, Write, AppReads, CertificateRead,
     GarbageRead, Order, Put, ClientFails, DownloadFails, OrderFails, PutFails
<1>3. stored = 0 /\ (\A r \in Replicas : has[r] = 0)
  BY <1>1 DEF NeverACertificate
<1>4. /\ Unanswered(t)
      /\ t \in Challenges => t[2] # "manager"
      /\ t \notin Challenges => t[2] = "manager" \/ t[2] = "app"
  BY <1>1, ChallengesAssumption DEF AskingInv, Tasks, Others
\* Nobody reads, orders or stores a certificate.
<1>5. UNCHANGED <<stored, has>> /\ Unanswered(t)'
  <2>1. CASE NoBucket(t)
    BY <1>2, <1>3, <1>4, <2>1 DEF Unanswered, TypeOK, NoBucket, Error, Goto, history
  <2>2. CASE ClientReady(t)
    BY <1>2, <1>3, <1>4, <2>2 DEF Unanswered, TypeOK, ClientReady, Prepared, Goto, history
  <2>3. CASE ClientFailed(t)
    BY <1>2, <1>3, <1>4, <2>3 DEF Unanswered, TypeOK, ClientFailed, Error, Goto, history
  <2>4. CASE MakeClient(t)
    BY <1>2, <1>3, <1>4, <2>4 DEF Unanswered, TypeOK, MakeClient, Goto, history
  <2>5. CASE ClientHalfMade(t)
    BY <1>2, <1>3, <1>4, <2>5 DEF Unanswered, TypeOK, ClientHalfMade, Goto, history
  <2>6. CASE ClientMade(t)
    BY <1>2, <1>3, <1>4, <2>6 DEF Unanswered, TypeOK, ClientMade, Prepared, Goto, history
  <2>7. CASE Create(t)
    BY <1>2, <1>3, <1>4, <2>7 DEF Unanswered, TypeOK, Create, Goto
  <2>8. CASE Request(t)
    BY <1>2, <1>3, <1>4, <2>8 DEF Unanswered, TypeOK, Request, Object, Goto, history
  <2>9. CASE ObjectMissing(t) \/ TokenAnswered(t) \/ NilClient(t)
    BY <1>2, <1>3, <1>4, <2>9 DEF Unanswered, TypeOK, ObjectMissing, TokenAnswered, NilClient, Error, Goto, history
  <2>10. CASE Write(t)
    BY <1>2, <1>3, <1>4, <2>10 DEF Unanswered, TypeOK, Write, Goto
  <2>11. CASE AppReads(t)
    BY <1>2, <1>3, <1>4, <2>11 DEF Unanswered, TypeOK, AppReads, Goto, history
  <2>12. CASE CertificateRead(t) \/ GarbageRead(t) \/ Order(t) \/ Put(t)
    BY <1>2, <1>3, <1>4, <2>12 DEF Unanswered, TypeOK, CertificateRead, GarbageRead, Order, Put
  <2>13. CASE ClientFails(t) \/ DownloadFails(t)
    BY <1>2, <1>3, <1>4, <2>13 DEF Unanswered, TypeOK, ClientFails, DownloadFails, Error, Goto
  <2>14. CASE OrderFails(t) \/ PutFails(t)
    BY <1>2, <1>3, <1>4, <2>14 DEF Unanswered, TypeOK, OrderFails, PutFails
  <2>15. QED
    BY <1>1, <2>1, <2>2, <2>3, <2>4, <2>5, <2>6, <2>7, <2>8, <2>9, <2>10, <2>11, <2>12, <2>13, <2>14 DEF Steps, Faults
<1>6. ASSUME NEW u \in Tasks, u # t PROVE Unanswered(u)'
  <2>1. pc'[u] = pc[u]
    BY <1>1, <1>6 DEF TypeOK, Goto, Error, Steps, Faults, NoBucket, ClientReady, ClientFailed,
       MakeClient, ClientHalfMade, ClientMade, Create, Request, ObjectMissing, TokenAnswered, NilClient, Write,
       AppReads, CertificateRead, GarbageRead, Order, Put, ClientFails, DownloadFails, OrderFails, PutFails
  <2>2. QED
    BY <1>1, <1>2, <2>1 DEF AskingInv, Unanswered
<1>7. QED
  BY <1>3, <1>5, <1>6 DEF NeverACertificate, AskingInv

\* The first certificate is never obtained, for any number of replicas and
\* attempts and with either cloud: the store's "not found", as Get returns it,
\* is not autocert.ErrCacheMiss, so nothing is ever ordered.
THEOREM NoFirst == Spec => []NeverACertificate
BY Inductive, EmptyInit, EmptyStep, PTL DEF Spec, IInv
=============================================================================
