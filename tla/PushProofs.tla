----------------------------- MODULE PushProofs -----------------------------
(***************************************************************************)
(* Proofs about the parts of package push that stand alone: the client     *)
(* (PushClient), the timer (PushTimer), the ring buffer (RingBuffer) and   *)
(* the metrics (Metrics), for every number of calls, every size and every  *)
(* capacity.                                                               *)
(***************************************************************************)
EXTENDS PushClient, PushTimer, RingBuffer, Metrics,
        FunctionTheorems, FiniteSetTheorems, SequenceTheorems, TLAPS

(***************************************************************************)
(* The client, for any sets of jobs, workers and calls.                    *)
(***************************************************************************)

Elts == Jobs \cup {Nil}

-----------------------------------------------------------------------------
(* Counting the nil jobs in a queue.                                       *)

LEMMA PillsFinite ==
  ASSUME NEW q \in Seq(Elts)
  PROVE  IsFiniteSet(PillsIn(q)) /\ Cardinality(PillsIn(q)) \in Nat
<1>1. IsFiniteSet(1 .. Len(q))
  BY FS_Interval
<1>2. PillsIn(q) \in SUBSET (1 .. Len(q))
  BY DEF PillsIn
<1>3. IsFiniteSet(PillsIn(q))
  BY <1>1, <1>2, FS_Subset
<1>. QED
  BY <1>3, FS_CardinalityType

LEMMA PillsAppend ==
  ASSUME NEW q \in Seq(Elts), NEW e \in Elts
  PROVE  Cardinality(PillsIn(Append(q, e))) =
           IF e = Nil THEN Cardinality(PillsIn(q)) + 1 ELSE Cardinality(PillsIn(q))
<1>1. /\ Len(Append(q, e)) = Len(q) + 1 /\ Len(q) \in Nat
      /\ \A k \in 1 .. Len(q) : Append(q, e)[k] = q[k]
      /\ Append(q, e)[Len(q) + 1] = e
  BY AppendProperties, LenProperties
<1>2. CASE e = Nil
  <2>1. PillsIn(Append(q, e)) = PillsIn(q) \cup {Len(q) + 1}
    BY <1>1, <1>2 DEF PillsIn
  <2>2. Len(q) + 1 \notin PillsIn(q)
    BY <1>1 DEF PillsIn
  <2>. QED
    BY <1>2, <2>1, <2>2, PillsFinite, FS_AddElement
<1>3. CASE e # Nil
  <2>1. PillsIn(Append(q, e)) = PillsIn(q)
    BY <1>1, <1>3 DEF PillsIn
  <2>. QED
    BY <1>3, <2>1
<1>. QED
  BY <1>2, <1>3

LEMMA PillsTail ==
  ASSUME NEW q \in Seq(Elts), q # <<>>
  PROVE  Cardinality(PillsIn(Tail(q))) =
           IF Head(q) = Nil THEN Cardinality(PillsIn(q)) - 1
                            ELSE Cardinality(PillsIn(q))
<1>. DEFINE S == PillsIn(Tail(q))
            T == PillsIn(q) \ {1}
            f == [k \in S |-> k + 1]
<1>1. /\ Tail(q) \in Seq(Elts) /\ Len(Tail(q)) = Len(q) - 1 /\ Len(q) \in Nat
      /\ Len(q) >= 1 /\ Head(q) = q[1]
      /\ \A k \in 1 .. Len(q) - 1 : Tail(q)[k] = q[k + 1]
  BY HeadTailProperties, LenProperties, EmptySeq
<1>2. f \in [S -> T]
  BY <1>1 DEF PillsIn
<1>3. \A a, b \in S : f[a] = f[b] => a = b
  BY <1>1 DEF PillsIn
<1>4. \A t \in T : \E s \in S : f[s] = t
  <2>. TAKE t \in T
  <2>1. t - 1 \in S /\ f[t - 1] = t
    BY <1>1 DEF PillsIn
  <2>. QED
    BY <2>1
<1>. HIDE DEF f
<1>5. f \in Bijection(S, T)
  BY <1>2, <1>3, <1>4, Fun_IsBij
<1>6. ExistsBijection(S, T)
  BY <1>5 DEF ExistsBijection
<1>7. Cardinality(T) = Cardinality(S)
  BY <1>1, <1>6, PillsFinite, FS_Bijection
<1>8. Cardinality(T) = IF 1 \in PillsIn(q) THEN Cardinality(PillsIn(q)) - 1
                                           ELSE Cardinality(PillsIn(q))
  BY PillsFinite, FS_RemoveElement
<1>9. 1 \in PillsIn(q) <=> Head(q) = Nil
  BY <1>1 DEF PillsIn
<1>. QED
  BY <1>7, <1>8, <1>9

-----------------------------------------------------------------------------
(* Types.                                                                  *)

LEMMA NewTypeOK == New => TypeOK
<1>. SUFFICES ASSUME New PROVE TypeOK
  OBVIOUS
<1>1. InitWorkers \in Nat \ {0} /\ QueueSize \in Nat
  BY PoolAssumption
<1>2. asyncCh \in Seq(Jobs \cup {Nil}) /\ Len(asyncCh) <= QueueSize
  BY <1>1 DEF New
<1>3. closed \in BOOLEAN /\ running \in BOOLEAN
  BY DEF New
<1>4. wst \in [WorkerIds -> {"off", "starting", "idle", "busy", "exiting", "leaving"}]
  BY DEF New
<1>. QED
  BY <1>1, <1>2, <1>3, <1>4 DEF New, TypeOK

LEMMA SubmitterTypeOK ==
  ASSUME TypeOK, NEW j \in Jobs, Submitter(j)
  PROVE  TypeOK'
<1>. USE DEF TypeOK, resize, pool, checks
<1>1. CASE AsyncPushQueued(j)
  BY <1>1, PoolAssumption DEF AsyncPushQueued
<1>2. CASE AsyncPushFallback(j)
  BY <1>2 DEF AsyncPushFallback
<1>3. CASE AsyncPushPanics(j)
  BY <1>3 DEF AsyncPushPanics
<1>4. CASE \E ok \in BOOLEAN : FallbackDone(j, ok)
  BY <1>4 DEF FallbackDone
<1>. QED
  BY <1>1, <1>2, <1>3, <1>4 DEF Submitter

LEMMA WorkerTypeOK ==
  ASSUME TypeOK, NEW w \in WorkerIds, Worker(w)
  PROVE  TypeOK'
<1>. USE DEF TypeOK, resize, pool, checks
<1>1. CASE WorkerStart(w)
  BY <1>1 DEF WorkerStart
<1>2. CASE WorkerReceive(w)
  <2>1. /\ Head(asyncCh) \in Jobs \cup {Nil} /\ asyncCh' \in Seq(Jobs \cup {Nil})
        /\ Len(asyncCh') <= QueueSize
    BY <1>2, PoolAssumption DEF WorkerReceive
  <2>. QED
    BY <1>2, <2>1 DEF WorkerReceive
<1>3. CASE WorkerSeesClosed(w)
  BY <1>3 DEF WorkerSeesClosed
<1>4. CASE \E ok \in BOOLEAN : WorkerDone(w, ok)
  <2>1. PICK ok \in BOOLEAN : WorkerDone(w, ok)
    BY <1>4
  <2>2. PICK v \in {"ok", "err"} : job' = [job EXCEPT ![wjob[w]] = v]
    BY <2>1, Zenon DEF WorkerDone
  <2>3. processed' \in Nat /\ failed' \in Nat
    BY <2>1 DEF WorkerDone
  <2>4. /\ job' \in [Jobs -> {"new", "queued", "fallback", "panicked", "lost",
                               "ok", "err", "syncOk", "syncErr"}]
        /\ processed' \in Nat /\ failed' \in Nat
    BY <2>2, <2>3
  <2>. QED
    BY <2>1, <2>4 DEF WorkerDone
<1>5. CASE WorkerDeactivate(w)
  BY <1>5 DEF WorkerDeactivate
<1>6. CASE WorkerExit(w)
  BY <1>6 DEF WorkerExit
<1>. QED
  BY <1>1, <1>2, <1>3, <1>4, <1>5, <1>6 DEF Worker

LEMMA ResizerTypeOK ==
  ASSUME TypeOK, Resizer
  PROVE  TypeOK'
<1>. USE DEF TypeOK, resize, pool, checks
<1>1. CASE \E m \in Targets : SetWorkers(m)
  BY <1>1, PoolAssumption DEF SetWorkers
<1>2. CASE SetWorkersSpawn
  BY <1>2 DEF SetWorkersSpawn
<1>3. CASE SetWorkersStop
  BY <1>3, PoolAssumption DEF SetWorkersStop
<1>4. CASE SetWorkersPanics
  BY <1>4 DEF SetWorkersPanics
<1>5. CASE SetWorkersReturns
  BY <1>5 DEF SetWorkersReturns
<1>. QED
  BY <1>1, <1>2, <1>3, <1>4, <1>5 DEF Resizer

LEMMA CheckerTypeOK ==
  ASSUME TypeOK, NEW h \in HealthCheckers, Checker(h)
  PROVE  TypeOK'
<1>. USE DEF TypeOK, resize, pool, checks
<1>1. CASE HealthCheck(h)
  BY <1>1 DEF HealthCheck
<1>2. CASE HealthCheckTakes(h)
  <2>1. /\ Head(asyncCh) \in Jobs \cup {Nil} /\ asyncCh' \in Seq(Jobs \cup {Nil})
        /\ Len(asyncCh') <= QueueSize
    BY <1>2, PoolAssumption DEF HealthCheckTakes
  <2>. QED
    BY <1>2, <2>1 DEF HealthCheckTakes
<1>3. CASE HealthCheckEmpty(h)
  BY <1>3 DEF HealthCheckEmpty
<1>4. CASE HealthCheckPutsBack(h)
  BY <1>4, PoolAssumption DEF HealthCheckPutsBack
<1>5. CASE HealthCheckPanics(h)
  BY <1>5 DEF HealthCheckPanics
<1>. QED
  BY <1>1, <1>2, <1>3, <1>4, <1>5 DEF Checker

LEMMA ClosingTypeOK ==
  ASSUME TypeOK, NEW c \in Closers, Closing(c)
  PROVE  TypeOK'
<1>. USE DEF TypeOK, resize, pool, checks
<1>1. CASE Close(c)
  BY <1>1 DEF Close
<1>2. CASE CloseChannel(c)
  BY <1>2 DEF CloseChannel
<1>3. CASE CloseReturns(c)
  BY <1>3 DEF CloseReturns
<1>. QED
  BY <1>1, <1>2, <1>3 DEF Closing

LEMMA NextTypeOK == TypeOK /\ [Next]_vars => TypeOK'
<1>. SUFFICES ASSUME TypeOK, [Next]_vars PROVE TypeOK'
  OBVIOUS
<1>1. CASE BatchPush
  BY <1>1 DEF BatchPush, TypeOK, resize, pool, checks
<1>2. CASE BatchPushReturns
  BY <1>2 DEF BatchPushReturns, TypeOK, resize, pool, checks
<1>3. CASE UNCHANGED vars
  BY <1>3 DEF vars, TypeOK, resize, pool, checks
<1>. QED
  BY <1>1, <1>2, <1>3, SubmitterTypeOK, WorkerTypeOK, ResizerTypeOK,
     CheckerTypeOK, ClosingTypeOK DEF Next

\* Every variable of the client keeps its type and the channel never holds
\* more than QueueSize elements, for every configuration.
THEOREM TypeCorrect == Spec => []TypeOK
<1>. QED
  BY NewTypeOK, NextTypeOK, PTL DEF Spec

-----------------------------------------------------------------------------
(* No worker is lost or invented.                                          *)

\* The loop of SetWorkers between its bounds: the configured number of
\* workers never drops below one.
LoopInv == /\ setter = "up" => workers <= i /\ i <= n
           /\ setter = "down" => i <= workers - n

PoolInv == TypeOK /\ LoopInv /\ WorkerConservation /\ ClosedQueueServed

LEMMA WorkersFinite ==
  ASSUME NEW S \in SUBSET WorkerIds
  PROVE  IsFiniteSet(S) /\ Cardinality(S) \in Nat
BY PoolAssumption, FS_Subset, FS_CardinalityType

LEMMA ChecksFinite ==
  ASSUME NEW S \in SUBSET HealthCheckers
  PROVE  IsFiniteSet(S) /\ Cardinality(S) \in Nat
BY PoolAssumption, FS_Subset, FS_CardinalityType

\* The counts are natural numbers and at least one worker is configured.
LEMMA Counts ==
  ASSUME TypeOK, LoopInv
  PROVE  /\ Cardinality(Serving) \in Nat
         /\ Cardinality(Pills) \in Nat
         /\ Cardinality(HeldPills) \in Nat
         /\ Configured \in Nat \ {0}
<1>1. Serving \in SUBSET WorkerIds /\ HeldPills \in SUBSET HealthCheckers
  BY DEF Serving, HeldPills
<1>2. asyncCh \in Seq(Elts)
  BY DEF TypeOK, Elts
<1>3. Configured \in Nat \ {0}
  BY DEF TypeOK, LoopInv, Configured
<1>. QED
  BY <1>1, <1>2, <1>3, WorkersFinite, ChecksFinite, PillsFinite DEF Pills

\* Steps that touch neither the channel nor the pool nor a check.
LEMMA PoolFrame ==
  ASSUME PoolInv, TypeOK',
         UNCHANGED <<asyncCh, closed, resize, health, held>>,
         Serving' = Serving
  PROVE  PoolInv'
BY DEF PoolInv, LoopInv, WorkerConservation, ClosedQueueServed, Configured,
       Pills, PillsIn, HeldPills, resize

LEMMA SubmitterPool ==
  ASSUME PoolInv, NEW j \in Jobs, Submitter(j)
  PROVE  PoolInv'
<1>1. TypeOK'
  BY SubmitterTypeOK DEF PoolInv
<1>2. CASE AsyncPushQueued(j)
  <2>1. j \in Elts /\ j # Nil /\ asyncCh \in Seq(Elts)
    BY PoolAssumption DEF Elts, PoolInv, TypeOK
  <2>2. Cardinality(PillsIn(Append(asyncCh, j))) = Cardinality(PillsIn(asyncCh))
    BY <2>1, PillsAppend
  <2>3. Cardinality(Pills') = Cardinality(Pills)
    BY <1>2, <2>2 DEF AsyncPushQueued, Pills, PillsIn
  <2>4. UNCHANGED <<Serving, HeldPills, Configured, resize, closed>> /\ ~closed
    BY <1>2 DEF AsyncPushQueued, Serving, HeldPills, Configured, pool, checks, resize
  <2>. QED
    BY <1>1, <2>3, <2>4 DEF PoolInv, LoopInv, WorkerConservation,
       ClosedQueueServed, resize
<1>3. CASE ~AsyncPushQueued(j)
  <2>1. UNCHANGED <<asyncCh, closed, resize, health, held, wst>>
    BY <1>3 DEF Submitter, AsyncPushFallback, AsyncPushPanics, FallbackDone,
       resize, pool, checks
  <2>2. Serving' = Serving
    BY <2>1 DEF Serving
  <2>. QED
    BY <1>1, <2>1, <2>2, PoolFrame
<1>. QED
  BY <1>2, <1>3

\* A worker that takes a nil job stops serving, and the nil job is gone.
LEMMA WorkerPool ==
  ASSUME PoolInv, NEW w \in WorkerIds, Worker(w)
  PROVE  PoolInv'
<1>1. TypeOK' /\ TypeOK
  BY WorkerTypeOK DEF PoolInv
<1>2. Serving \in SUBSET WorkerIds
  BY DEF Serving
<1>3. CASE WorkerReceive(w)
  <2>1. asyncCh \in Seq(Elts) /\ asyncCh # <<>> /\ asyncCh' = Tail(asyncCh)
    BY <1>1, <1>3 DEF WorkerReceive, TypeOK, Elts
  <2>2. Cardinality(Pills') = IF Head(asyncCh) = Nil THEN Cardinality(Pills) - 1
                                                     ELSE Cardinality(Pills)
    BY <2>1, PillsTail DEF Pills, PillsIn
  <2>3. Serving' = IF Head(asyncCh) = Nil THEN Serving \ {w} ELSE Serving
    BY <1>1, <1>3 DEF WorkerReceive, Serving, TypeOK
  <2>4. w \in Serving
    BY <1>3 DEF WorkerReceive, Serving
  <2>5. Cardinality(Serving') = IF Head(asyncCh) = Nil
                                THEN Cardinality(Serving) - 1
                                ELSE Cardinality(Serving)
    BY <1>2, <2>3, <2>4, WorkersFinite, FS_RemoveElement
  <2>6. UNCHANGED <<HeldPills, Configured, resize, closed>>
    BY <1>3 DEF WorkerReceive, HeldPills, Configured, checks, resize
  <2>7. /\ Cardinality(Serving) \in Nat /\ Cardinality(Pills) \in Nat
        /\ Cardinality(HeldPills) \in Nat /\ Configured \in Nat
    BY Counts DEF PoolInv
  <2>8. WorkerConservation'
    BY <2>2, <2>5, <2>6, <2>7 DEF PoolInv, WorkerConservation
  <2>9. ClosedQueueServed'
    BY <2>1, <2>2, <2>5, <2>6, <2>7 DEF PoolInv, ClosedQueueServed
  <2>. QED
    BY <1>1, <2>6, <2>8, <2>9 DEF PoolInv, LoopInv, resize
<1>4. CASE WorkerSeesClosed(w)
  BY <1>1, <1>4 DEF WorkerSeesClosed, PoolInv, LoopInv, WorkerConservation,
     ClosedQueueServed, resize, checks
<1>5. CASE ~WorkerReceive(w) /\ ~WorkerSeesClosed(w)
  <2>1. UNCHANGED <<asyncCh, closed, resize, health, held>>
    BY <1>5 DEF Worker, WorkerStart, WorkerDone, WorkerDeactivate, WorkerExit,
       resize, checks
  <2>2. Serving' = Serving
    BY <1>1, <1>5 DEF Worker, WorkerStart, WorkerDone, WorkerDeactivate,
       WorkerExit, Serving, TypeOK
  <2>. QED
    BY <1>1, <2>1, <2>2, PoolFrame
<1>. QED
  BY <1>3, <1>4, <1>5

\* Each turn of the loop of SetWorkers adds a worker or a nil job.
LEMMA ResizerPool ==
  ASSUME PoolInv, Resizer
  PROVE  PoolInv'
<1>1. TypeOK' /\ TypeOK /\ LoopInv
  BY ResizerTypeOK DEF PoolInv
<1>2. /\ Cardinality(Serving) \in Nat /\ Cardinality(Pills) \in Nat
      /\ Cardinality(HeldPills) \in Nat /\ Configured \in Nat
  BY <1>1, Counts
<1>3. UNCHANGED <<closed, HeldPills>>
  BY DEF Resizer, SetWorkers, SetWorkersSpawn, SetWorkersStop,
     SetWorkersPanics, SetWorkersReturns, HeldPills, checks
<1>4. CASE SetWorkersSpawn
  <2>1. PICK w \in WorkerIds : wst[w] = "off" /\ wst' = [wst EXCEPT ![w] = "starting"]
    BY <1>4 DEF SetWorkersSpawn
  <2>2. Serving' = Serving \cup {w} /\ w \notin Serving /\ Serving \in SUBSET WorkerIds
    BY <1>1, <2>1 DEF Serving, TypeOK
  <2>3. Cardinality(Serving') = Cardinality(Serving) + 1
    BY <2>2, WorkersFinite, FS_AddElement
  <2>4. asyncCh' = asyncCh /\ Pills' = Pills
    BY <1>4 DEF SetWorkersSpawn, Pills, PillsIn
  <2>5. Configured' = Configured + 1 /\ LoopInv'
    BY <1>1, <1>4 DEF SetWorkersSpawn, Configured, LoopInv, TypeOK
  <2>. QED
    BY <1>1, <1>2, <1>3, <2>3, <2>4, <2>5
       DEF PoolInv, WorkerConservation, ClosedQueueServed
<1>5. CASE SetWorkersStop
  <2>1. asyncCh \in Seq(Elts) /\ Nil \in Elts /\ asyncCh' = Append(asyncCh, Nil)
    BY <1>1, <1>5 DEF TypeOK, Elts, SetWorkersStop
  <2>2. Cardinality(Pills') = Cardinality(Pills) + 1
    BY <2>1, PillsAppend DEF Pills, PillsIn
  <2>3. Serving' = Serving /\ ~closed
    BY <1>5 DEF SetWorkersStop, Serving, pool
  <2>4. Configured' = Configured - 1 /\ LoopInv'
    BY <1>1, <1>5 DEF SetWorkersStop, Configured, LoopInv, TypeOK
  <2>. QED
    BY <1>1, <1>2, <1>3, <2>2, <2>3, <2>4
       DEF PoolInv, WorkerConservation, ClosedQueueServed
<1>6. CASE \E m \in Targets : SetWorkers(m)
  <2>1. asyncCh' = asyncCh /\ Pills' = Pills /\ Serving' = Serving
    BY <1>6 DEF SetWorkers, Pills, PillsIn, Serving, pool
  <2>2. Configured' = Configured /\ LoopInv'
    <3>1. PICK m \in Targets : SetWorkers(m)
      BY <1>6
    <3>2. m \in Int /\ workers \in Int /\ m # workers
      BY <1>1, <3>1, PoolAssumption DEF SetWorkers, TypeOK
    <3>3. setter = "free" /\ workers' = workers /\ n' = m
      BY <3>1 DEF SetWorkers
    <3>4. \/ m > workers /\ setter' = "up" /\ i' = workers
          \/ m < workers /\ setter' = "down" /\ i' = 0
      BY <3>1, <3>2 DEF SetWorkers
    <3>. QED
      BY <3>2, <3>3, <3>4 DEF Configured, LoopInv
  <2>. QED
    BY <1>1, <1>3, <2>1, <2>2 DEF PoolInv, WorkerConservation, ClosedQueueServed
<1>7. CASE SetWorkersReturns
  <2>1. asyncCh' = asyncCh /\ Pills' = Pills /\ Serving' = Serving
    BY <1>7 DEF SetWorkersReturns, Pills, PillsIn, Serving, pool
  <2>2. Configured' = Configured /\ LoopInv'
    BY <1>1, <1>7 DEF SetWorkersReturns, Configured, LoopInv, TypeOK
  <2>. QED
    BY <1>1, <1>3, <2>1, <2>2 DEF PoolInv, WorkerConservation, ClosedQueueServed
<1>8. CASE SetWorkersPanics
  <2>1. asyncCh' = asyncCh /\ Pills' = Pills /\ Serving' = Serving /\ closed
    BY <1>8 DEF SetWorkersPanics, Pills, PillsIn, Serving, pool
  <2>2. LoopInv'
    BY <1>8 DEF SetWorkersPanics, LoopInv
  <2>. QED
    BY <1>1, <1>3, <2>1, <2>2 DEF PoolInv, WorkerConservation, ClosedQueueServed
<1>. QED
  BY <1>4, <1>5, <1>6, <1>7, <1>8 DEF Resizer

\* A HealthCheck may carry a nil job out of the channel and back.
LEMMA CheckerPool ==
  ASSUME PoolInv, NEW h \in HealthCheckers, Checker(h)
  PROVE  PoolInv'
<1>1. TypeOK' /\ TypeOK /\ LoopInv
  BY CheckerTypeOK DEF PoolInv
<1>2. /\ Cardinality(Serving) \in Nat /\ Cardinality(Pills) \in Nat
      /\ Cardinality(HeldPills) \in Nat /\ Configured \in Nat
  BY <1>1, Counts
<1>3. UNCHANGED <<closed, Serving, Configured>> /\ LoopInv'
  BY <1>1 DEF Checker, HealthCheck, HealthCheckTakes, HealthCheckEmpty,
     HealthCheckPutsBack, HealthCheckPanics, Serving, Configured, LoopInv,
     pool, resize
<1>4. HeldPills \in SUBSET HealthCheckers /\ asyncCh \in Seq(Elts)
  BY <1>1 DEF HeldPills, TypeOK, Elts
<1>5. CASE HealthCheckTakes(h)
  <2>1. asyncCh # <<>> /\ asyncCh' = Tail(asyncCh)
    BY <1>5 DEF HealthCheckTakes
  <2>2. Cardinality(Pills') = IF Head(asyncCh) = Nil THEN Cardinality(Pills) - 1
                                                     ELSE Cardinality(Pills)
    BY <1>4, <2>1, PillsTail DEF Pills, PillsIn
  <2>3. HeldPills' = IF Head(asyncCh) = Nil THEN HeldPills \cup {h} ELSE HeldPills
    BY <1>1, <1>5 DEF HealthCheckTakes, HeldPills, TypeOK
  <2>4. h \notin HeldPills
    BY <1>5 DEF HealthCheckTakes, HeldPills
  <2>5. Cardinality(HeldPills') = IF Head(asyncCh) = Nil
                                  THEN Cardinality(HeldPills) + 1
                                  ELSE Cardinality(HeldPills)
    BY <1>4, <2>3, <2>4, ChecksFinite, FS_AddElement
  <2>6. WorkerConservation'
    BY <1>2, <1>3, <2>2, <2>5 DEF PoolInv, WorkerConservation
  <2>7. ClosedQueueServed'
    BY <1>2, <1>3, <2>1, <2>2 DEF PoolInv, ClosedQueueServed
  <2>. QED
    BY <1>1, <1>3, <2>6, <2>7 DEF PoolInv
<1>6. CASE HealthCheckPutsBack(h)
  <2>1. held[h] \in Elts /\ asyncCh' = Append(asyncCh, held[h]) /\ ~closed
    BY <1>1, <1>6 DEF HealthCheckPutsBack, TypeOK, Elts
  <2>2. Cardinality(Pills') = IF held[h] = Nil THEN Cardinality(Pills) + 1
                                               ELSE Cardinality(Pills)
    BY <1>4, <2>1, PillsAppend DEF Pills, PillsIn
  <2>3. HeldPills' = HeldPills \ {h} /\ (h \in HeldPills <=> held[h] = Nil)
    BY <1>1, <1>6 DEF HealthCheckPutsBack, HeldPills, TypeOK
  <2>4. Cardinality(HeldPills') = IF held[h] = Nil THEN Cardinality(HeldPills) - 1
                                                   ELSE Cardinality(HeldPills)
    BY <1>4, <2>3, ChecksFinite, FS_RemoveElement
  <2>. QED
    BY <1>1, <1>2, <1>3, <2>1, <2>2, <2>4
       DEF PoolInv, WorkerConservation, ClosedQueueServed
<1>7. CASE HealthCheck(h) \/ HealthCheckEmpty(h) \/ HealthCheckPanics(h)
  <2>1. asyncCh' = asyncCh /\ Pills' = Pills
    BY <1>7 DEF HealthCheck, HealthCheckEmpty, HealthCheckPanics, Pills, PillsIn
  <2>2. closed \/ HeldPills' = HeldPills
    BY <1>1, <1>7 DEF HealthCheck, HealthCheckEmpty, HealthCheckPanics,
       HeldPills, TypeOK
  <2>. QED
    BY <1>1, <1>3, <2>1, <2>2 DEF PoolInv, WorkerConservation, ClosedQueueServed
<1>. QED
  BY <1>5, <1>6, <1>7 DEF Checker

\* When the channel is closed a configured worker remains beyond the nil jobs.
LEMMA ClosingPool ==
  ASSUME PoolInv, NEW c \in Closers, Closing(c)
  PROVE  PoolInv'
<1>1. TypeOK' /\ TypeOK /\ LoopInv
  BY ClosingTypeOK DEF PoolInv
<1>2. /\ Cardinality(Serving) \in Nat /\ Cardinality(Pills) \in Nat
      /\ Cardinality(HeldPills) \in Nat /\ Configured \in Nat \ {0}
  BY <1>1, Counts
<1>3. UNCHANGED <<asyncCh, Serving, Pills, HeldPills, Configured>> /\ LoopInv'
  BY <1>1 DEF Closing, Close, CloseChannel, CloseReturns, Serving, Pills,
     PillsIn, HeldPills, Configured, LoopInv, pool, resize, checks
<1>4. closed' = closed \/ closed' = TRUE
  BY DEF Closing, Close, CloseChannel, CloseReturns
<1>5. closed \/ Cardinality(Serving) > Cardinality(Pills)
  BY <1>2 DEF PoolInv, WorkerConservation
<1>. QED
  BY <1>1, <1>3, <1>4, <1>5 DEF PoolInv, WorkerConservation, ClosedQueueServed

LEMMA NewPool == New => PoolInv
<1>. SUFFICES ASSUME New PROVE PoolInv
  OBVIOUS
<1>1. PICK W \in SUBSET WorkerIds :
        /\ Cardinality(W) = InitWorkers
        /\ wst = [w \in WorkerIds |-> IF w \in W THEN "starting" ELSE "off"]
  BY DEF New
<1>2. Serving = W
  BY <1>1 DEF Serving
<1>3. Pills = {} /\ HeldPills = {}
  BY DEF New, Pills, PillsIn, HeldPills
<1>4. Configured = InitWorkers /\ InitWorkers \in Nat /\ closed = FALSE /\ LoopInv
  BY PoolAssumption DEF New, Configured, LoopInv
<1>. QED
  BY <1>1, <1>2, <1>3, <1>4, NewTypeOK, FS_EmptySet
     DEF PoolInv, WorkerConservation, ClosedQueueServed

LEMMA NextPool == PoolInv /\ [Next]_vars => PoolInv'
<1>. SUFFICES ASSUME PoolInv, [Next]_vars PROVE PoolInv'
  OBVIOUS
<1>1. CASE BatchPush \/ BatchPushReturns \/ UNCHANGED vars
  <2>1. UNCHANGED <<asyncCh, closed, resize, health, held, wst>>
    BY <1>1 DEF BatchPush, BatchPushReturns, vars, resize, pool, checks
  <2>2. Serving' = Serving
    BY <2>1 DEF Serving
  <2>3. TypeOK'
    BY NextTypeOK DEF PoolInv
  <2>. QED
    BY <2>1, <2>2, <2>3, PoolFrame
<1>. QED
  BY <1>1, SubmitterPool, WorkerPool, ResizerPool, CheckerPool, ClosingPool
     DEF Next

\* Whatever SetWorkers, HealthCheck and the workers do and in whatever order,
\* the serving goroutines are the configured ones plus one per nil job still
\* under way: scaling neither loses nor leaks a worker.
THEOREM NoWorkerLost == Spec => []WorkerConservation
<1>1. PoolInv => WorkerConservation
  BY DEF PoolInv
<1>. QED
  BY <1>1, NewPool, NextPool, PTL DEF Spec

\* After close(asyncCh) a worker that is not due to stop is left for as long
\* as the channel holds anything.
THEOREM SomeoneDrains == Spec => []ClosedQueueServed
<1>1. PoolInv => ClosedQueueServed
  BY DEF PoolInv
<1>. QED
  BY <1>1, NewPool, NextPool, PTL DEF Spec

-----------------------------------------------------------------------------
(* Close returns only when everything accepted has been pushed.            *)

Finished == \E c \in Closers : closer[c] = "returned"

\* A Close that waits has closed the channel.
WaitInv == \A c \in Closers : closer[c] \in {"waiting", "returned"} => closed

\* Once it has returned the channel is empty and nobody pushes; a worker that
\* a late SetWorkers starts finds nothing.
QuietInv == Finished => asyncCh = <<>> /\ \A w \in WorkerIds : wst[w] # "busy"

Queued(j)  == \E k \in 1 .. Len(asyncCh) : asyncCh[k] = j
Pushing(j) == \E w \in WorkerIds : wst[w] = "busy" /\ wjob[w] = j
Taken(j)   == \E h \in HealthCheckers : health[h] = "holding" /\ held[h] = j

\* An unfinished accepted job is somewhere.
PlaceInv == \A j \in Jobs : job[j] = "queued" => Queued(j) \/ Pushing(j) \/ Taken(j)

DrainInv == WaitInv /\ QuietInv /\ PlaceInv

\* Elements of a queue after a send and after a receive.
LEMMA AfterSend ==
  ASSUME NEW q \in Seq(Elts), NEW e \in Elts, NEW x
  PROVE  (\E k \in 1 .. Len(Append(q, e)) : Append(q, e)[k] = x)
           <=> (x = e \/ \E k \in 1 .. Len(q) : q[k] = x)
<1>1. /\ Len(Append(q, e)) = Len(q) + 1 /\ Len(q) \in Nat
      /\ \A k \in 1 .. Len(q) : Append(q, e)[k] = q[k]
      /\ Append(q, e)[Len(q) + 1] = e
  BY AppendProperties, LenProperties
<1>. QED
  BY <1>1

LEMMA AfterReceive ==
  ASSUME NEW q \in Seq(Elts), q # <<>>, NEW x, NEW k \in 1 .. Len(q), q[k] = x
  PROVE  x = Head(q) \/ \E m \in 1 .. Len(Tail(q)) : Tail(q)[m] = x
<1>1. /\ Len(Tail(q)) = Len(q) - 1 /\ Len(q) \in Nat /\ Head(q) = q[1]
      /\ \A m \in 1 .. Len(q) - 1 : Tail(q)[m] = q[m + 1]
  BY HeadTailProperties, LenProperties
<1>2. CASE k = 1
  BY <1>1, <1>2
<1>3. CASE k # 1
  <2>1. k - 1 \in 1 .. Len(Tail(q)) /\ Tail(q)[k - 1] = x
    BY <1>1, <1>3
  <2>. QED
    BY <2>1
<1>. QED
  BY <1>2, <1>3

LEMMA SubmitterDrain ==
  ASSUME PoolInv, DrainInv, NEW j \in Jobs, Submitter(j)
  PROVE  DrainInv'
<1>1. UNCHANGED <<closed, closer, wst, wjob, health, held>>
  BY DEF Submitter, AsyncPushQueued, AsyncPushFallback, AsyncPushPanics,
     FallbackDone, pool, checks
<1>2. asyncCh \in Seq(Elts) /\ job \in [Jobs -> {"new", "queued", "fallback",
        "panicked", "lost", "ok", "err", "syncOk", "syncErr"}] /\ j \in Elts
  BY DEF PoolInv, TypeOK, Elts
<1>3. asyncCh' = asyncCh \/ (asyncCh' = Append(asyncCh, j) /\ ~closed)
  BY DEF Submitter, AsyncPushQueued, AsyncPushFallback, AsyncPushPanics, FallbackDone
<1>4. \A x \in Jobs : Queued(x) => Queued(x)'
  BY <1>2, <1>3, AfterSend DEF Queued
<1>5. \A x \in Jobs : x # j => job'[x] = job[x]
  BY <1>2 DEF Submitter, AsyncPushQueued, AsyncPushFallback, AsyncPushPanics, FallbackDone
<1>6. job'[j] = "queued" => Queued(j)'
  <2>1. CASE AsyncPushQueued(j)
    BY <2>1, <1>2, AfterSend DEF AsyncPushQueued, Queued
  <2>2. CASE ~AsyncPushQueued(j)
    BY <2>2, <1>2 DEF Submitter, AsyncPushFallback, AsyncPushPanics, FallbackDone
  <2>. QED
    BY <2>1, <2>2
<1>7. PlaceInv'
  BY <1>1, <1>4, <1>5, <1>6 DEF DrainInv, PlaceInv, Pushing, Taken
<1>8. WaitInv' /\ QuietInv'
  BY <1>1, <1>3 DEF DrainInv, WaitInv, QuietInv, Finished
<1>. QED
  BY <1>7, <1>8 DEF DrainInv

LEMMA WorkerDrain ==
  ASSUME PoolInv, DrainInv, NEW w \in WorkerIds, Worker(w)
  PROVE  DrainInv'
<1>1. UNCHANGED <<closed, closer, health, held>>
  BY DEF Worker, WorkerStart, WorkerReceive, WorkerSeesClosed, WorkerDone,
     WorkerDeactivate, WorkerExit, checks
<1>2. TypeOK
  BY DEF PoolInv
<1>3. CASE WorkerReceive(w)
  <2>1. asyncCh \in Seq(Elts) /\ asyncCh # <<>> /\ asyncCh' = Tail(asyncCh)
        /\ job' = job /\ wst[w] = "idle"
    BY <1>2, <1>3 DEF WorkerReceive, TypeOK, Elts
  <2>2. \A x \in Jobs : Queued(x) => x = Head(asyncCh) \/ Queued(x)'
    BY <2>1, AfterReceive DEF Queued
  <2>3. \A x \in Jobs : x = Head(asyncCh) => Pushing(x)'
    BY <1>2, <1>3, PoolAssumption DEF WorkerReceive, Pushing, TypeOK
  <2>4. \A x \in Jobs : Pushing(x) => Pushing(x)'
    BY <1>2, <1>3 DEF WorkerReceive, Pushing, TypeOK
  <2>5. ~Finished
    BY <2>1 DEF DrainInv, QuietInv
  <2>. QED
    BY <1>1, <2>1, <2>2, <2>3, <2>4, <2>5
       DEF DrainInv, WaitInv, QuietInv, PlaceInv, Finished, Taken
<1>4. CASE \E ok \in BOOLEAN : WorkerDone(w, ok)
  <2>1. asyncCh' = asyncCh /\ wst[w] = "busy"
    BY <1>4 DEF WorkerDone
  <2>2. \A x \in Jobs : job'[x] = "queued" => job[x] = "queued" /\ x # wjob[w]
    BY <1>2, <1>4 DEF WorkerDone, TypeOK
  <2>3. \A x \in Jobs : x # wjob[w] /\ Pushing(x) => Pushing(x)'
    BY <1>2, <1>4 DEF WorkerDone, Pushing, TypeOK
  <2>4. ~Finished
    BY <2>1 DEF DrainInv, QuietInv
  <2>. QED
    BY <1>1, <2>1, <2>2, <2>3, <2>4
       DEF DrainInv, WaitInv, QuietInv, PlaceInv, Finished, Taken, Queued
<1>5. CASE ~WorkerReceive(w) /\ ~(\E ok \in BOOLEAN : WorkerDone(w, ok))
  <2>1. asyncCh' = asyncCh /\ wjob' = wjob /\ job' = job
    BY <1>5 DEF Worker, WorkerStart, WorkerSeesClosed, WorkerDeactivate, WorkerExit
  <2>2. \A v \in WorkerIds : wst'[v] = "busy" <=> wst[v] = "busy"
    BY <1>2, <1>5 DEF Worker, WorkerStart, WorkerSeesClosed, WorkerDeactivate,
       WorkerExit, TypeOK
  <2>. QED
    BY <1>1, <2>1, <2>2
       DEF DrainInv, WaitInv, QuietInv, PlaceInv, Finished, Taken, Queued, Pushing
<1>. QED
  BY <1>3, <1>4, <1>5

LEMMA ResizerDrain ==
  ASSUME PoolInv, DrainInv, Resizer
  PROVE  DrainInv'
<1>1. UNCHANGED <<closed, closer, health, held, job, wjob>>
  BY DEF Resizer, SetWorkers, SetWorkersSpawn, SetWorkersStop,
     SetWorkersPanics, SetWorkersReturns, checks, pool
<1>2. asyncCh \in Seq(Elts) /\ Nil \in Elts
  BY DEF PoolInv, TypeOK, Elts
<1>3. asyncCh' = asyncCh \/ (asyncCh' = Append(asyncCh, Nil) /\ ~closed)
  BY DEF Resizer, SetWorkers, SetWorkersSpawn, SetWorkersStop,
     SetWorkersPanics, SetWorkersReturns
<1>4. \A x \in Jobs : Queued(x) => Queued(x)'
  BY <1>2, <1>3, AfterSend DEF Queued
<1>5. \A v \in WorkerIds : wst'[v] = "busy" <=> wst[v] = "busy"
  BY DEF PoolInv, TypeOK, Resizer, SetWorkers, SetWorkersSpawn, SetWorkersStop,
     SetWorkersPanics, SetWorkersReturns, pool
<1>. QED
  BY <1>1, <1>3, <1>4, <1>5
     DEF DrainInv, WaitInv, QuietInv, PlaceInv, Finished, Taken, Pushing

LEMMA CheckerDrain ==
  ASSUME PoolInv, DrainInv, NEW h \in HealthCheckers, Checker(h)
  PROVE  DrainInv'
<1>1. UNCHANGED <<closed, closer, wst, wjob>>
  BY DEF Checker, HealthCheck, HealthCheckTakes, HealthCheckEmpty,
     HealthCheckPutsBack, HealthCheckPanics, pool
<1>2. TypeOK /\ asyncCh \in Seq(Elts)
  BY DEF PoolInv, TypeOK, Elts
<1>3. CASE HealthCheckTakes(h)
  <2>1. asyncCh # <<>> /\ asyncCh' = Tail(asyncCh) /\ job' = job
    BY <1>3 DEF HealthCheckTakes
  <2>2. \A x \in Jobs : Queued(x) => x = Head(asyncCh) \/ Queued(x)'
    BY <1>2, <2>1, AfterReceive DEF Queued
  <2>3. \A x \in Jobs : x = Head(asyncCh) \/ Taken(x) => Taken(x)'
    BY <1>2, <1>3 DEF HealthCheckTakes, Taken, TypeOK
  <2>4. ~Finished
    BY <2>1 DEF DrainInv, QuietInv
  <2>. QED
    BY <1>1, <2>1, <2>2, <2>3, <2>4
       DEF DrainInv, WaitInv, QuietInv, PlaceInv, Finished, Pushing
<1>4. CASE HealthCheckPutsBack(h)
  <2>1. asyncCh' = Append(asyncCh, held[h]) /\ held[h] \in Elts /\ ~closed /\ job' = job
    BY <1>2, <1>4 DEF HealthCheckPutsBack, TypeOK, Elts
  <2>2. \A x \in Jobs : Queued(x) \/ x = held[h] => Queued(x)'
    BY <1>2, <2>1, AfterSend DEF Queued
  <2>3. \A x \in Jobs : x # held[h] /\ Taken(x) => Taken(x)'
    BY <1>2, <1>4 DEF HealthCheckPutsBack, Taken, TypeOK
  <2>4. ~Finished
    BY <2>1 DEF DrainInv, WaitInv, Finished
  <2>. QED
    BY <1>1, <2>1, <2>2, <2>3, <2>4
       DEF DrainInv, WaitInv, QuietInv, PlaceInv, Finished, Pushing
<1>5. CASE HealthCheckPanics(h)
  <2>1. asyncCh' = asyncCh
    BY <1>5 DEF HealthCheckPanics
  <2>2. \A x \in Jobs : job'[x] = "queued" => job[x] = "queued" /\ x # held[h]
    BY <1>2, <1>5, PoolAssumption DEF HealthCheckPanics, TypeOK
  <2>3. \A x \in Jobs : x # held[h] /\ Taken(x) => Taken(x)'
    BY <1>2, <1>5 DEF HealthCheckPanics, Taken, TypeOK
  <2>. QED
    BY <1>1, <2>1, <2>2, <2>3
       DEF DrainInv, WaitInv, QuietInv, PlaceInv, Finished, Pushing, Queued
<1>6. CASE HealthCheck(h) \/ HealthCheckEmpty(h)
  <2>1. asyncCh' = asyncCh /\ job' = job
    BY <1>6 DEF HealthCheck, HealthCheckEmpty
  <2>2. \A x \in Jobs : Taken(x) => Taken(x)'
    BY <1>2, <1>6 DEF HealthCheck, HealthCheckEmpty, Taken, TypeOK
  <2>. QED
    BY <1>1, <2>1, <2>2
       DEF DrainInv, WaitInv, QuietInv, PlaceInv, Finished, Pushing, Queued
<1>. QED
  BY <1>3, <1>4, <1>5, <1>6 DEF Checker

\* No worker lives when Close returns, so by ClosedQueueServed the channel
\* is empty.
LEMMA ClosingDrain ==
  ASSUME PoolInv, DrainInv, NEW c \in Closers, Closing(c)
  PROVE  DrainInv'
<1>1. UNCHANGED <<asyncCh, wst, wjob, job, health, held>>
  BY DEF Closing, Close, CloseChannel, CloseReturns, pool, checks
<1>2. PlaceInv'
  BY <1>1 DEF DrainInv, PlaceInv, Queued, Pushing, Taken
<1>3. TypeOK
  BY DEF PoolInv
<1>4. WaitInv'
  BY <1>3 DEF DrainInv, WaitInv, Closing, Close, CloseChannel, CloseReturns, TypeOK
<1>5. CASE CloseReturns(c)
  <2>1. Live = {} /\ closed
    BY <1>5 DEF CloseReturns, DrainInv, WaitInv
  <2>2. Serving = {} /\ \A w \in WorkerIds : wst[w] # "busy"
    BY <2>1 DEF Live, Serving
  <2>3. Cardinality(Serving) = 0
    BY <2>2, FS_EmptySet
  <2>4. Cardinality(Pills) \in Nat
    BY Counts DEF PoolInv
  <2>5. asyncCh = <<>>
    BY <2>1, <2>3, <2>4 DEF PoolInv, ClosedQueueServed
  <2>. QED
    BY <1>1, <1>2, <1>4, <2>2, <2>5 DEF DrainInv, QuietInv
<1>6. CASE Close(c) \/ CloseChannel(c)
  <2>1. Finished' => Finished
    BY <1>3, <1>6 DEF Finished, Close, CloseChannel, TypeOK
  <2>. QED
    BY <1>1, <1>2, <1>4, <2>1 DEF DrainInv, QuietInv
<1>. QED
  BY <1>5, <1>6 DEF Closing

LEMMA NewDrain == New => DrainInv
BY DEF New, DrainInv, WaitInv, QuietInv, PlaceInv, Finished

LEMMA NextDrain == PoolInv /\ DrainInv /\ [Next]_vars => DrainInv'
<1>. SUFFICES ASSUME PoolInv, DrainInv, [Next]_vars PROVE DrainInv'
  OBVIOUS
<1>1. CASE BatchPush \/ BatchPushReturns \/ UNCHANGED vars
  <2>1. UNCHANGED <<asyncCh, closed, closer, wst, wjob, job, health, held>>
    BY <1>1 DEF BatchPush, BatchPushReturns, vars, pool, checks
  <2>. QED
    BY <2>1 DEF DrainInv, WaitInv, QuietInv, PlaceInv, Finished, Queued,
       Pushing, Taken
<1>. QED
  BY <1>1, SubmitterDrain, WorkerDrain, ResizerDrain, CheckerDrain, ClosingDrain
     DEF Next

\* The Close that shuts the client down returns only when the channel is
\* empty and every accepted job has been pushed, however the pool was resized
\* before and during it; the one exception is a job a HealthCheck took out.
THEOREM CloseWaitsForJobs == Spec => []CloseDrains
<1>1. DrainInv => CloseDrains
  BY DEF DrainInv, QuietInv, PlaceInv, Queued, Pushing, Taken, Finished, CloseDrains
<1>. QED
  BY <1>1, NewPool, NextPool, NewDrain, NextDrain, PTL DEF Spec

-----------------------------------------------------------------------------
(* Every payload is accounted for.                                         *)

Distinct(q) == \A k, m \in 1 .. Len(q) : k # m /\ q[k] \in Jobs => q[k] # q[m]

\* A job is in the channel once, with one worker, with one HealthCheck, and in
\* one of the three only; it is there only between AsyncPush and its outcome.
OnceInv ==
  /\ Distinct(asyncCh)
  /\ \A h \in HealthCheckers : health[h] # "holding" => held[h] = Nil
  /\ \A w \in WorkerIds : wst[w] = "busy" => wjob[w] \in Jobs
  /\ \A v, w \in WorkerIds : wst[v] = "busy" /\ wst[w] = "busy" /\ wjob[v] = wjob[w] => v = w
  /\ \A g, h \in HealthCheckers :
       /\ health[g] = "holding" /\ health[h] = "holding"
       /\ held[g] = held[h] /\ held[g] \in Jobs
       => g = h
  /\ \A j \in Jobs :
       ~(Queued(j) /\ Pushing(j)) /\ ~(Queued(j) /\ Taken(j)) /\ ~(Pushing(j) /\ Taken(j))
  /\ \A j \in Jobs : Queued(j) \/ Pushing(j) \/ Taken(j) => job[j] = "queued"

AccountInv == OnceInv /\ StatsExact /\ BatchHandsOver

LEMMA DistinctSend ==
  ASSUME NEW q \in Seq(Elts), NEW e \in Elts, Distinct(q),
         e \in Jobs => \A k \in 1 .. Len(q) : q[k] # e
  PROVE  Distinct(Append(q, e))
<1>1. /\ Len(Append(q, e)) = Len(q) + 1 /\ Len(q) \in Nat
      /\ \A k \in 1 .. Len(q) : Append(q, e)[k] = q[k]
      /\ Append(q, e)[Len(q) + 1] = e
  BY AppendProperties, LenProperties
<1>. QED
  BY <1>1 DEF Distinct

LEMMA DistinctReceive ==
  ASSUME NEW q \in Seq(Elts), q # <<>>, Distinct(q)
  PROVE  /\ Distinct(Tail(q))
         /\ \A k \in 1 .. Len(Tail(q)) : \E m \in 1 .. Len(q) : Tail(q)[k] = q[m]
         /\ \E m \in 1 .. Len(q) : Head(q) = q[m]
         /\ Head(q) \in Jobs => \A k \in 1 .. Len(Tail(q)) : Tail(q)[k] # Head(q)
<1>1. /\ Len(Tail(q)) = Len(q) - 1 /\ Len(q) \in Nat /\ Head(q) = q[1] /\ Len(q) >= 1
      /\ \A m \in 1 .. Len(q) - 1 : Tail(q)[m] = q[m + 1]
  BY HeadTailProperties, LenProperties, EmptySeq
<1>. QED
  BY <1>1 DEF Distinct

\* In OnceInv's terms the places of a job are one or none.
LEMMA OncePlaces == TypeOK /\ OnceInv /\ PlaceInv => JobInOnePlace
<1>. SUFFICES ASSUME TypeOK, OnceInv, PlaceInv, NEW j \in Jobs
     PROVE  Cardinality(Places(j)) = IF job[j] = "queued" THEN 1 ELSE 0
  BY DEF JobInOnePlace
<1>1. ASSUME NEW p, Places(j) = {p}, job[j] = "queued"
      PROVE  Cardinality(Places(j)) = IF job[j] = "queued" THEN 1 ELSE 0
  BY <1>1, FS_Singleton
<1>2. CASE Queued(j)
  <2>1. PICK k \in 1 .. Len(asyncCh) : asyncCh[k] = j
    BY <1>2 DEF Queued
  <2>2. ~Pushing(j) /\ ~Taken(j) /\ job[j] = "queued"
    BY <1>2 DEF OnceInv
  <2>3. \A x \in 1 .. Len(asyncCh) : asyncCh[x] = j => x = k
    BY <2>1 DEF OnceInv, Distinct
  <2>4. Places(j) = {<<"queue", k>>}
    BY <2>1, <2>2, <2>3 DEF Places, Pushing, Taken
  <2>. QED
    BY <1>1, <2>2, <2>4
<1>3. CASE Pushing(j)
  <2>1. PICK w \in WorkerIds : wst[w] = "busy" /\ wjob[w] = j
    BY <1>3 DEF Pushing
  <2>2. ~Queued(j) /\ ~Taken(j) /\ job[j] = "queued"
    BY <1>3 DEF OnceInv
  <2>3. \A x \in WorkerIds : wst[x] = "busy" /\ wjob[x] = j => x = w
    BY <2>1 DEF OnceInv
  <2>4. Places(j) = {<<"worker", w>>}
    BY <2>1, <2>2, <2>3 DEF Places, Queued, Taken
  <2>. QED
    BY <1>1, <2>2, <2>4
<1>4. CASE Taken(j)
  <2>1. PICK h \in HealthCheckers : health[h] = "holding" /\ held[h] = j
    BY <1>4 DEF Taken
  <2>2. ~Queued(j) /\ ~Pushing(j) /\ job[j] = "queued"
    BY <1>4 DEF OnceInv
  <2>3. \A x \in HealthCheckers : health[x] = "holding" /\ held[x] = j => x = h
    BY <2>1 DEF OnceInv
  <2>4. Places(j) = {<<"health", h>>}
    BY <2>1, <2>2, <2>3 DEF Places, Queued, Pushing
  <2>. QED
    BY <1>1, <2>2, <2>4
<1>5. CASE ~Queued(j) /\ ~Pushing(j) /\ ~Taken(j)
  <2>1. Places(j) = {}
    BY <1>5 DEF Places, Queued, Pushing, Taken
  <2>2. job[j] # "queued"
    BY <1>5 DEF PlaceInv
  <2>. QED
    BY <2>1, <2>2, FS_EmptySet
<1>. QED
  BY <1>2, <1>3, <1>4, <1>5

\* A step that finishes no asynchronous push and spoils no payload.
LEMMA SameOutcomes ==
  ASSUME TypeOK, AccountInv, UNCHANGED <<batch, processed, failed>>,
         \A j \in Jobs : job'[j] \in {"ok", "err"} \/ job[j] \in {"ok", "err"} => job'[j] = job[j],
         \A j \in Jobs : job[j] \notin {"new", "fallback", "panicked", "syncErr"} =>
                         job'[j] \notin {"new", "fallback", "panicked", "syncErr"}
  PROVE  StatsExact' /\ BatchHandsOver'
<1>1. {j \in Jobs : job'[j] = "ok"} = {j \in Jobs : job[j] = "ok"}
      /\ {j \in Jobs : job'[j] = "err"} = {j \in Jobs : job[j] = "err"}
  OBVIOUS
<1>2. BatchHandsOver'
  BY PoolAssumption DEF AccountInv, BatchHandsOver
<1>. QED
  BY <1>1, <1>2 DEF AccountInv, StatsExact

LEMMA SubmitterAccount ==
  ASSUME PoolInv, DrainInv, AccountInv, NEW j \in Jobs, Submitter(j)
  PROVE  AccountInv'
<1>0. TypeOK /\ OnceInv
  BY DEF PoolInv, AccountInv
<1>1. UNCHANGED <<wst, wjob, health, held, batch, processed, failed>>
  BY DEF Submitter, AsyncPushQueued, AsyncPushFallback, AsyncPushPanics,
     FallbackDone, pool, checks
<1>2. asyncCh \in Seq(Elts) /\ job \in [Jobs -> {"new", "queued", "fallback",
        "panicked", "lost", "ok", "err", "syncOk", "syncErr"}] /\ j \in Elts
  BY <1>0 DEF TypeOK, Elts
<1>3. /\ \A x \in Jobs : x # j => job'[x] = job[x]
      /\ job[j] \in {"new", "fallback"}
      /\ \/ job'[j] = "queued" /\ asyncCh' = Append(asyncCh, j)
         \/ job'[j] \in {"fallback", "panicked", "syncOk", "syncErr"} /\ asyncCh' = asyncCh
  BY <1>2 DEF Submitter, AsyncPushQueued, AsyncPushFallback, AsyncPushPanics, FallbackDone, MayPush
<1>4. StatsExact' /\ BatchHandsOver'
  BY <1>0, <1>1, <1>3, SameOutcomes
<1>5. ~Queued(j) /\ ~Pushing(j) /\ ~Taken(j)
  BY <1>0, <1>3 DEF OnceInv
<1>6. \A x \in Jobs : (Pushing(x)' <=> Pushing(x)) /\ (Taken(x)' <=> Taken(x))
  BY <1>1 DEF Pushing, Taken
<1>7. CASE asyncCh' = asyncCh
  <2>1. \A x \in Jobs : Queued(x)' <=> Queued(x)
    BY <1>7 DEF Queued
  <2>2. Distinct(asyncCh)'
    BY <1>0, <1>7 DEF OnceInv, Distinct
  <2>3. OnceInv'
    BY <1>0, <1>1, <1>3, <1>5, <1>6, <2>1, <2>2 DEF OnceInv
  <2>. QED
    BY <1>4, <2>3 DEF AccountInv
<1>8. CASE job'[j] = "queued" /\ asyncCh' = Append(asyncCh, j)
  <2>1. \A x \in Jobs : Queued(x)' <=> x = j \/ Queued(x)
    BY <1>2, <1>8, AfterSend DEF Queued
  <2>2. Distinct(Append(asyncCh, j))
    BY <1>0, <1>2, <1>5, DistinctSend DEF OnceInv, Queued
  <2>3. Distinct(asyncCh)'
    BY <1>8, <2>2 DEF Distinct
  <2>4. OnceInv'
    BY <1>0, <1>1, <1>3, <1>5, <1>6, <1>8, <2>1, <2>3 DEF OnceInv
  <2>. QED
    BY <1>4, <2>4 DEF AccountInv
<1>. QED
  BY <1>3, <1>7, <1>8

\* What is left of the places after the head of the channel has been taken.
LEMMA HeadTaken ==
  ASSUME TypeOK, OnceInv, asyncCh # <<>>, asyncCh' = Tail(asyncCh)
  PROVE  /\ Distinct(asyncCh)'
         /\ \A x \in Jobs : Queued(x)' => Queued(x) /\ x # Head(asyncCh)
         /\ Head(asyncCh) \in Elts
         /\ Head(asyncCh) \in Jobs => Queued(Head(asyncCh))
<1>1. asyncCh \in Seq(Elts) /\ Distinct(asyncCh)
  BY DEF TypeOK, Elts, OnceInv
<1>2. Distinct(Tail(asyncCh))
  BY <1>1, DistinctReceive
<1>3. Distinct(asyncCh)'
  BY <1>2 DEF Distinct
<1>4. \A x \in Jobs : Queued(x)' => Queued(x) /\ x # Head(asyncCh)
  BY <1>1, DistinctReceive DEF Queued
<1>5. Head(asyncCh) \in Elts
  BY <1>1, HeadTailProperties
<1>. QED
  BY <1>1, <1>3, <1>4, <1>5, DistinctReceive DEF Queued

LEMMA WorkerAccount ==
  ASSUME PoolInv, DrainInv, AccountInv, NEW w \in WorkerIds, Worker(w)
  PROVE  AccountInv'
<1>0. TypeOK /\ OnceInv
  BY DEF PoolInv, AccountInv
<1>1. UNCHANGED <<health, held, batch>>
  BY DEF Worker, WorkerStart, WorkerReceive, WorkerSeesClosed, WorkerDone,
     WorkerDeactivate, WorkerExit, checks
<1>2. \A x \in Jobs : Taken(x)' <=> Taken(x)
  BY <1>1 DEF Taken
<1>3. CASE WorkerReceive(w)
  <2>1. asyncCh # <<>> /\ asyncCh' = Tail(asyncCh) /\ job' = job /\ wst[w] = "idle"
        /\ processed' = processed /\ failed' = failed
    BY <1>3 DEF WorkerReceive
  <2>2. StatsExact' /\ BatchHandsOver'
    BY <1>0, <1>1, <2>1, SameOutcomes
  <2>3. /\ Distinct(asyncCh)'
        /\ \A x \in Jobs : Queued(x)' => Queued(x) /\ x # Head(asyncCh)
        /\ Head(asyncCh) \in Elts
        /\ Head(asyncCh) \in Jobs => Queued(Head(asyncCh))
    BY <1>0, <2>1, HeadTaken
  <2>4. CASE Head(asyncCh) = Nil
    <3>1. wst' = [wst EXCEPT ![w] = "exiting"] /\ wjob' = wjob
      BY <1>3, <2>4 DEF WorkerReceive
    <3>2. \A v \in WorkerIds : wst'[v] = "busy" <=> wst[v] = "busy"
      BY <1>0, <2>1, <3>1 DEF TypeOK
    <3>3. \A x \in Jobs : Pushing(x)' <=> Pushing(x)
      BY <3>1, <3>2 DEF Pushing
    <3>4. OnceInv'
      BY <1>0, <1>1, <1>2, <2>1, <2>3, <3>1, <3>2, <3>3 DEF OnceInv
    <3>. QED
      BY <2>2, <3>4 DEF AccountInv
  <2>5. CASE Head(asyncCh) # Nil
    <3>1. /\ wst' = [wst EXCEPT ![w] = "busy"] /\ wjob' = [wjob EXCEPT ![w] = Head(asyncCh)]
          /\ Head(asyncCh) \in Jobs
      BY <1>3, <2>3, <2>5 DEF WorkerReceive, Elts
    <3>2. /\ wst'[w] = "busy" /\ wjob'[w] = Head(asyncCh)
          /\ \A v \in WorkerIds \ {w} : wst'[v] = wst[v] /\ wjob'[v] = wjob[v]
      BY <1>0, <3>1 DEF TypeOK
    <3>3. \A x \in Jobs : Pushing(x)' => Pushing(x) \/ x = Head(asyncCh)
      BY <3>2 DEF Pushing
    <3>4. /\ ~Pushing(Head(asyncCh)) /\ ~Taken(Head(asyncCh))
          /\ job[Head(asyncCh)] = "queued"
      BY <1>0, <2>3, <3>1 DEF OnceInv
    <3>5. \A v \in WorkerIds : wst[v] = "busy" => wjob[v] # Head(asyncCh)
      BY <3>4 DEF Pushing
    <3>6. \A v \in WorkerIds : wst'[v] = "busy" => wjob'[v] \in Jobs
      BY <1>0, <3>1, <3>2 DEF OnceInv
    <3>7. \A u, v \in WorkerIds : wst'[u] = "busy" /\ wst'[v] = "busy" /\ wjob'[u] = wjob'[v] => u = v
      BY <1>0, <3>2, <3>5 DEF OnceInv
    <3>8. \A x \in Jobs : ~(Queued(x)' /\ Pushing(x)') /\ ~(Queued(x)' /\ Taken(x)')
                         /\ ~(Pushing(x)' /\ Taken(x)')
      BY <1>0, <1>2, <2>3, <3>3, <3>4 DEF OnceInv
    <3>9. \A x \in Jobs : Queued(x)' \/ Pushing(x)' \/ Taken(x)' => job'[x] = "queued"
      BY <1>0, <1>2, <2>1, <2>3, <3>3, <3>4 DEF OnceInv
    <3>10. OnceInv'
      BY <1>0, <1>1, <2>3, <3>6, <3>7, <3>8, <3>9 DEF OnceInv
    <3>. QED
      BY <2>2, <3>10 DEF AccountInv
  <2>. QED
    BY <2>4, <2>5
<1>4. ASSUME NEW ok \in BOOLEAN, WorkerDone(w, ok) PROVE AccountInv'
  <2>1. PICK res \in {"ok", "err"} :
          /\ job' = [job EXCEPT ![wjob[w]] = res]
          /\ res = "ok" => processed' = processed + 1 /\ failed' = failed
          /\ res = "err" => failed' = failed + 1 /\ processed' = processed
    <3>1. CASE ok
      BY <1>4, <3>1 DEF WorkerDone
    <3>2. CASE ~ok
      BY <1>4, <3>2 DEF WorkerDone
    <3>. QED
      BY <3>1, <3>2
  <2>2. /\ wst[w] = "busy" /\ asyncCh' = asyncCh
        /\ wst' = [wst EXCEPT ![w] = "idle"] /\ wjob' = [wjob EXCEPT ![w] = Nil]
    BY <1>4 DEF WorkerDone
  <2>. DEFINE j == wjob[w]
  <2>3. j \in Jobs /\ Pushing(j) /\ ~Queued(j) /\ ~Taken(j) /\ job[j] = "queued"
    <3>1. j \in Jobs
      BY <1>0, <2>2 DEF OnceInv
    <3>2. Pushing(j)
      BY <2>2 DEF Pushing
    <3>. QED
      BY <1>0, <3>1, <3>2 DEF OnceInv
  <2>4. /\ \A x \in Jobs : Queued(x)' <=> Queued(x)
        /\ Distinct(asyncCh)'
    BY <1>0, <2>2 DEF Queued, OnceInv, Distinct
  <2>5. /\ wst'[w] = "idle" /\ \A v \in WorkerIds \ {w} : wst'[v] = wst[v] /\ wjob'[v] = wjob[v]
    BY <1>0, <2>2 DEF TypeOK
  <2>6. \A x \in Jobs : Pushing(x)' => Pushing(x) /\ x # j
    BY <1>0, <2>2, <2>5 DEF Pushing, OnceInv
  <2>7. \A x \in Jobs : x # j => job'[x] = job[x]
    BY <1>0, <2>1 DEF TypeOK
  <2>8. job'[j] = res
    BY <1>0, <2>1, <2>3 DEF TypeOK
  <2>. HIDE DEF j
  <2>9. OnceInv'
    <3>1. \A v \in WorkerIds : wst'[v] = "busy" => wjob'[v] \in Jobs
      BY <1>0, <2>5 DEF OnceInv
    <3>2. \A u, v \in WorkerIds : wst'[u] = "busy" /\ wst'[v] = "busy" /\ wjob'[u] = wjob'[v] => u = v
      BY <1>0, <2>5 DEF OnceInv
    <3>3. \A x \in Jobs : ~(Queued(x)' /\ Pushing(x)') /\ ~(Queued(x)' /\ Taken(x)')
                         /\ ~(Pushing(x)' /\ Taken(x)')
      BY <1>0, <1>2, <2>4, <2>6 DEF OnceInv
    <3>4. \A x \in Jobs : Queued(x)' \/ Pushing(x)' \/ Taken(x)' => job'[x] = "queued"
      BY <1>0, <1>2, <2>3, <2>4, <2>6, <2>7 DEF OnceInv
    <3>. QED
      BY <1>0, <1>1, <2>4, <3>1, <3>2, <3>3, <3>4 DEF OnceInv
  <2>10. StatsExact'
    <3>. DEFINE Oks  == {x \in Jobs : job[x] = "ok"}
                Errs == {x \in Jobs : job[x] = "err"}
    <3>1. IsFiniteSet(Oks) /\ IsFiniteSet(Errs) /\ j \notin Oks /\ j \notin Errs
      <4>1. Oks \in SUBSET Jobs /\ Errs \in SUBSET Jobs
        OBVIOUS
      <4>. QED
        BY <2>3, <4>1, PoolAssumption, FS_Subset
    <3>2. /\ Cardinality(Oks \cup {j}) = Cardinality(Oks) + 1
          /\ Cardinality(Errs \cup {j}) = Cardinality(Errs) + 1
      BY <3>1, FS_AddElement
    <3>3. processed = Cardinality(Oks) /\ failed = Cardinality(Errs)
      BY DEF AccountInv, StatsExact
    <3>4. /\ {x \in Jobs : job'[x] = "ok"} = IF res = "ok" THEN Oks \cup {j} ELSE Oks
          /\ {x \in Jobs : job'[x] = "err"} = IF res = "err" THEN Errs \cup {j} ELSE Errs
      BY <2>3, <2>7, <2>8
    <3>. HIDE DEF Oks, Errs
    <3>. QED
      BY <2>1, <3>2, <3>3, <3>4 DEF StatsExact
  <2>11. BatchHandsOver'
    BY <1>1, <2>3, <2>7, <2>8, PoolAssumption DEF AccountInv, BatchHandsOver
  <2>. QED
    BY <2>9, <2>10, <2>11 DEF AccountInv
<1>5. CASE ~WorkerReceive(w) /\ ~(\E ok \in BOOLEAN : WorkerDone(w, ok))
  <2>1. UNCHANGED <<asyncCh, wjob, job, processed, failed>>
    BY <1>5 DEF Worker, WorkerStart, WorkerSeesClosed, WorkerDeactivate, WorkerExit
  <2>2. \A v \in WorkerIds : wst'[v] = "busy" <=> wst[v] = "busy"
    BY <1>0, <1>5 DEF Worker, WorkerStart, WorkerSeesClosed, WorkerDeactivate,
       WorkerExit, TypeOK
  <2>3. StatsExact' /\ BatchHandsOver'
    BY <1>0, <1>1, <2>1, SameOutcomes
  <2>4. OnceInv'
    BY <1>0, <1>1, <2>1, <2>2 DEF OnceInv, Distinct, Queued, Pushing, Taken
  <2>. QED
    BY <2>3, <2>4 DEF AccountInv
<1>. QED
  BY <1>3, <1>4, <1>5

LEMMA CheckerAccount ==
  ASSUME PoolInv, DrainInv, AccountInv, NEW h \in HealthCheckers, Checker(h)
  PROVE  AccountInv'
<1>0. TypeOK /\ OnceInv
  BY DEF PoolInv, AccountInv
<1>1. UNCHANGED <<wst, wjob, batch, processed, failed>>
  BY DEF Checker, HealthCheck, HealthCheckTakes, HealthCheckEmpty,
     HealthCheckPutsBack, HealthCheckPanics, pool
<1>2. \A x \in Jobs : Pushing(x)' <=> Pushing(x)
  BY <1>1 DEF Pushing
<1>3. asyncCh \in Seq(Elts) /\ held[h] \in Elts
  BY <1>0 DEF TypeOK, Elts
<1>4. CASE HealthCheckTakes(h)
  <2>1. /\ asyncCh # <<>> /\ asyncCh' = Tail(asyncCh) /\ job' = job
        /\ held' = [held EXCEPT ![h] = Head(asyncCh)]
        /\ health' = [health EXCEPT ![h] = "holding"]
    BY <1>4 DEF HealthCheckTakes
  <2>2. StatsExact' /\ BatchHandsOver'
    BY <1>0, <1>1, <2>1, SameOutcomes
  <2>3. /\ Distinct(asyncCh)'
        /\ \A x \in Jobs : Queued(x)' => Queued(x) /\ x # Head(asyncCh)
        /\ Head(asyncCh) \in Elts
        /\ Head(asyncCh) \in Jobs => Queued(Head(asyncCh))
    BY <1>0, <2>1, HeadTaken
  <2>4. /\ held'[h] = Head(asyncCh) /\ health'[h] = "holding"
        /\ \A g \in HealthCheckers \ {h} : held'[g] = held[g] /\ health'[g] = health[g]
    BY <1>0, <2>1 DEF TypeOK
  <2>5. \A x \in Jobs : Taken(x)' => Taken(x) \/ x = Head(asyncCh)
    BY <2>4 DEF Taken
  <2>6. Head(asyncCh) \in Jobs => /\ ~Pushing(Head(asyncCh)) /\ ~Taken(Head(asyncCh))
                                 /\ job[Head(asyncCh)] = "queued"
    BY <1>0, <2>3 DEF OnceInv
  <2>7. \A g \in HealthCheckers \ {h} :
          health'[g] = "holding" /\ held'[g] \in Jobs => held'[g] # held'[h]
    BY <2>4, <2>6 DEF Taken
  <2>8. \A f, g \in HealthCheckers :
          /\ health'[f] = "holding" /\ health'[g] = "holding"
          /\ held'[f] = held'[g] /\ held'[f] \in Jobs
          => f = g
    BY <1>0, <2>4, <2>7 DEF OnceInv
  <2>9. \A x \in Jobs : ~(Queued(x)' /\ Pushing(x)') /\ ~(Queued(x)' /\ Taken(x)')
                       /\ ~(Pushing(x)' /\ Taken(x)')
    BY <1>0, <1>2, <2>3, <2>5, <2>6 DEF OnceInv
  <2>10. \A x \in Jobs : Queued(x)' \/ Pushing(x)' \/ Taken(x)' => job'[x] = "queued"
    BY <1>0, <1>2, <2>1, <2>3, <2>5, <2>6 DEF OnceInv
  <2>11. OnceInv'
    BY <1>0, <1>1, <2>3, <2>4, <2>8, <2>9, <2>10 DEF OnceInv
  <2>. QED
    BY <2>2, <2>11 DEF AccountInv
<1>5. CASE HealthCheckPutsBack(h)
  <2>1. /\ health[h] = "holding" /\ asyncCh' = Append(asyncCh, held[h]) /\ job' = job
        /\ held' = [held EXCEPT ![h] = Nil]
        /\ health' = [health EXCEPT ![h] = "ok"]
    BY <1>5 DEF HealthCheckPutsBack
  <2>2. StatsExact' /\ BatchHandsOver'
    BY <1>0, <1>1, <2>1, SameOutcomes
  <2>3. /\ health'[h] = "ok" /\ held'[h] = Nil
        /\ \A g \in HealthCheckers \ {h} : held'[g] = held[g] /\ health'[g] = health[g]
    BY <1>0, <2>1 DEF TypeOK
  <2>4. held[h] \in Jobs => /\ ~Queued(held[h]) /\ ~Pushing(held[h]) /\ job[held[h]] = "queued"
    <3>1. held[h] \in Jobs => Taken(held[h])
      BY <2>1 DEF Taken
    <3>. QED
      BY <1>0, <3>1 DEF OnceInv
  <2>5. \A x \in Jobs : Queued(x)' => Queued(x) \/ x = held[h]
    BY <1>3, <2>1, AfterSend DEF Queued
  <2>6. Distinct(Append(asyncCh, held[h]))
    BY <1>0, <1>3, <2>4, DistinctSend DEF OnceInv, Queued
  <2>7. Distinct(asyncCh)'
    BY <2>1, <2>6 DEF Distinct
  <2>8. \A x \in Jobs : Taken(x)' => Taken(x) /\ x # held[h]
    BY <1>0, <2>1, <2>3 DEF Taken, OnceInv
  <2>9. \A f, g \in HealthCheckers :
          /\ health'[f] = "holding" /\ health'[g] = "holding"
          /\ held'[f] = held'[g] /\ held'[f] \in Jobs
          => f = g
    BY <1>0, <2>3 DEF OnceInv
  <2>10. \A x \in Jobs : ~(Queued(x)' /\ Pushing(x)') /\ ~(Queued(x)' /\ Taken(x)')
                       /\ ~(Pushing(x)' /\ Taken(x)')
    BY <1>0, <1>2, <2>4, <2>5, <2>8 DEF OnceInv
  <2>11. \A x \in Jobs : Queued(x)' \/ Pushing(x)' \/ Taken(x)' => job'[x] = "queued"
    BY <1>0, <1>2, <2>1, <2>4, <2>5, <2>8 DEF OnceInv
  <2>12. OnceInv'
    BY <1>0, <1>1, <2>3, <2>7, <2>9, <2>10, <2>11 DEF OnceInv
  <2>. QED
    BY <2>2, <2>12 DEF AccountInv
<1>6. CASE HealthCheckPanics(h)
  <2>1. /\ health[h] = "holding" /\ asyncCh' = asyncCh
        /\ held' = [held EXCEPT ![h] = Nil]
        /\ health' = [health EXCEPT ![h] = "panicked"]
        /\ job' = IF held[h] = Nil THEN job ELSE [job EXCEPT ![held[h]] = "lost"]
    BY <1>6 DEF HealthCheckPanics
  <2>2. /\ health'[h] = "panicked" /\ held'[h] = Nil
        /\ \A g \in HealthCheckers \ {h} : held'[g] = held[g] /\ health'[g] = health[g]
    BY <1>0, <2>1 DEF TypeOK
  <2>3. held[h] \in Jobs => Taken(held[h])
    BY <2>1 DEF Taken
  <2>4. held[h] \in Jobs => ~Queued(held[h]) /\ ~Pushing(held[h]) /\ job[held[h]] = "queued"
    BY <1>0, <2>3 DEF OnceInv
  <2>5. /\ \A x \in Jobs : x # held[h] => job'[x] = job[x]
        /\ held[h] \in Jobs => job'[held[h]] = "lost"
    BY <1>0, <2>1, PoolAssumption DEF TypeOK
  <2>6. StatsExact' /\ BatchHandsOver'
    BY <1>0, <1>1, <2>4, <2>5, SameOutcomes
  <2>7. /\ \A x \in Jobs : Queued(x)' <=> Queued(x)
        /\ Distinct(asyncCh)'
    BY <1>0, <2>1 DEF Queued, OnceInv, Distinct
  <2>8. \A x \in Jobs : Taken(x)' => Taken(x) /\ x # held[h]
    BY <1>0, <2>1, <2>2 DEF Taken, OnceInv
  <2>9. \A f, g \in HealthCheckers :
          /\ health'[f] = "holding" /\ health'[g] = "holding"
          /\ held'[f] = held'[g] /\ held'[f] \in Jobs
          => f = g
    BY <1>0, <2>2 DEF OnceInv
  <2>10. \A x \in Jobs : Queued(x)' \/ Pushing(x)' \/ Taken(x)' => job'[x] = "queued"
    BY <1>0, <1>2, <2>4, <2>5, <2>7, <2>8 DEF OnceInv
  <2>11. OnceInv'
    BY <1>0, <1>1, <1>2, <2>2, <2>7, <2>8, <2>9, <2>10 DEF OnceInv
  <2>. QED
    BY <2>6, <2>11 DEF AccountInv
<1>7. CASE HealthCheck(h) \/ HealthCheckEmpty(h)
  <2>1. asyncCh' = asyncCh /\ job' = job /\ held' = held
    BY <1>7 DEF HealthCheck, HealthCheckEmpty
  <2>2. StatsExact' /\ BatchHandsOver'
    BY <1>0, <1>1, <2>1, SameOutcomes
  <2>3. \A g \in HealthCheckers :
          /\ health[g] = "holding" => health'[g] = "holding"
          /\ health'[g] = "holding" => health[g] = "holding" \/ held[g] = Nil
    BY <1>0, <1>7 DEF HealthCheck, HealthCheckEmpty, TypeOK, OnceInv
  <2>4. /\ \A x \in Jobs : Queued(x)' <=> Queued(x)
        /\ Distinct(asyncCh)'
    BY <1>0, <2>1 DEF Queued, OnceInv, Distinct
  <2>5. \A x \in Jobs : Taken(x)' => Taken(x)
    BY <2>1, <2>3, PoolAssumption DEF Taken
  <2>6. \A f, g \in HealthCheckers :
          /\ health'[f] = "holding" /\ health'[g] = "holding"
          /\ held'[f] = held'[g] /\ held'[f] \in Jobs
          => f = g
    BY <1>0, <2>1, <2>3, PoolAssumption DEF OnceInv
  <2>7. \A x \in Jobs : ~(Queued(x)' /\ Pushing(x)') /\ ~(Queued(x)' /\ Taken(x)')
                       /\ ~(Pushing(x)' /\ Taken(x)')
    BY <1>0, <1>2, <2>4, <2>5 DEF OnceInv
  <2>8. \A x \in Jobs : Queued(x)' \/ Pushing(x)' \/ Taken(x)' => job'[x] = "queued"
    BY <1>0, <1>2, <2>1, <2>4, <2>5 DEF OnceInv
  <2>9. \A g \in HealthCheckers : health'[g] # "holding" => held'[g] = Nil
    BY <1>0, <2>1, <2>3 DEF OnceInv
  <2>10. OnceInv'
    BY <1>0, <1>1, <2>4, <2>6, <2>7, <2>8, <2>9 DEF OnceInv
  <2>. QED
    BY <2>2, <2>10 DEF AccountInv
<1>. QED
  BY <1>4, <1>5, <1>6, <1>7 DEF Checker

LEMMA ResizerAccount ==
  ASSUME PoolInv, DrainInv, AccountInv, Resizer
  PROVE  AccountInv'
<1>0. TypeOK /\ OnceInv
  BY DEF PoolInv, AccountInv
<1>1. UNCHANGED <<health, held, job, wjob, batch, processed, failed>>
  BY DEF Resizer, SetWorkers, SetWorkersSpawn, SetWorkersStop,
     SetWorkersPanics, SetWorkersReturns, checks, pool
<1>2. asyncCh \in Seq(Elts) /\ Nil \in Elts /\ Nil \notin Jobs
  BY <1>0, PoolAssumption DEF TypeOK, Elts
<1>3. asyncCh' = asyncCh \/ asyncCh' = Append(asyncCh, Nil)
  BY DEF Resizer, SetWorkers, SetWorkersSpawn, SetWorkersStop,
     SetWorkersPanics, SetWorkersReturns
<1>4. \A x \in Jobs : Queued(x)' <=> Queued(x)
  BY <1>2, <1>3, AfterSend DEF Queued
<1>5. Distinct(Append(asyncCh, Nil))
  BY <1>0, <1>2, DistinctSend DEF OnceInv
<1>6. Distinct(asyncCh)'
  BY <1>0, <1>3, <1>5 DEF Distinct, OnceInv
<1>7. \A v \in WorkerIds : wst'[v] = "busy" <=> wst[v] = "busy"
  BY <1>0 DEF TypeOK, Resizer, SetWorkers, SetWorkersSpawn, SetWorkersStop,
     SetWorkersPanics, SetWorkersReturns, pool
<1>8. StatsExact' /\ BatchHandsOver'
  BY <1>0, <1>1, SameOutcomes
<1>9. \A x \in Jobs : (Pushing(x)' <=> Pushing(x)) /\ (Taken(x)' <=> Taken(x))
  BY <1>1, <1>7 DEF Pushing, Taken
<1>10. OnceInv'
  BY <1>0, <1>1, <1>4, <1>6, <1>7, <1>9 DEF OnceInv
<1>. QED
  BY <1>8, <1>10 DEF AccountInv

\* BatchPush, Close and a stutter touch none of the places.
LEMMA OthersAccount ==
  ASSUME PoolInv, AccountInv,
         UNCHANGED <<asyncCh, wst, wjob, job, health, held, processed, failed>>,
         batch' = batch \/ BatchPush \/ BatchPushReturns
  PROVE  AccountInv'
<1>1. OnceInv'
  BY DEF AccountInv, OnceInv, Distinct, Queued, Pushing, Taken
<1>2. StatsExact'
  BY DEF AccountInv, StatsExact
<1>3. BatchHandsOver'
  <2>1. CASE batch' = batch
    BY <2>1 DEF AccountInv, BatchHandsOver
  <2>2. CASE BatchPush
    <3>1. batch' = "nil" => Batch = {}
      BY <2>2 DEF BatchPush
    <3>. QED
      BY <3>1 DEF BatchHandsOver
  <2>3. CASE BatchPushReturns
    <3>1. batch' = "nil" => \A j \in Batch : job[j] # "syncErr"
      BY <2>3 DEF BatchPushReturns
    <3>2. \A j \in Batch : job[j] \notin {"new", "fallback", "panicked"}
      BY <2>3 DEF BatchPushReturns
    <3>. QED
      BY <3>1, <3>2 DEF BatchHandsOver
  <2>. QED
    BY <2>1, <2>2, <2>3
<1>. QED
  BY <1>1, <1>2, <1>3 DEF AccountInv

LEMMA NextAccount == PoolInv /\ DrainInv /\ AccountInv /\ [Next]_vars => AccountInv'
<1>. SUFFICES ASSUME PoolInv, DrainInv, AccountInv, [Next]_vars PROVE AccountInv'
  OBVIOUS
<1>1. CASE BatchPush \/ BatchPushReturns \/ UNCHANGED vars
  <2>1. UNCHANGED <<asyncCh, wst, wjob, job, health, held, processed, failed>>
    BY <1>1 DEF BatchPush, BatchPushReturns, vars, pool, checks
  <2>2. batch' = batch \/ BatchPush \/ BatchPushReturns
    BY <1>1 DEF vars
  <2>. QED
    BY <2>1, <2>2, OthersAccount
<1>2. ASSUME NEW c \in Closers, Closing(c) PROVE AccountInv'
  <2>1. UNCHANGED <<asyncCh, wst, wjob, job, health, held, processed, failed, batch>>
    BY <1>2 DEF Closing, Close, CloseChannel, CloseReturns, pool, checks
  <2>. QED
    BY <2>1, OthersAccount
<1>. QED
  BY <1>1, <1>2, SubmitterAccount, WorkerAccount, ResizerAccount, CheckerAccount
     DEF Next

LEMMA NewAccount == New => AccountInv
<1>. SUFFICES ASSUME New PROVE AccountInv
  OBVIOUS
<1>1. {j \in Jobs : job[j] = "ok"} = {} /\ {j \in Jobs : job[j] = "err"} = {}
  BY DEF New
<1>2. StatsExact
  BY <1>1, FS_EmptySet DEF New, StatsExact
<1>3. OnceInv /\ BatchHandsOver
  BY DEF New, OnceInv, Distinct, Queued, Pushing, Taken, BatchHandsOver
<1>. QED
  BY <1>2, <1>3 DEF AccountInv

\* Every payload of the push client is accounted for at every moment: an
\* accepted one is in exactly one place, Stats counts each asynchronous push
\* once by its outcome, and a BatchPush that returns nil has handed over all
\* of its payloads, for any numbers of jobs, workers and health checks.
THEOREM PayloadsAccounted == Spec => []JobsAccounted
<1>1. PoolInv /\ DrainInv /\ AccountInv => JobsAccounted
  BY OncePlaces DEF PoolInv, DrainInv, AccountInv, JobsAccounted
<1>. QED
  BY <1>1, NewPool, NextPool, NewDrain, NextDrain, NewAccount, NextAccount, PTL DEF Spec

-----------------------------------------------------------------------------
(***************************************************************************)
(* The timer, for any number of overlapping Start and Stop calls.          *)
(***************************************************************************)

Cleaning == {s \in Stoppers : stop[s] \in {"cleaning", "closing"}}

\* What sync.Once guarantees: one Stop cleans up, and before it is done no
\* channel has been closed.
StopOnceInv ==
  /\ stop \in [Stoppers -> {"idle", "ignored", "won", "cleaning", "closing", "returned"}]
  /\ target \in [Stoppers -> Int]
  /\ shut # {} => once = "done"
  /\ \A s \in Cleaning : once = "doing"
  /\ \A s, t \in Cleaning : s = t
  /\ closePanicked = FALSE

\* Generations are numbered as they are made; a shut one has been stopped.
SilentInv ==
  /\ made \in Nat /\ cur \in 0 .. made
  /\ shut \subseteq 0 .. made
  /\ \A s \in Stoppers : target[s] \in 0 .. made
  /\ \A g \in ticking : g \in 1 .. made
  /\ ShutIsSilent

TimerInv == StopOnceInv /\ SilentInv

LEMMA NewTimerInv == NewTimer => TimerInv
BY DEF NewTimer, TimerInv, StopOnceInv, SilentInv, ShutIsSilent, Cleaning

LEMMA StartingInv ==
  ASSUME TimerInv, NEW s \in Starters, Starting(s)
  PROVE  TimerInv'
<1>. USE DEF TimerInv, callers, loops
<1>1. StopOnceInv'
  BY DEF StopOnceInv, Cleaning, Starting, StartCAS, StartSetUp, StartSpawn
<1>2. SilentInv'
  <2>1. CASE StartSetUp(s)
    <3>1. made' = made + 1 /\ cur' = made + 1 /\ ticking' = ticking \cup {made + 1}
          /\ shut' = shut /\ stop' = stop /\ target' = target /\ made \in Nat
      BY <2>1 DEF StartSetUp, SilentInv
    <3>2. ShutIsSilent'
      BY <3>1 DEF SilentInv, ShutIsSilent
    <3>. QED
      BY <3>1, <3>2 DEF SilentInv
  <2>2. CASE StartCAS(s) \/ StartSpawn(s)
    BY <2>2 DEF StartCAS, StartSpawn, SilentInv, ShutIsSilent
  <2>. QED
    BY <2>1, <2>2 DEF Starting
<1>. QED
  BY <1>1, <1>2

LEMMA RunInv ==
  ASSUME TimerInv, NEW s \in Starters, Run(s)
  PROVE  TimerInv'
BY DEF TimerInv, StopOnceInv, SilentInv, ShutIsSilent, Cleaning, Run, RunFetch, RunTick,
       RunCallbackReturns, RunStopped, callers

LEMMA StoppingInv ==
  ASSUME TimerInv, NEW s \in Stoppers, Stopping(s)
  PROVE  TimerInv'
<1>. USE DEF TimerInv, loops
<1>1. CASE StopCAS(s)
  <2>1. StopOnceInv'
    BY <1>1 DEF StopCAS, StopOnceInv, Cleaning
  <2>2. SilentInv'
    BY <1>1 DEF StopCAS, SilentInv, ShutIsSilent, StopOnceInv
  <2>. QED
    BY <2>1, <2>2
<1>2. CASE StopOnce(s)
  <2>1. StopOnceInv'
    BY <1>2 DEF StopOnce, StopOnceInv, Cleaning
  <2>2. SilentInv'
    BY <1>2 DEF StopOnce, SilentInv, ShutIsSilent, StopOnceInv
  <2>. QED
    BY <2>1, <2>2
<1>3. CASE StopTicker(s)
  <2>1. StopOnceInv'
    BY <1>3 DEF StopTicker, StopOnceInv, Cleaning, SilentInv
  <2>2. SilentInv'
    BY <1>3 DEF StopTicker, SilentInv, ShutIsSilent, StopOnceInv
  <2>. QED
    BY <2>1, <2>2
<1>4. CASE StopClose(s)
  <2>1. shut = {} /\ s \in Cleaning
    BY <1>4 DEF StopClose, StopOnceInv, Cleaning
  <2>2. Cleaning' = {}
    BY <1>4, <2>1 DEF StopClose, StopOnceInv, Cleaning
  <2>3. closePanicked' = FALSE
    BY <1>4, <2>1 DEF StopClose, StopOnceInv
  <2>4. StopOnceInv'
    BY <1>4, <2>2, <2>3 DEF StopClose, StopOnceInv
  <2>5. SilentInv'
    BY <1>4 DEF StopClose, SilentInv, ShutIsSilent, StopOnceInv
  <2>. QED
    BY <2>4, <2>5
<1>. QED
  BY <1>1, <1>2, <1>3, <1>4 DEF Stopping, StopGoesOn

LEMMA TimerNextInv == TimerInv /\ [TimerNext]_timerVars => TimerInv'
<1>. SUFFICES ASSUME TimerInv, [TimerNext]_timerVars PROVE TimerInv'
  OBVIOUS
<1>1. CASE UNCHANGED timerVars
  BY <1>1 DEF timerVars, callers, TimerInv, StopOnceInv, SilentInv, ShutIsSilent, Cleaning
<1>. QED
  BY <1>1, StartingInv, RunInv, StoppingInv DEF TimerNext

LEMMA TimerTypeInductive == TimerTypeOK /\ [TimerNext]_timerVars => TimerTypeOK'
<1>. SUFFICES ASSUME TimerTypeOK, [TimerNext]_timerVars PROVE TimerTypeOK'
  OBVIOUS
<1>. USE DEF TimerTypeOK, Gens, callers, loops
<1>1. ASSUME NEW s \in Starters, StartCAS(s) PROVE TimerTypeOK'
  BY <1>1 DEF StartCAS
<1>2. ASSUME NEW s \in Starters, StartSetUp(s) PROVE TimerTypeOK'
  <2>1. made' = made + 1 /\ cur' = made + 1 /\ made \in Nat
        /\ ticking' = ticking \cup {made + 1} /\ UNCHANGED <<shut, seen, target, runner, stop>>
    BY <1>2 DEF StartSetUp
  <2>2. Gens' = Gens \cup {made + 1}
    BY <2>1
  <2>3. ticking' \subseteq Gens' /\ shut' \subseteq Gens' /\ cur' \in Gens'
    BY <2>1, <2>2
  <2>4. seen' \in [Starters -> {0} \cup Gens'] /\ target' \in [Stoppers -> {0} \cup Gens']
    BY <2>1, <2>2
  <2>5. /\ timerRunning' \in BOOLEAN /\ closePanicked' \in BOOLEAN /\ once' \in {"fresh", "doing", "done"}
        /\ start' \in [Starters -> {"idle", "ignored", "won", "spawning", "returned"}]
    BY <1>2 DEF StartSetUp
  <2>. QED
    BY <2>1, <2>3, <2>4, <2>5
<1>3. ASSUME NEW s \in Starters, StartSpawn(s) PROVE TimerTypeOK'
  BY <1>3 DEF StartSpawn
<1>4. ASSUME NEW s \in Starters, Run(s) PROVE TimerTypeOK'
  BY <1>4 DEF Run, RunFetch, RunTick, RunCallbackReturns, RunStopped
<1>5. ASSUME NEW s \in Stoppers, StopCAS(s) \/ StopOnce(s) \/ StopTicker(s) PROVE TimerTypeOK'
  BY <1>5 DEF StopCAS, StopOnce, StopTicker
<1>6. ASSUME NEW s \in Stoppers, StopClose(s) PROVE TimerTypeOK'
  <2>1. shut' \subseteq Gens /\ UNCHANGED <<timerRunning, made, cur, ticking, runner, seen, start, target>>
    BY <1>6 DEF StopClose
  <2>2. closePanicked' \in BOOLEAN
    BY <1>6, Zenon DEF StopClose
  <2>3. /\ once' = "done"
        /\ stop' \in [Stoppers -> {"idle", "ignored", "won", "cleaning", "closing", "returned"}]
    BY <1>6 DEF StopClose
  <2>. QED
    BY <2>1, <2>2, <2>3
<1>7. CASE UNCHANGED timerVars
  BY <1>7 DEF timerVars
<1>. QED
  BY <1>1, <1>2, <1>3, <1>4, <1>5, <1>6, <1>7 DEF TimerNext, Starting, Stopping,
     StopGoesOn

\* Every ticker, stop channel and goroutine belongs to a generation that a
\* Start has made, for any number of calls.
THEOREM TimerTypes == TimerSpec => []TimerTypeOK
<1>1. ASSUME NewTimer PROVE TimerTypeOK
  <2>1. timerRunning \in BOOLEAN /\ closePanicked \in BOOLEAN
    BY <1>1 DEF NewTimer
  <2>2. made \in Nat /\ cur \in {0} \cup Gens /\ ticking \subseteq Gens /\ shut \subseteq Gens
    BY <1>1 DEF NewTimer, Gens
  <2>3. seen \in [Starters -> {0} \cup Gens] /\ target \in [Stoppers -> {0} \cup Gens]
    BY <1>1 DEF NewTimer
  <2>4. /\ once \in {"fresh", "doing", "done"}
        /\ start \in [Starters -> {"idle", "ignored", "won", "spawning", "returned"}]
        /\ runner \in [Starters -> {"none", "fetching", "selecting", "callback", "exited"}]
        /\ stop \in [Stoppers -> {"idle", "ignored", "won", "cleaning", "closing", "returned"}]
    BY <1>1 DEF NewTimer
  <2>. QED
    BY <2>1, <2>2, <2>3, <2>4 DEF TimerTypeOK
<1>. QED
  BY <1>1, TimerTypeInductive, PTL DEF TimerSpec

\* However many Start and Stop calls overlap, stopOnce keeps every stop
\* channel from being closed twice.
THEOREM ClosedAtMostOnce == TimerSpec => []NoDoubleClose
<1>1. TimerInv => NoDoubleClose
  BY DEF TimerInv, StopOnceInv, NoDoubleClose
<1>. QED
  BY <1>1, NewTimerInv, TimerNextInv, PTL DEF TimerSpec

\* However many Start and Stop calls overlap, a ticker whose channel is
\* closed, or about to be, delivers no further tick.
THEOREM NoTickAfterStop == TimerSpec => []ShutIsSilent
<1>1. TimerInv => ShutIsSilent
  BY DEF TimerInv, SilentInv
<1>. QED
  BY <1>1, NewTimerInv, TimerNextInv, PTL DEF TimerSpec

-----------------------------------------------------------------------------
(***************************************************************************)
(* The ring buffer, for every capacity and every element type.             *)
(***************************************************************************)

RingInv == RingTypeOK /\ IndexInv

\* The k-th oldest record, by its slot.
At(k) == IF head + k <= size THEN data[head + k - 1]
                             ELSE data[head + k - 1 - size]

-----------------------------------------------------------------------------
(* Operators.                                                              *)

\* One step around the array, without the remainder.
LEMMA StepAround ==
  ASSUME NEW cap \in Nat \ {0}, NEW p \in 0 .. cap - 1
  PROVE  (p + 1) % cap = IF p + 1 = cap THEN 0 ELSE p + 1
<1>1. CASE p + 1 = cap
  BY <1>1
<1>2. CASE p + 1 # cap
  <2>1. /\ p + 1 \in Int /\ cap \in Int /\ 0 <= p + 1 /\ p + 1 < cap
    BY <1>2
  <2>. QED
    BY <2>1, <1>2
<1>. QED
  BY <1>1, <1>2

\* A slice is a sequence of the expected length.
LEMMA SliceProps ==
  ASSUME RingTypeOK, NEW lo \in 0 .. size, NEW hi \in lo .. size
  PROVE  /\ Slice(lo, hi) \in Seq(Items \cup {Zero})
         /\ Len(Slice(lo, hi)) = hi - lo
         /\ \A k \in 1 .. hi - lo : Slice(lo, hi)[k] = data[lo + k - 1]
<1>1. \A k \in 1 .. hi - lo : data[lo + k - 1] \in Items \cup {Zero}
  BY DEF RingTypeOK, Slots
<1>2. hi - lo \in Nat
  BY DEF RingTypeOK
<1>. QED
  BY <1>1, <1>2 DEF Slice

\* What GetAll returns: the records from the oldest to the newest.
LEMMA Contents ==
  ASSUME RingInv
  PROVE  GetAll = [k \in 1 .. count |-> At(k)]
<1>. USE DEF RingInv
<1>1. CASE count = 0
  BY <1>1 DEF GetAll
<1>2. CASE count # 0 /\ head < tail
  <2>1. tail = head + count /\ head \in 0 .. size /\ tail \in head .. size
    BY <1>2 DEF RingTypeOK, IndexInv, Slots
  <2>2. /\ Len(Slice(head, tail)) = tail - head
        /\ \A k \in 1 .. tail - head : Slice(head, tail)[k] = data[head + k - 1]
    BY <2>1, SliceProps
  <2>3. tail - head = count /\ \A k \in 1 .. count : head + k <= size
    BY <2>1 DEF RingTypeOK, Slots
  <2>. QED
    BY <1>2, <2>2, <2>3 DEF GetAll, CopyTo, At
<1>3. CASE count # 0 /\ ~(head < tail)
  <2>1. /\ tail = head + count - size /\ head \in 0 .. size - 1
        /\ tail \in 0 .. size - 1 /\ size \in Nat /\ count \in 0 .. size
    BY <1>3 DEF RingTypeOK, IndexInv, Slots
  <2>. DEFINE s == Slice(head, size)
              t == Slice(0, tail)
  <2>2. /\ s \in Seq(Items \cup {Zero}) /\ t \in Seq(Items \cup {Zero})
        /\ Len(s) = size - head /\ Len(t) = tail
        /\ \A k \in 1 .. size - head : s[k] = data[head + k - 1]
        /\ \A k \in 1 .. tail : t[k] = data[k - 1]
    <3>1. head \in 0 .. size /\ size \in head .. size
      BY <2>1
    <3>2. /\ s \in Seq(Items \cup {Zero}) /\ Len(s) = size - head
          /\ \A k \in 1 .. size - head : s[k] = data[head + k - 1]
      BY <3>1, SliceProps
    <3>3. 0 \in 0 .. size /\ tail \in 0 .. size
      BY <2>1
    <3>4. /\ t \in Seq(Items \cup {Zero}) /\ Len(t) = tail - 0
          /\ \A k \in 1 .. tail - 0 : t[k] = data[0 + k - 1]
      BY <3>3, SliceProps
    <3>. QED
      BY <3>2, <3>4, <2>1
  <2>. HIDE DEF s, t
  <2>3. Len(s \o t) = count /\ \A k \in 1 .. count :
           (s \o t)[k] = IF k <= Len(s) THEN s[k] ELSE t[k - Len(s)]
    <3>1. /\ Len(s \o t) = Len(s) + Len(t)
          /\ \A k \in 1 .. Len(s) + Len(t) :
                (s \o t)[k] = IF k <= Len(s) THEN s[k] ELSE t[k - Len(s)]
      BY <2>2, ConcatProperties, Zenon
    <3>2. Len(s) + Len(t) = count
      BY <2>1, <2>2
    <3>. QED
      BY <3>1, <3>2
  <2>4. \A k \in 1 .. count : (s \o t)[k] = At(k)
    BY <2>1, <2>2, <2>3 DEF At
  <2>5. GetAll = CopyTo(count, s \o t)
    BY <1>3 DEF GetAll, s, t
  <2>. QED
    BY <2>3, <2>4, <2>5 DEF CopyTo
<1>. QED
  BY <1>1, <1>2, <1>3

\* The contents are a sequence of records, of length count.
LEMMA ContentsSeq ==
  RingInv => /\ GetAll \in Seq(Items \cup {Zero})
         /\ Len(GetAll) = count
         /\ \A k \in 1 .. count : GetAll[k] = At(k)
<1>. SUFFICES ASSUME RingInv
     PROVE  /\ GetAll \in Seq(Items \cup {Zero})
            /\ Len(GetAll) = count
            /\ \A k \in 1 .. count : GetAll[k] = At(k)
  OBVIOUS
<1>1. \A k \in 1 .. count : At(k) \in Items \cup {Zero}
  BY DEF RingInv, RingTypeOK, Slots, At
<1>2. count \in Nat
  BY DEF RingInv, RingTypeOK
<1>3. GetAll = [k \in 1 .. count |-> At(k)]
  BY Contents
<1>. HIDE DEF GetAll, At
<1>. QED
  BY <1>1, <1>2, <1>3

LEMMA ContentsSeqNext ==
  RingInv' => /\ GetAll' \in Seq(Items \cup {Zero})
          /\ Len(GetAll') = count'
          /\ \A k \in 1 .. count' : GetAll'[k] = At(k)'
<1>. DEFINE P == /\ GetAll \in Seq(Items \cup {Zero})
                 /\ Len(GetAll) = count
                 /\ \A k \in 1 .. count : GetAll[k] = At(k)
<1>1. RingInv => P
  BY ContentsSeq
<1>2. RingInv' => P'
  BY <1>1, PTL
<1>. QED
  BY <1>2

-----------------------------------------------------------------------------
(* The invariant.                                                          *)

LEMMA InitInv == Init => RingInv
<1>. SUFFICES ASSUME NEW cap \in Requests, NewRingBuffer(cap)
     PROVE  RingInv
  BY DEF Init
<1>1. Capacity(cap) \in Nat \ {0}
  BY SizeAssumption DEF Capacity
<1>2. /\ size = Capacity(cap) /\ data = [p \in 0 .. size - 1 |-> Zero]
      /\ head = 0 /\ tail = 0 /\ count = 0
  BY DEF NewRingBuffer, Fresh
<1>3. panicked \in BOOLEAN
  BY DEF NewRingBuffer
<1>4. RingTypeOK
  BY <1>1, <1>2, <1>3 DEF RingTypeOK, Slots
<1>. QED
  BY <1>1, <1>2, <1>4 DEF RingInv, IndexInv

\* Where Push leaves the indices.
LEMMA PushIndices ==
  ASSUME RingInv, NEW x \in Items, Push(x)
  PROVE  /\ tail \in 0 .. size - 1
         /\ tail' = IF tail + 1 = size THEN 0 ELSE tail + 1
         /\ count' = IF count < size THEN count + 1 ELSE count
         /\ head' = IF count < size THEN head
                    ELSE IF head + 1 = size THEN 0 ELSE head + 1
<1>1. size \in Nat \ {0} /\ tail \in 0 .. size - 1 /\ head \in 0 .. size - 1
  BY DEF RingInv, RingTypeOK, Push, Slots
<1>2. (tail + 1) % size = IF tail + 1 = size THEN 0 ELSE tail + 1
  BY <1>1, StepAround
<1>3. (head + 1) % size = IF head + 1 = size THEN 0 ELSE head + 1
  BY <1>1, StepAround
<1>. QED
  BY <1>1, <1>2, <1>3 DEF Push

LEMMA PushInv ==
  ASSUME RingInv, NEW x \in Items, Push(x)
  PROVE  RingInv'
<1>1. /\ tail \in 0 .. size - 1
      /\ tail' = IF tail + 1 = size THEN 0 ELSE tail + 1
      /\ count' = IF count < size THEN count + 1 ELSE count
      /\ head' = IF count < size THEN head
                 ELSE IF head + 1 = size THEN 0 ELSE head + 1
  BY PushIndices
<1>2. RingTypeOK'
  BY <1>1 DEF RingInv, Push, RingTypeOK, Slots
<1>3. IndexInv'
  BY <1>1 DEF RingInv, Push, RingTypeOK, IndexInv, Slots
<1>. QED
  BY <1>2, <1>3 DEF RingInv

\* What Resize keeps: the newest records that fit.
LEMMA ResizeInv ==
  ASSUME RingInv, NEW cap \in Requests, Resize(cap)
  PROVE  RingInv'
<1>. DEFINE all  == GetAll
            kept == IF Len(all) > cap THEN SubSeq(all, Len(all) - cap + 1, Len(all))
                                    ELSE all
<1>1. cap \in Nat \ {0}
  BY SizeAssumption DEF Resize
<1>2. /\ kept \in Seq(Items \cup {Zero})
      /\ Len(kept) \in 0 .. cap
  BY <1>1, ContentsSeq DEF RingInv, RingTypeOK
<1>3. /\ data' = [p \in 0 .. cap - 1 |-> IF p < Len(kept) THEN kept[p + 1] ELSE Zero]
      /\ count' = Len(kept) /\ tail' = Len(kept)
      /\ head' = 0 /\ size' = cap /\ panicked' = panicked
  BY DEF Resize
<1>. HIDE DEF kept
<1>4. RingTypeOK'
  <2>1. \A p \in 0 .. cap - 1 : p < Len(kept) => kept[p + 1] \in Items \cup {Zero}
    BY <1>1, <1>2
  <2>. QED
    BY <1>1, <1>2, <1>3, <2>1 DEF RingInv, RingTypeOK, Slots
<1>5. IndexInv'
  BY <1>1, <1>2, <1>3 DEF IndexInv
<1>. QED
  BY <1>4, <1>5 DEF RingInv

LEMMA RingNextInv == RingInv /\ [RingNext]_ringVars => RingInv'
<1>. SUFFICES ASSUME RingInv, [RingNext]_ringVars PROVE RingInv'
  OBVIOUS
<1>1. CASE \E x \in Items : Push(x)
  BY <1>1, PushInv
<1>2. CASE PushPanics
  BY <1>2 DEF PushPanics, RingInv, RingTypeOK, IndexInv, Slots
<1>3. CASE \E cap \in Requests : Resize(cap)
  BY <1>3, ResizeInv
<1>4. CASE Clear
  BY <1>4 DEF Clear, RingInv, RingTypeOK, IndexInv, Slots
<1>5. CASE UNCHANGED ringVars
  BY <1>5 DEF ringVars, RingInv, RingTypeOK, IndexInv, Slots
<1>. QED
  BY <1>1, <1>2, <1>3, <1>4, <1>5 DEF RingNext

\* For every element type, capacity and sequence of calls the counters of
\* the ring buffer stay in their ranges.
THEOREM RingTypes == RingSpec => []RingTypeOK
<1>1. RingInv => RingTypeOK
  BY DEF RingInv
<1>. QED
  BY <1>1, InitInv, RingNextInv, PTL DEF RingSpec

\* head, tail and count agree on which slots hold records in every reachable
\* state, whatever Push, Resize and Clear were called in whatever order.
THEOREM IndicesAgree == RingSpec => []IndexInv
<1>1. RingInv => IndexInv
  BY DEF RingInv
<1>. QED
  BY <1>1, InitInv, RingNextInv, PTL DEF RingSpec

-----------------------------------------------------------------------------
(* The buffer implements BrinkHistory.                                     *)

LEMMA InitRefines == Init => Brink!BrinkInit
<1>. SUFFICES ASSUME NEW cap \in Requests, NewRingBuffer(cap)
     PROVE  Brink!BrinkInit
  BY DEF Init
<1>1. Capacity(cap) \in Nat \ {0}
  BY SizeAssumption DEF Capacity
<1>2. ~(tail = size)
  BY <1>1 DEF NewRingBuffer
<1>. QED
  BY <1>2 DEF NewRingBuffer, GetAll, Brink!Init, Brink!BrinkInit

\* While there is room a Push appends the record.
LEMMA PushAppends ==
  ASSUME RingInv, NEW x \in Items, Push(x), count < size
  PROVE  GetAll' = Append(GetAll, x)
<1>. DEFINE S == Items \cup {Zero}
<1>1. /\ GetAll \in Seq(S) /\ Len(GetAll) = count
      /\ \A k \in 1 .. count : GetAll[k] = At(k)
  BY ContentsSeq
<1>2. /\ GetAll' \in Seq(S) /\ Len(GetAll') = count'
      /\ \A k \in 1 .. count' : GetAll'[k] = At(k)'
  BY PushInv, ContentsSeqNext
<1>3. /\ count' = count + 1 /\ head' = head /\ size' = size
      /\ data' = [data EXCEPT ![tail] = x] /\ tail \in 0 .. size - 1
      /\ count \in 0 .. size /\ head \in 0 .. size - 1 /\ size \in Nat
      /\ data \in [0 .. size - 1 -> S]
  <2>1. tail \in 0 .. size - 1 /\ count' = count + 1 /\ head' = head
    BY PushIndices
  <2>. QED
    BY <2>1 DEF Push, RingInv, RingTypeOK, Slots
<1>4. tail = head + count \/ tail = head + count - size
  BY DEF RingInv, IndexInv
<1>5. \A k \in 1 .. count + 1 : At(k)' = IF k <= count THEN At(k) ELSE x
  BY <1>3, <1>4 DEF At
<1>6. /\ Append(GetAll, x) \in Seq(S)
      /\ Len(Append(GetAll, x)) = count + 1
      /\ \A k \in 1 .. count : Append(GetAll, x)[k] = GetAll[k]
      /\ Append(GetAll, x)[count + 1] = x
  BY <1>1, AppendProperties
<1>7. \A k \in 1 .. count + 1 : GetAll'[k] = Append(GetAll, x)[k]
  <2>. TAKE k \in 1 .. count + 1
  <2>1. GetAll'[k] = At(k)'
    BY <1>2, <1>3
  <2>2. CASE k <= count
    <3>1. k \in 1 .. count
      BY <2>2, <1>3
    <3>. QED
      BY <2>1, <2>2, <3>1, <1>1, <1>5, <1>6
  <2>3. CASE ~(k <= count)
    <3>1. k = count + 1
      BY <2>3, <1>3
    <3>2. At(k)' = x
      BY <2>3, <1>5
    <3>. QED
      BY <2>1, <3>1, <3>2, <1>6
  <2>. QED
    BY <2>2, <2>3
<1>. QED
  BY <1>2, <1>3, <1>6, <1>7, SeqEqual

\* When the buffer is full it also drops the oldest record.
LEMMA PushReplacesOldest ==
  ASSUME RingInv, NEW x \in Items, Push(x), ~(count < size)
  PROVE  GetAll' = SubSeq(Append(GetAll, x), 2, size + 1)
<1>. DEFINE S == Items \cup {Zero}
            a == Append(GetAll, x)
<1>1. /\ GetAll \in Seq(S) /\ Len(GetAll) = count
      /\ \A k \in 1 .. count : GetAll[k] = At(k)
  BY ContentsSeq
<1>2. /\ GetAll' \in Seq(S) /\ Len(GetAll') = count'
      /\ \A k \in 1 .. count' : GetAll'[k] = At(k)'
  BY PushInv, ContentsSeqNext
<1>3. /\ count' = count /\ count = size /\ size' = size /\ count \in Nat
      /\ head' = IF head + 1 = size THEN 0 ELSE head + 1
      /\ data' = [data EXCEPT ![tail] = x] /\ tail \in 0 .. size - 1
      /\ tail = head
  BY PushIndices DEF Push, RingInv, RingTypeOK, IndexInv, Slots
<1>4. \A k \in 1 .. count - 1 : At(k)' = At(k + 1)
  BY <1>3 DEF At, RingInv, RingTypeOK, Slots
<1>5. At(count)' = x
  BY <1>3 DEF At, RingInv, RingTypeOK, Slots
<1>6. /\ a \in Seq(S) /\ Len(a) = count + 1
      /\ \A k \in 1 .. count : a[k] = GetAll[k]
      /\ a[count + 1] = x
  BY <1>1, AppendProperties
<1>. HIDE DEF a
<1>7. /\ SubSeq(a, 2, size + 1) \in Seq(S)
      /\ Len(SubSeq(a, 2, size + 1)) = size
      /\ \A k \in 1 .. size : SubSeq(a, 2, size + 1)[k] = a[k + 1]
  BY <1>3, <1>6
<1>8. \A k \in 1 .. count - 1 : GetAll'[k] = a[k + 1]
  <2>. TAKE k \in 1 .. count - 1
  <2>1. k \in 1 .. count' /\ k + 1 \in 1 .. count
    BY <1>3
  <2>2. GetAll'[k] = At(k)' /\ GetAll[k + 1] = At(k + 1)
    BY <2>1, <1>1, <1>2
  <2>. QED
    BY <2>1, <2>2, <1>4, <1>6
<1>9. GetAll'[count] = a[count + 1]
  BY <1>2, <1>3, <1>5, <1>6 DEF RingInv, RingTypeOK
<1>10. \A k \in 1 .. size : GetAll'[k] = SubSeq(a, 2, size + 1)[k]
  BY <1>3, <1>7, <1>8, <1>9
<1>. QED
  BY <1>2, <1>3, <1>7, <1>10, SeqEqual DEF a

LEMMA PushRefines ==
  ASSUME RingInv, NEW x \in Items, Push(x)
  PROVE  Brink!Accept(x)
<1>1. Len(Append(GetAll, x)) = count + 1 /\ count \in 0 .. size /\ size \in Nat
  BY ContentsSeq, AppendProperties DEF RingInv, RingTypeOK
<1>2. size' = size
  BY DEF Push
<1>3. GetAll' = Brink!Newest(Append(GetAll, x), size)
  <2>1. CASE count < size
    BY <2>1, <1>1, PushAppends DEF Brink!Newest
  <2>2. CASE ~(count < size)
    BY <2>2, <1>1, PushReplacesOldest DEF Brink!Newest
  <2>. QED
    BY <2>1, <2>2
<1>4. panicked' = panicked /\ ~(tail = size)
  BY DEF Push, Slots
<1>5. ~(tail = size)'
  <2>1. tail' = (tail + 1) % size /\ tail \in Int /\ size \in Nat \ {0}
    BY DEF Push, RingInv, RingTypeOK
  <2>2. tail' \in 0 .. size - 1
    BY <2>1
  <2>. QED
    BY <1>2, <2>1, <2>2
<1>. QED
  BY <1>2, <1>3, <1>4, <1>5 DEF Brink!Record, Brink!Accept

LEMMA ResizeRefines ==
  ASSUME RingInv, NEW cap \in Requests, Resize(cap)
  PROVE  Brink!ChangeCapacity(cap)
<1>. DEFINE S == Items \cup {Zero}
            all == GetAll
            kept == IF Len(all) > cap THEN SubSeq(all, Len(all) - cap + 1, Len(all))
                                    ELSE all
<1>1. cap \in Nat \ {0}
  BY SizeAssumption DEF Resize
<1>2. /\ kept \in Seq(S) /\ Len(kept) \in 0 .. cap
      /\ kept = Brink!Newest(GetAll, cap)
  BY <1>1, ContentsSeq DEF Brink!Newest, RingInv, RingTypeOK
<1>3. /\ data' = [p \in 0 .. cap - 1 |-> IF p < Len(kept) THEN kept[p + 1] ELSE Zero]
      /\ count' = Len(kept) /\ head' = 0 /\ size' = cap
  BY DEF Resize
<1>4. /\ GetAll' \in Seq(S) /\ Len(GetAll') = count'
      /\ \A k \in 1 .. count' : GetAll'[k] = At(k)'
  BY ResizeInv, ContentsSeqNext
<1>. HIDE DEF kept
<1>5. \A k \in 1 .. Len(kept) : At(k)' = kept[k]
  BY <1>1, <1>2, <1>3 DEF At
<1>6. GetAll' = kept
  BY <1>2, <1>3, <1>4, <1>5, SeqEqual
<1>7. tail' = Len(kept) /\ panicked' = panicked /\ cap # size
  BY DEF Resize, kept
<1>8. Len(kept) = cap <=> Len(GetAll) >= cap
  BY <1>1, ContentsSeq DEF kept, RingInv, RingTypeOK
<1>. QED
  BY <1>2, <1>3, <1>6, <1>7, <1>8 DEF Brink!SetCapacity, Brink!ChangeCapacity

LEMMA NextRefines == RingInv /\ [RingNext]_ringVars => [Brink!BrinkNext]_(Brink!brinkVars)
<1>. SUFFICES ASSUME RingInv, [RingNext]_ringVars PROVE [Brink!BrinkNext]_(Brink!brinkVars)
  OBVIOUS
<1>1. CASE \E x \in Items : Push(x)
  BY <1>1, PushRefines DEF Brink!BrinkNext
<1>2. CASE \E cap \in Requests : Resize(cap)
  <2>1. PICK cap \in Requests : Resize(cap)
    BY <1>2
  <2>2. cap \in {Capacity(m) : m \in Requests}
    BY <2>1, SizeAssumption DEF Resize, Capacity
  <2>. QED
    BY <2>1, <2>2, ResizeRefines DEF Brink!BrinkNext
<1>3. CASE Clear
  <2>0. ~(tail = size)'
    BY <1>3 DEF Clear, RingInv, RingTypeOK
  <2>1. Brink!Clean
    BY <1>3, <2>0 DEF Clear, GetAll, Brink!Forget, Brink!Clean
  <2>. QED
    BY <2>1 DEF Brink!BrinkNext
<1>4. CASE PushPanics
  <2>1. UNCHANGED <<data, size, head, tail, count>> /\ panicked' = TRUE
    BY <1>4 DEF PushPanics
  <2>2. GetAll' = GetAll
    BY <2>1 DEF GetAll, CopyTo, Slice
  <2>3. tail = size
    BY <1>4 DEF PushPanics, Slots, RingInv, RingTypeOK
  <2>4. Brink!Refuse
    BY <2>1, <2>2, <2>3 DEF Brink!Refuse
  <2>. QED
    BY <2>4 DEF Brink!BrinkNext
<1>5. CASE UNCHANGED ringVars
  <2>1. UNCHANGED <<data, size, head, tail, count>>
    BY <1>5 DEF ringVars
  <2>2. GetAll' = GetAll
    BY <2>1 DEF GetAll, CopyTo, Slice
  <2>3. UNCHANGED panicked
    BY <1>5 DEF ringVars
  <2>. QED
    BY <2>1, <2>2, <2>3 DEF Brink!brinkVars
<1>. QED
  BY <1>1, <1>2, <1>3, <1>4, <1>5 DEF RingNext

\* Seen through GetAll, the ring buffer is a bounded history with the brink: for
\* every capacity each Push stores its record and drops at most the oldest one,
\* except that it panics, storing nothing, exactly while the last Resize has
\* filled the array and nothing was cleared since; Resize keeps the newest.
THEOREM Refinement == RingSpec => RefinesBrinkHistory
<1>. QED
  BY InitInv, RingNextInv, InitRefines, NextRefines, PTL
     DEF RingSpec, RefinesBrinkHistory, Brink!BrinkSpec

-----------------------------------------------------------------------------
(* GetLast and GetAll.                                                     *)

\* Less than two turns around the array, without the remainder.
LEMMA TwoTurns ==
  ASSUME NEW cap \in Nat \ {0}, NEW p \in 0 .. 2 * cap - 1
  PROVE  p % cap = IF p < cap THEN p ELSE p - cap
<1>1. CASE p < cap
  BY <1>1
<1>2. CASE ~(p < cap)
  <2>1. p = cap * 1 + (p - cap) /\ 0 <= p - cap /\ p - cap < cap
    BY <1>2
  <2>. QED
    BY <1>2, <2>1
<1>. QED
  BY <1>1, <1>2

\* A copy of two slices, one after the other.
LEMMA CopyTwo ==
  ASSUME NEW s \in Seq(Items \cup {Zero}), NEW t \in Seq(Items \cup {Zero})
  PROVE  CopyTo(Len(s) + Len(t), s \o t)
           = [k \in 1 .. Len(s) + Len(t) |-> IF k <= Len(s) THEN s[k] ELSE t[k - Len(s)]]
<1>1. /\ Len(s \o t) = Len(s) + Len(t)
      /\ \A k \in 1 .. Len(s) + Len(t) :
            (s \o t)[k] = IF k <= Len(s) THEN s[k] ELSE t[k - Len(s)]
  BY ConcatProperties, Zenon
<1>2. Len(s) \in Nat /\ Len(t) \in Nat
  OBVIOUS
<1>. QED
  BY <1>1, <1>2 DEF CopyTo

\* What GetLast returns when it returns m records: those before tail.
LEMMA LastContents ==
  ASSUME RingInv, NEW cap \in Int, cap > 0, count # 0,
         NEW m \in Nat, m = IF cap >= count THEN count ELSE cap
  PROVE  GetLast(cap) = [k \in 1 .. m |-> At(count - m + k)]
<1>1. /\ size \in Nat \ {0} /\ head \in 0 .. size - 1 /\ tail \in 0 .. size
      /\ count \in 1 .. size /\ m \in 1 .. count
  BY DEF RingInv, RingTypeOK, Slots
<1>2. IndexInv
  BY DEF RingInv
<1>. DEFINE from == (tail - m + size) % size
<1>3. from = IF m <= tail THEN tail - m ELSE tail - m + size
  <2>1. tail - m + size \in 0 .. 2 * size - 1
    BY <1>1
  <2>2. from = IF tail - m + size < size THEN tail - m + size ELSE (tail - m + size) - size
    BY <1>1, <2>1, TwoTurns
  <2>. QED
    BY <1>1, <2>2
<1>4. GetLast(cap) = CopyTo(m, IF from + m <= size THEN Slice(from, from + m)
                             ELSE Slice(from, size) \o Slice(0, m - (size - from)))
  BY <1>1 DEF GetLast
<1>. HIDE DEF from
<1>5. from \in 0 .. size - 1
  BY <1>1, <1>3
<1>6. \A k \in 1 .. m : At(count - m + k) = IF from + k <= size THEN data[from + k - 1]
                                                         ELSE data[from + k - 1 - size]
  <2>. SUFFICES ASSUME NEW k \in 1 .. m
                PROVE  At(count - m + k) = IF from + k <= size THEN data[from + k - 1]
                                                                ELSE data[from + k - 1 - size]
    OBVIOUS
  <2>1. \/ /\ head + (count - m + k) = from + k
        \/ /\ head + (count - m + k) = from + k + size
           /\ from + k <= size
    BY <1>1, <1>2, <1>3 DEF IndexInv
  <2>2. from + k \in 1 .. 2 * size /\ head + (count - m + k) \in 1 .. 2 * size
    BY <1>1, <1>5
  <2>. QED
    BY <1>1, <2>1, <2>2, <1>5 DEF At
<1>7. CASE from + m <= size
  <2>1. /\ Len(Slice(from, from + m)) = (from + m) - from
        /\ \A k \in 1 .. (from + m) - from : Slice(from, from + m)[k] = data[from + k - 1]
    <3>1. from \in 0 .. size /\ from + m \in from .. size
      BY <1>1, <1>5, <1>7
    <3>. QED
      BY <3>1, SliceProps DEF RingInv
  <2>2. (from + m) - from = m /\ \A k \in 1 .. m : from + k <= size
    BY <1>1, <1>5, <1>7
  <2>3. GetLast(cap) = CopyTo(m, Slice(from, from + m))
    BY <1>4, <1>7
  <2>. QED
    BY <1>6, <2>1, <2>2, <2>3 DEF CopyTo
<1>8. CASE ~(from + m <= size)
  <2>. DEFINE s == Slice(from, size)
              t == Slice(0, m - (size - from))
  <2>1. /\ s \in Seq(Items \cup {Zero}) /\ Len(s) = size - from
        /\ \A k \in 1 .. size - from : s[k] = data[from + k - 1]
    <3>1. from \in 0 .. size /\ size \in from .. size
      BY <1>1, <1>5
    <3>. QED
      BY <3>1, SliceProps DEF RingInv
  <2>2. /\ t \in Seq(Items \cup {Zero}) /\ Len(t) = m - (size - from)
        /\ \A k \in 1 .. m - (size - from) : t[k] = data[k - 1]
    <3>1. 0 \in 0 .. size /\ m - (size - from) \in 0 .. size
      BY <1>1, <1>5, <1>8
    <3>2. /\ t \in Seq(Items \cup {Zero}) /\ Len(t) = (m - (size - from)) - 0
          /\ \A k \in 1 .. (m - (size - from)) - 0 : t[k] = data[0 + k - 1]
      BY <3>1, SliceProps DEF RingInv
    <3>. QED
      BY <3>2, <1>1, <1>5
  <2>3. GetLast(cap) = CopyTo(m, s \o t)
    BY <1>4, <1>8
  <2>. HIDE DEF s, t
  <2>4. Len(s) + Len(t) = m
    BY <1>1, <1>5, <2>1, <2>2
  <2>5. GetLast(cap) = [k \in 1 .. m |-> IF k <= Len(s) THEN s[k] ELSE t[k - Len(s)]]
    BY <2>1, <2>2, <2>3, <2>4, CopyTwo
  <2>6. ASSUME NEW k \in 1 .. m
        PROVE  (IF k <= Len(s) THEN s[k] ELSE t[k - Len(s)]) = At(count - m + k)
    <3>1. CASE k <= Len(s)
      <4>1. k \in 1 .. size - from /\ from + k <= size
        BY <1>1, <1>5, <2>1, <3>1
      <4>. QED
        BY <1>6, <2>1, <3>1, <4>1
    <3>2. CASE ~(k <= Len(s))
      <4>1. k - Len(s) \in 1 .. m - (size - from) /\ ~(from + k <= size)
            /\ (k - Len(s)) - 1 = from + k - 1 - size
        BY <1>1, <1>5, <2>1, <3>2
      <4>2. t[k - Len(s)] = data[from + k - 1 - size]
        BY <2>2, <4>1
      <4>. QED
        BY <1>6, <3>2, <4>1, <4>2
    <3>. QED
      BY <3>1, <3>2
  <2>. QED
    BY <2>5, <2>6
<1>. QED
  BY <1>7, <1>8

LEMMA LastFollows == RingInv => LastIsSuffix
<1>. SUFFICES ASSUME RingInv, NEW cap \in -1 .. size + 1
     PROVE  GetLast(cap) = LET all == GetAll
                             m   == IF cap < 0 THEN 0 ELSE cap
                         IN  IF Len(all) <= m THEN all
                             ELSE SubSeq(all, Len(all) - m + 1, Len(all))
  BY DEF LastIsSuffix
<1>1. /\ GetAll \in Seq(Items \cup {Zero}) /\ Len(GetAll) = count /\ count \in Nat
      /\ \A k \in 1 .. count : GetAll[k] = At(k)
  BY ContentsSeq DEF RingInv, RingTypeOK
<1>2. cap \in Int
  BY DEF RingInv, RingTypeOK
<1>3. CASE count = 0
  <2>1. GetLast(cap) = <<>> /\ GetAll = <<>>
    BY <1>3 DEF GetLast, GetAll
  <2>. QED
    BY <1>2, <2>1
<1>4. CASE count # 0 /\ cap <= 0
  <2>1. GetLast(cap) = <<>>
    BY <1>4 DEF GetLast
  <2>2. SubSeq(GetAll, count - 0 + 1, count) = <<>>
    BY <1>1
  <2>. QED
    BY <1>1, <1>2, <1>4, <2>1, <2>2
<1>5. CASE count # 0 /\ cap > 0
  <2>1. PICK m \in Nat : m = IF cap >= count THEN count ELSE cap
    BY <1>1, <1>2, <1>5
  <2>2. GetLast(cap) = [k \in 1 .. m |-> At(count - m + k)]
    BY <1>2, <1>5, <2>1, LastContents
  <2>3. CASE cap >= count
    <3>1. m = count /\ \A k \in 1 .. m : count - m + k = k
      BY <1>1, <2>1, <2>3
    <3>2. GetLast(cap) = [k \in 1 .. count |-> At(k)]
      BY <2>2, <3>1
    <3>3. GetLast(cap) = GetAll
      BY <3>2, Contents
    <3>. QED
      BY <1>1, <1>2, <1>5, <2>3, <3>3
  <2>4. CASE cap < count
    <3>1. m = cap /\ m \in 1 .. count
      BY <1>1, <1>2, <1>5, <2>1, <2>4
    <3>. DEFINE last == SubSeq(GetAll, count - m + 1, count)
    <3>2. last = [k \in 1 .. m |-> GetAll[count - m + k]]
      BY <1>1, <3>1
    <3>3. \A k \in 1 .. m : GetAll[count - m + k] = At(count - m + k)
      BY <1>1, <3>1
    <3>4. GetLast(cap) = last
      BY <2>2, <3>2, <3>3
    <3>. QED
      BY <1>1, <1>2, <1>5, <2>4, <3>1, <3>4
  <2>. QED
    BY <1>1, <1>2, <2>3, <2>4
<1>. QED
  BY <1>1, <1>2, <1>3, <1>4, <1>5

\* GetLast, which walks back from tail, and GetAll, which walks forward from
\* head, agree on the contents of the ring buffer after any calls, for every
\* capacity and every number of records asked for.
THEOREM LastAgrees == RingSpec => []LastIsSuffix
BY InitInv, RingNextInv, LastFollows, PTL DEF RingSpec

(***************************************************************************)
(* The metrics, for any names, shards, callers and values, and for both    *)
(* collectors.                                                             *)
(***************************************************************************)

Cell == [name : Names, accum : Int, sent : Int]

\* Metric o is the only one that was ever registered under its name, ...
Sole(o) == \A p \in 1 .. Len(heap) : heap[p].name = heap[o].name => p = o

\* ... and what was reported of it and what is pending are what was changed.
Whole(o) ==
  /\ told[heap[o].name] + heap[o].accum - heap[o].sent = changed[heap[o].name]
  /\ heap[o].accum = InitVal + changed[heap[o].name]

Unknown(nm) == \A o \in 1 .. Len(heap) : heap[o].name # nm

\* The metrics.
MemInv ==
  /\ heap \in Seq(Cell) /\ changed \in [Names -> Int] /\ told \in [Names -> Int]
  /\ \A o \in 1 .. Len(heap) : Sole(o) => Whole(o)
  /\ \A nm \in Names : Unknown(nm) => changed[nm] = 0 /\ told[nm] = 0

\* Steps that register nothing.
NamesKept ==
  /\ Len(heap') = Len(heap)
  /\ \A o \in 1 .. Len(heap) : heap'[o].name = heap[o].name

\* The callers: a metric that was loaded exists, also when its name has been
\* registered again since.
RangeCalls(l) == [op : RangeOps, todo : SUBSET (Names \cup Shards), obj : 0 .. l]
Calls(l) == {Free} \cup [op : UpdateOps, obj : 1 .. l] \cup RangeCalls(l)

CallInv ==
  /\ impl \in {"map", "sharded"} /\ ops \in 0 .. MaxOps
  /\ metricOf \in [Names -> 0 .. Len(heap)]
  /\ \A nm \in Names : metricOf[nm] # 0 => heap[metricOf[nm]].name = nm
  /\ call \in [Callers -> Calls(Len(heap))]

Inv == MemInv /\ CallInv

-----------------------------------------------------------------------------
(* The effects on the metrics.                                             *)

LEMMA FunctionIsSeq ==
  ASSUME NEW S, NEW l \in Nat, NEW f \in [1 .. l -> S]
  PROVE  f \in Seq(S) /\ Len(f) = l
<1>1. f \in Seq(S)
  BY SeqDef
<1>. QED
  BY <1>1, LenProperties

LEMMA SeqIsFunction ==
  ASSUME NEW S, NEW s \in Seq(S)
  PROVE  s \in [1 .. Len(s) -> S] /\ Len(s) \in Nat /\ DOMAIN s = 1 .. Len(s)
BY LenProperties

LEMMA MemTypes ==
  ASSUME MemInv
  PROVE  /\ Len(heap) \in Nat
         /\ heap \in [1 .. Len(heap) -> Cell]
         /\ DOMAIN heap = 1 .. Len(heap)
         /\ \A o \in 1 .. Len(heap) : heap[o].name \in Names /\ heap[o].accum \in Int /\ heap[o].sent \in Int
         /\ changed \in [Names -> Int] /\ told \in [Names -> Int]
<1>1. /\ Len(heap) \in Nat
      /\ heap \in [1 .. Len(heap) -> Cell]
      /\ DOMAIN heap = 1 .. Len(heap)
  BY SeqIsFunction DEF MemInv
<1>. QED
  BY <1>1 DEF MemInv, Cell

\* From functions back to sequences, when the names stay.
LEMMA MemBack ==
  ASSUME Len(heap) \in Nat,
         heap' \in [1 .. Len(heap) -> Cell], changed' \in [Names -> Int], told' \in [Names -> Int],
         \A o \in 1 .. Len(heap) : heap'[o].name = heap[o].name,
         \A o \in 1 .. Len(heap) : Sole(o) => Whole(o)',
         \A nm \in Names : Unknown(nm) => changed'[nm] = 0 /\ told'[nm] = 0
  PROVE  MemInv' /\ NamesKept
<1>1. heap' \in Seq(Cell) /\ Len(heap') = Len(heap)
  BY FunctionIsSeq
<1>2. \A o \in 1 .. Len(heap) : Sole(o)' => Sole(o)
  BY <1>1 DEF Sole
<1>3. \A nm \in Names : Unknown(nm)' => Unknown(nm)
  BY <1>1 DEF Unknown
<1>. QED
  BY <1>1, <1>2, <1>3 DEF MemInv, NamesKept

LEMMA UpdatedInt ==
  ASSUME NEW m \in Cell, NEW op \in UpdateOps, NEW v \in Int
  PROVE  Updated(op, m, v) \in Int
<1>. m.accum \in Int /\ Step \in Int /\ MinVal \in Int /\ MaxVal \in Int
  BY MetricsAssumption DEF Cell
<1>. QED
  BY DEF Updated, UpdateOps, Least, Greatest

LEMMA UpdateMem ==
  ASSUME MemInv, NEW o \in 1 .. Len(heap), NEW op \in UpdateOps, NEW v \in Int, Update(o, op, v)
  PROVE  MemInv' /\ NamesKept
<1>. DEFINE l == Len(heap)
            x == Updated(op, heap[o], v)
            m == heap[o].name
<1>1. /\ l \in Nat /\ heap \in [1 .. l -> Cell] /\ o \in 1 .. l /\ m \in Names
      /\ changed \in [Names -> Int] /\ told \in [Names -> Int]
      /\ \A k \in 1 .. l : heap[k].name \in Names /\ heap[k].accum \in Int /\ heap[k].sent \in Int
  BY MemTypes
<1>2. x \in Int /\ InitVal \in Int
  BY <1>1, UpdatedInt, MetricsAssumption
<1>3. heap' = [heap EXCEPT ![o].accum = x] /\ told' = told
      /\ changed' = [changed EXCEPT ![m] = @ + heap'[o].accum - heap[o].accum]
  BY DEF Update
<1>4. \A k \in 1 .. l : Sole(k) => Whole(k)
  BY DEF MemInv
<1>5. \A nm \in Names : Unknown(nm) => changed[nm] = 0 /\ told[nm] = 0 /\ nm # m
  BY <1>1 DEF MemInv, Unknown
<1>6. \A k \in 1 .. l : Sole(k) /\ heap[k].name = m => k = o
  BY DEF Sole
<1>. HIDE DEF l, x
<1>7. heap' \in [1 .. l -> Cell] /\ heap'[o].accum = x /\ heap'[o].sent = heap[o].sent
      /\ heap'[o].name = m /\ \A k \in 1 .. l : k # o => heap'[k] = heap[k]
  BY <1>1, <1>2, <1>3 DEF Cell
<1>. HIDE DEF m
<1>8. changed' \in [Names -> Int] /\ changed'[m] = changed[m] + x - heap[o].accum
      /\ \A nm \in Names : nm # m => changed'[nm] = changed[nm]
  BY <1>1, <1>2, <1>3, <1>7
<1>9. ASSUME NEW k \in 1 .. l, Sole(k) PROVE Whole(k)'
  <2>1. Whole(k)
    BY <1>4, <1>9
  <2>2. CASE k = o
    <3>1. told[m] + heap[o].accum - heap[o].sent = changed[m] /\ heap[o].accum = InitVal + changed[m]
      BY <2>1, <2>2 DEF Whole, m
    <3>2. PICK a \in Int, s \in Int, g \in Int, t \in Int :
             heap[o].accum = a /\ heap[o].sent = s /\ changed[m] = g /\ told[m] = t
      BY <1>1, Zenon
    <3>3. t + a - s = g /\ a = InitVal + g
      BY <3>1, <3>2, Zenon
    <3>4. t + x - s = g + x - a /\ x = InitVal + (g + x - a)
      BY <1>2, <3>3
    <3>5. told'[m] = t /\ heap'[o].accum = x /\ heap'[o].sent = s /\ changed'[m] = g + x - a
      BY <1>3, <1>7, <1>8, <3>2, Zenon
    <3>6. told'[m] + heap'[o].accum - heap'[o].sent = changed'[m] /\ heap'[o].accum = InitVal + changed'[m]
      BY <3>4, <3>5, Zenon
    <3>. QED
      BY <1>7, <2>2, <3>6, Zenon DEF Whole
  <2>3. CASE k # o
    <3>1. heap[k].name # m /\ heap'[k] = heap[k]
      BY <1>6, <1>7, <1>9, <2>3
    <3>2. changed'[heap[k].name] = changed[heap[k].name]
      BY <1>1, <1>8, <3>1
    <3>. QED
      BY <1>3, <2>1, <3>1, <3>2, Zenon DEF Whole
  <2>. QED
    BY <2>2, <2>3
<1>10. \A k \in 1 .. l : heap'[k].name = heap[k].name
  BY <1>7 DEF m
<1>11. \A nm \in Names : Unknown(nm) => changed'[nm] = 0 /\ told'[nm] = 0
  BY <1>3, <1>5, <1>8
<1>12. l = Len(heap) /\ told' \in [Names -> Int]
  BY <1>1, <1>3 DEF l
<1>. QED
  BY <1>1, <1>7, <1>8, <1>9, <1>10, <1>11, <1>12, MemBack

\* A metric that is alone under its name is the one of its name in O, or none is.
LEMMA SoleCalled ==
  ASSUME MemInv, NEW O \in SUBSET (1 .. Len(heap)), NEW k \in 1 .. Len(heap), Sole(k)
  PROVE  Called(O, heap[k].name) = IF k \in O THEN {k} ELSE {}
<1>1. \A o \in O : heap[o].name = heap[k].name <=> o = k
  BY DEF Sole
<1>. QED
  BY <1>1 DEF Called

LEMMA UnknownCalled ==
  ASSUME NEW O \in SUBSET (1 .. Len(heap)), NEW nm, Unknown(nm)
  PROVE  Called(O, nm) = {}
BY DEF Called, Unknown

LEMMA MarkMem ==
  ASSUME MemInv, NEW O \in SUBSET (1 .. Len(heap)), Mark(O)
  PROVE  MemInv' /\ NamesKept
<1>. DEFINE l == Len(heap)
            d(nm) == CHOOSE o \in Called(O, nm) : TRUE
<1>1. /\ l \in Nat /\ heap \in [1 .. l -> Cell] /\ DOMAIN heap = 1 .. l /\ l = Len(heap)
      /\ changed \in [Names -> Int] /\ told \in [Names -> Int]
      /\ \A k \in 1 .. l : heap[k].name \in Names /\ heap[k].accum \in Int /\ heap[k].sent \in Int
  BY MemTypes
<1>2. \A k \in 1 .. l : Sole(k) => Whole(k) /\ Called(O, heap[k].name) = IF k \in O THEN {k} ELSE {}
  BY SoleCalled DEF MemInv
<1>3. \A nm \in Names : Unknown(nm) => changed[nm] = 0 /\ told[nm] = 0 /\ Called(O, nm) = {}
  BY UnknownCalled DEF MemInv
<1>. HIDE DEF l
<1>4. heap' \in [1 .. l -> Cell] /\ changed' = changed /\ \A k \in 1 .. l : heap'[k].name = heap[k].name
  BY <1>1 DEF Mark, Cell
<1>5. told' = [nm \in Names |-> IF Called(O, nm) # {} THEN told[nm] + Delta(d(nm)) ELSE told[nm]]
  BY DEF Mark
<1>6. told' \in [Names -> Int]
  <2>1. \A nm \in Names : Called(O, nm) # {} => d(nm) \in 1 .. l
    BY <1>1 DEF Called
  <2>. HIDE DEF d
  <2>2. \A nm \in Names : Called(O, nm) # {} => told[nm] + Delta(d(nm)) \in Int
    BY <1>1, <2>1 DEF Delta
  <2>. QED
    BY <1>1, <1>5, <2>2
<1>7. ASSUME NEW k \in 1 .. l, Sole(k) PROVE Whole(k)'
  <2>0. heap[k].name \in Names /\ heap[k].accum \in Int /\ heap[k].sent \in Int
        /\ told[heap[k].name] \in Int /\ changed[heap[k].name] \in Int
    BY <1>1
  <2>1. CASE k \in O
    <3>1. Called(O, heap[k].name) = {k}
      BY <1>2, <1>7, <2>1
    <3>2. d(heap[k].name) = k /\ Called(O, heap[k].name) # {}
      BY <3>1
    <3>. HIDE DEF d
    <3>3. told'[heap[k].name] = told[heap[k].name] + Delta(k)
      BY <1>5, <2>0, <3>2
    <3>4. heap'[k].accum = heap[k].accum /\ heap'[k].sent = heap[k].accum
      BY <1>1, <2>1 DEF Mark, Cell
    <3>5. PICK a \in Int, s \in Int, g \in Int, t \in Int :
             heap[k].accum = a /\ heap[k].sent = s
             /\ changed[heap[k].name] = g /\ told[heap[k].name] = t
      BY <2>0, Zenon
    <3>6. t + a - s = g /\ a = InitVal + g
      <4>1. Whole(k)
        BY <1>2, <1>7
      <4>. QED
        BY <3>5, <4>1, Zenon DEF Whole
    <3>7. (t + (a - s)) + a - a = g
      BY <3>6
    <3>8. told'[heap[k].name] = t + (a - s) /\ heap'[k].name = heap[k].name
      BY <1>4, <3>3, <3>5, Zenon DEF Delta
    <3>. QED
      BY <1>4, <3>4, <3>5, <3>6, <3>7, <3>8, Zenon DEF Whole
  <2>2. CASE k \notin O
    <3>1. Called(O, heap[k].name) = {}
      BY <1>2, <1>7, <2>2
    <3>2. told'[heap[k].name] = told[heap[k].name] /\ heap'[k] = heap[k]
      BY <1>1, <1>5, <2>0, <2>2, <3>1 DEF Mark
    <3>. QED
      BY <1>2, <1>4, <1>7, <3>2 DEF Whole
  <2>. QED
    BY <2>1, <2>2
<1>8. \A nm \in Names : Unknown(nm) => changed'[nm] = 0 /\ told'[nm] = 0
  BY <1>3, <1>4, <1>5
<1>. QED
  BY <1>1, <1>4, <1>6, <1>7, <1>8, MemBack

LEMMA NewCell ==
  ASSUME NEW nm \in Names
  PROVE  /\ NewMetric(nm) \in Cell /\ NewMetric(nm).name = nm
         /\ NewMetric(nm).accum = InitVal /\ NewMetric(nm).sent = InitVal /\ InitVal \in Int
BY MetricsAssumption DEF NewMetric, Cell

LEMMA ResetMem ==
  ASSUME MemInv, NEW O \in SUBSET (1 .. Len(heap)), ResetTo(O)
  PROVE  MemInv' /\ NamesKept
<1>. DEFINE l == Len(heap)
<1>1. /\ l \in Nat /\ heap \in [1 .. l -> Cell] /\ DOMAIN heap = 1 .. l /\ l = Len(heap)
      /\ changed \in [Names -> Int] /\ told \in [Names -> Int]
      /\ \A k \in 1 .. l : heap[k].name \in Names
  BY MemTypes
<1>2. \A k \in 1 .. l : Sole(k) => Whole(k) /\ Called(O, heap[k].name) = IF k \in O THEN {k} ELSE {}
  BY SoleCalled DEF MemInv
<1>3. \A nm \in Names : Unknown(nm) => changed[nm] = 0 /\ told[nm] = 0
  BY DEF MemInv
<1>. HIDE DEF l
<1>4. heap' \in [1 .. l -> Cell] /\ \A k \in 1 .. l : heap'[k].name = heap[k].name
  BY <1>1, NewCell DEF ResetTo
<1>5. /\ changed' = [nm \in Names |-> IF Called(O, nm) # {} THEN 0 ELSE changed[nm]]
      /\ told' = [nm \in Names |-> IF Called(O, nm) # {} THEN 0 ELSE told[nm]]
  BY DEF ResetTo
<1>6. changed' \in [Names -> Int] /\ told' \in [Names -> Int]
  BY <1>1, <1>5
<1>7. ASSUME NEW k \in 1 .. l, Sole(k) PROVE Whole(k)'
  <2>1. CASE k \in O
    <3>1. heap'[k] = NewMetric(heap[k].name)
      BY <1>1, <2>1 DEF ResetTo
    <3>2. changed'[heap[k].name] = 0 /\ told'[heap[k].name] = 0
      BY <1>1, <1>2, <1>5, <1>7, <2>1
    <3>. QED
      BY <1>1, <1>4, <3>1, <3>2, NewCell DEF Whole
  <2>2. CASE k \notin O
    <3>1. Called(O, heap[k].name) = {}
      BY <1>2, <1>7, <2>2
    <3>2. heap'[k] = heap[k] /\ changed'[heap[k].name] = changed[heap[k].name]
          /\ told'[heap[k].name] = told[heap[k].name]
      BY <1>1, <1>5, <2>2, <3>1 DEF ResetTo
    <3>. QED
      BY <1>2, <1>7, <3>2 DEF Whole
  <2>. QED
    BY <2>1, <2>2
<1>8. \A nm \in Names : Unknown(nm) => changed'[nm] = 0 /\ told'[nm] = 0
  BY <1>3, <1>5
<1>. QED
  BY <1>1, <1>4, <1>6, <1>7, <1>8, MemBack

\* The metric that Register adds is alone under its name only if the name was
\* unknown, and the one that was there is then alone no more.
LEMMA RegisterMem ==
  ASSUME MemInv, NEW x \in Names, Register(x)
  PROVE  /\ MemInv' /\ Len(heap') = Len(heap) + 1 /\ heap'[Len(heap) + 1].name = x
         /\ \A k \in 1 .. Len(heap) : heap'[k] = heap[k]
<1>. DEFINE l == Len(heap)
<1>1. heap \in Seq(Cell) /\ l \in Nat /\ changed \in [Names -> Int] /\ told \in [Names -> Int]
  BY MemTypes DEF MemInv
<1>2. heap' = Append(heap, NewMetric(x)) /\ UNCHANGED <<changed, told>> /\ NewMetric(x) \in Cell
  BY NewCell DEF Register
<1>3. heap' \in Seq(Cell) /\ Len(heap') = l + 1 /\ heap'[l + 1] = NewMetric(x)
      /\ \A k \in 1 .. l : heap'[k] = heap[k]
  BY <1>1, <1>2, AppendProperties
<1>4. heap'[l + 1].name = x /\ heap'[l + 1].accum = InitVal /\ heap'[l + 1].sent = InitVal /\ InitVal \in Int
  BY <1>3, NewCell
<1>. HIDE DEF l
<1>5. \A k \in 1 .. l : k \in 1 .. l + 1 /\ k # l + 1
  BY <1>1
<1>6. \A k \in 1 .. l + 1 : k \in 1 .. l \/ k = l + 1
  BY <1>1
<1>7. \A k \in 1 .. l : Sole(k) => Whole(k)
  BY DEF MemInv, l
<1>8. l + 1 \in 1 .. l + 1 /\ 1 .. Len(heap) = 1 .. l
  BY <1>1 DEF l
<1>9. ASSUME NEW k \in 1 .. l + 1, Sole(k)' PROVE Whole(k)'
  <2>1. CASE k = l + 1
    <3>1. Unknown(x)
      <4>. SUFFICES ASSUME NEW p \in 1 .. l, heap[p].name = x PROVE FALSE
        BY <1>8 DEF Unknown
      <4>1. p \in 1 .. Len(heap') /\ heap'[p].name = heap'[k].name
        BY <1>3, <1>4, <1>5, <2>1
      <4>. QED
        BY <1>5, <1>9, <2>1, <4>1 DEF Sole
    <3>2. changed[x] = 0 /\ told[x] = 0
      BY <3>1 DEF MemInv
    <3>3. 0 + InitVal - InitVal = 0 /\ InitVal = InitVal + 0
      BY <1>4
    <3>4. /\ heap'[k].name = x /\ heap'[k].accum = InitVal /\ heap'[k].sent = InitVal
          /\ changed'[x] = 0 /\ told'[x] = 0
      BY <1>2, <1>4, <2>1, <3>2, Zenon
    <3>. QED
      BY <3>3, <3>4, Zenon DEF Whole
  <2>2. CASE k \in 1 .. l
    <3>1. heap'[k] = heap[k]
      BY <1>3, <2>2 DEF l
    <3>2. Sole(k)
      <4>. SUFFICES ASSUME NEW p \in 1 .. l, heap[p].name = heap[k].name PROVE p = k
        BY <1>8 DEF Sole
      <4>1. p \in 1 .. Len(heap') /\ heap'[p].name = heap'[k].name
        BY <1>3, <1>5, <3>1 DEF l
      <4>. QED
        BY <1>9, <4>1 DEF Sole
    <3>. QED
      BY <1>2, <1>7, <2>2, <3>1, <3>2 DEF Whole
  <2>. QED
    BY <1>6, <2>1, <2>2
<1>10. ASSUME NEW nm \in Names, Unknown(nm)' PROVE changed'[nm] = 0 /\ told'[nm] = 0
  <2>1. Unknown(nm)
    <3>. SUFFICES ASSUME NEW p \in 1 .. l PROVE heap[p].name # nm
      BY <1>8 DEF Unknown
    <3>. QED
      BY <1>3, <1>5, <1>10 DEF Unknown, l
  <2>. QED
    BY <1>2, <2>1 DEF MemInv
<1>. QED
  BY <1>1, <1>2, <1>3, <1>4, <1>9, <1>10 DEF MemInv, l

-----------------------------------------------------------------------------
(* The callers.                                                            *)

LEMMA CallsGrow ==
  ASSUME NEW l \in Nat
  PROVE  Calls(l) \subseteq Calls(l + 1)
BY DEF Calls, RangeCalls

\* A call between its Load and its update holds a metric.
LEMMA UpdatingCall ==
  ASSUME Inv, NEW c \in Callers, call[c].op \in UpdateOps
  PROVE  call[c].obj \in 1 .. Len(heap)
<1>1. call[c] \in Calls(Len(heap))
  BY DEF Inv, CallInv
<1>2. call[c] \in [op : UpdateOps, obj : 1 .. Len(heap)]
  BY <1>1 DEF Calls, RangeCalls, Free, UpdateOps, RangeOps
<1>. QED
  BY <1>2

LEMMA RangingCall ==
  ASSUME Inv, NEW c \in Callers, call[c].op \in RangeOps
  PROVE  call[c] \in RangeCalls(Len(heap))
<1>1. call[c] \in Calls(Len(heap))
  BY DEF Inv, CallInv
<1>. QED
  BY <1>1 DEF Calls, RangeCalls, Free, UpdateOps, RangeOps

\* A step that ends c's call or leaves it alone, and allocates nothing.
LEMMA CallStays ==
  ASSUME Inv, NEW c \in Callers, Return(c) \/ UNCHANGED call, NamesKept,
         UNCHANGED <<impl, metricOf>>, ops' \in 0 .. MaxOps
  PROVE  CallInv'
<1>1. Free \in Calls(Len(heap))
  BY DEF Calls
<1>2. call' \in [Callers -> Calls(Len(heap))]
  BY <1>1 DEF Inv, CallInv, Return
<1>. QED
  BY <1>2 DEF Inv, CallInv, NamesKept

\* A step that gives c's call another value of its type.
LEMMA CallMoves ==
  ASSUME Inv, NEW c \in Callers, NEW x \in Calls(Len(heap)), call' = [call EXCEPT ![c] = x],
         NamesKept, UNCHANGED <<impl, metricOf>>, ops' \in 0 .. MaxOps
  PROVE  CallInv'
<1>1. call' \in [Callers -> Calls(Len(heap))]
  BY DEF Inv, CallInv
<1>. QED
  BY <1>1 DEF Inv, CallInv, NamesKept

LEMMA StartsOps ==
  ASSUME Inv, NEW c, Starts(c)
  PROVE  ops' \in 0 .. MaxOps
BY MetricsAssumption DEF Inv, CallInv, Starts

LEMMA RegisterInv ==
  ASSUME Inv, NEW c \in Callers, NEW l \in Names, Starts(c), Register(l), UNCHANGED <<impl, call>>
  PROVE  Inv'
<1>1. /\ MemInv' /\ Len(heap') = Len(heap) + 1 /\ Len(heap) \in Nat /\ heap'[Len(heap) + 1].name = l
      /\ \A k \in 1 .. Len(heap) : heap'[k] = heap[k]
  BY RegisterMem, MemTypes DEF Inv
<1>2. ops' \in 0 .. MaxOps
  BY StartsOps
<1>3. /\ metricOf' \in [Names -> 0 .. Len(heap) + 1]
      /\ \A nm \in Names : metricOf'[nm] = IF nm = l THEN Len(heap) + 1 ELSE metricOf[nm]
  BY <1>1 DEF Register, Inv, CallInv
<1>5. \A nm \in Names : metricOf'[nm] # 0 => heap'[metricOf'[nm]].name = nm
  BY <1>1, <1>3 DEF Inv, CallInv
<1>4. call' \in [Callers -> Calls(Len(heap) + 1)]
  BY <1>1, CallsGrow DEF Inv, CallInv
<1>. QED
  BY <1>1, <1>2, <1>3, <1>4, <1>5 DEF Inv, CallInv

LEMMA LookMem ==
  ASSUME MemInv, UNCHANGED <<heap, changed, told>>
  PROVE  MemInv' /\ NamesKept
BY DEF MemInv, NamesKept, Sole, Whole, Unknown

LEMMA LoadInv ==
  ASSUME Inv, NEW c \in Callers, NEW l \in Names, NEW op \in UpdateOps, Load(c, op, l)
  PROVE  Inv'
<1>1. MemInv' /\ NamesKept /\ Len(heap) \in Nat
  BY LookMem, MemTypes DEF Inv, Load
<1>2. ops' \in 0 .. MaxOps
  BY StartsOps DEF Load
<1>3. metricOf[l] \in 1 .. Len(heap)
  BY <1>1 DEF Load, Inv, CallInv
<1>4. [op |-> op, obj |-> metricOf[l]] \in Calls(Len(heap))
  BY <1>3 DEF Calls
<1>5. CallInv'
  BY <1>1, <1>2, <1>4, CallMoves DEF Load
<1>. QED
  BY <1>1, <1>5 DEF Inv

LEMMA LockedInv ==
  ASSUME Inv, NEW c \in Callers, NEW op \in UpdateOps, NEW v \in Int, Locked(c, op, v)
  PROVE  Inv'
<1>1. call[c].obj \in 1 .. Len(heap) /\ Update(call[c].obj, op, v)
  BY UpdatingCall DEF Locked
<1>2. MemInv' /\ NamesKept
  BY <1>1, UpdateMem DEF Inv
<1>3. CallInv'
  BY <1>2, CallStays DEF Locked, Inv, CallInv
<1>. QED
  BY <1>2, <1>3 DEF Inv

LEMMA ShardLockedInv ==
  ASSUME Inv, NEW c \in Callers, NEW l \in Names, NEW op \in UpdateOps, NEW v \in Int,
         ShardLocked(c, l, op, v)
  PROVE  Inv'
<1>1. metricOf[l] \in 1 .. Len(heap) /\ Update(metricOf[l], op, v)
  BY MemTypes DEF ShardLocked, Inv, CallInv
<1>2. MemInv' /\ NamesKept
  BY <1>1, UpdateMem DEF Inv
<1>3. ops' \in 0 .. MaxOps
  BY StartsOps DEF ShardLocked
<1>4. CallInv'
  BY <1>2, <1>3, CallStays DEF ShardLocked
<1>. QED
  BY <1>2, <1>4 DEF Inv

LEMMA RangeBeginsInv ==
  ASSUME Inv, NEW c \in Callers, NEW op \in RangeOps, RangeBegins(c, op) \/ ShardsBegin(c, op)
  PROVE  Inv'
<1>. DEFINE x(todo) == [op |-> op, todo |-> todo, obj |-> 0]
<1>1. MemInv' /\ NamesKept /\ Len(heap) \in Nat
  BY LookMem, MemTypes DEF Inv, RangeBegins, ShardsBegin
<1>2. ops' \in 0 .. MaxOps
  BY StartsOps DEF RangeBegins, ShardsBegin
<1>3. x(Names) \in Calls(Len(heap)) /\ x(Shards) \in Calls(Len(heap))
  BY <1>1 DEF Calls, RangeCalls
<1>4. CASE RangeBegins(c, op)
  <2>1. call' = [call EXCEPT ![c] = x(Names)] /\ UNCHANGED <<impl, metricOf>>
    BY <1>4 DEF RangeBegins
  <2>. QED
    BY <1>1, <1>2, <1>3, <2>1, CallMoves DEF Inv
<1>5. CASE ShardsBegin(c, op)
  <2>1. call' = [call EXCEPT ![c] = x(Shards)] /\ UNCHANGED <<impl, metricOf>>
    BY <1>5 DEF ShardsBegin
  <2>. QED
    BY <1>1, <1>2, <1>3, <2>1, CallMoves DEF Inv
<1>. QED
  BY <1>4, <1>5

LEMMA RangeVisitsInv ==
  ASSUME Inv, NEW c \in Callers, NEW l \in Names, RangeVisits(c, l)
  PROVE  Inv'
<1>. DEFINE x == [call[c] EXCEPT !.todo = @ \ {l}, !.obj = metricOf[l]]
<1>1. MemInv' /\ NamesKept
  BY LookMem DEF Inv, RangeVisits
<1>2. call[c] \in RangeCalls(Len(heap)) /\ metricOf[l] \in 0 .. Len(heap)
  BY RangingCall DEF RangeVisits, Inv, CallInv
<1>3. x \in RangeCalls(Len(heap))
  BY <1>2 DEF RangeCalls
<1>4. call' = [call EXCEPT ![c] = x] /\ UNCHANGED <<impl, metricOf>> /\ ops' \in 0 .. MaxOps
  BY DEF RangeVisits, Inv, CallInv
<1>. HIDE DEF x
<1>5. CallInv'
  BY <1>1, <1>3, <1>4, CallMoves DEF Calls
<1>. QED
  BY <1>1, <1>5 DEF Inv

\* The body of a Range, whatever it does to the metric it holds.
LEMMA BodyInv ==
  ASSUME Inv, NEW c \in Callers, call[c].op \in RangeOps, MemInv', NamesKept,
         call' = [call EXCEPT ![c].obj = 0], UNCHANGED <<impl, metricOf, ops>>
  PROVE  Inv'
<1>. DEFINE x == [call[c] EXCEPT !.obj = 0]
<1>1. call[c] \in RangeCalls(Len(heap)) /\ Len(heap) \in Nat
  BY RangingCall, MemTypes DEF Inv
<1>2. x \in RangeCalls(Len(heap))
  BY <1>1 DEF RangeCalls
<1>3. call' = [call EXCEPT ![c] = x] /\ ops' \in 0 .. MaxOps
  BY DEF Inv, CallInv
<1>. HIDE DEF x
<1>4. CallInv'
  BY <1>2, <1>3, CallMoves DEF Calls
<1>. QED
  BY <1>4 DEF Inv

\* The same for the body of a loop over the shards.
LEMMA ShardBodyInv ==
  ASSUME Inv, NEW c \in Callers, call[c].op \in RangeOps, MemInv', NamesKept,
         call' = [call EXCEPT ![c].todo = @ \ {NextShard(c)}],
         UNCHANGED <<impl, metricOf, ops>>
  PROVE  Inv'
<1>. DEFINE x == [call[c] EXCEPT !.todo = @ \ {NextShard(c)}]
<1>1. call[c] \in RangeCalls(Len(heap))
  BY RangingCall
<1>2. x \in RangeCalls(Len(heap))
  BY <1>1 DEF RangeCalls
<1>3. call' = [call EXCEPT ![c] = x] /\ ops' \in 0 .. MaxOps
  BY DEF Inv, CallInv
<1>. HIDE DEF x
<1>4. CallInv'
  BY <1>2, <1>3, CallMoves DEF Calls
<1>. QED
  BY <1>4 DEF Inv

LEMMA ReturnsInv ==
  ASSUME Inv, NEW c \in Callers, RangeReturns(c) \/ ShardsReturn(c)
  PROVE  Inv'
<1>1. /\ Return(c) /\ UNCHANGED <<heap, changed, told>> /\ UNCHANGED <<impl, metricOf>>
      /\ ops' \in 0 .. MaxOps
  BY DEF RangeReturns, ShardsReturn, Inv, CallInv
<1>2. MemInv' /\ NamesKept
  BY <1>1, LookMem DEF Inv
<1>. QED
  BY <1>1, <1>2, CallStays DEF Inv

\* What the bodies hold are metrics.
LEMMA BodyHolds ==
  ASSUME Inv, NEW c \in Callers, call[c].op \in RangeOps, call[c].obj # 0
  PROVE  {call[c].obj} \in SUBSET (1 .. Len(heap))
<1>1. call[c].obj \in 0 .. Len(heap) /\ Len(heap) \in Nat
  BY RangingCall, MemTypes DEF Inv, RangeCalls
<1>. QED
  BY <1>1

LEMMA ShardHolds ==
  ASSUME Inv, NEW c
  PROVE  {metricOf[nm] : nm \in Held(c)} \in SUBSET (1 .. Len(heap))
<1>1. Len(heap) \in Nat /\ metricOf \in [Names -> 0 .. Len(heap)]
  BY MemTypes DEF Inv, CallInv
<1>2. \A nm \in Held(c) : metricOf[nm] \in 1 .. Len(heap)
  BY <1>1 DEF Held, Registered
<1>. QED
  BY <1>2

-----------------------------------------------------------------------------
(* Every step.                                                             *)

LEMMA MapNextInv ==
  ASSUME Inv, NEW c \in Callers, MapNext(c)
  PROVE  Inv'
<1>. /\ \A v \in Values : v \in Int
     /\ \A v \in Deltas : v \in Int
     /\ {"Set", "Inc", "Dec", "IncBy"} \subseteq UpdateOps /\ 0 \in Int
     /\ {"Flush", "FlushAndReset", "Clear", "Snapshot", "Count", "Keys"} \subseteq RangeOps
  BY MetricsAssumption DEF UpdateOps, RangeOps
<1>1. ASSUME NEW l \in Names, MapRegister(c, l) PROVE Inv'
  BY <1>1, RegisterInv DEF MapRegister
<1>2. ASSUME NEW l \in Names, RangeVisits(c, l) PROVE Inv'
  BY <1>2, RangeVisitsInv
<1>3. ASSUME NEW l \in Names, NEW op \in UpdateOps, Load(c, op, l) PROVE Inv'
  BY <1>3, LoadInv
<1>4. ASSUME NEW v \in Values, Set(c, v) PROVE Inv'
  BY <1>4, LockedInv DEF Set
<1>5. CASE Inc(c)
  BY <1>5, LockedInv DEF Inc
<1>6. CASE Dec(c)
  BY <1>6, LockedInv DEF Dec
<1>7. ASSUME NEW v \in Deltas, IncBy(c, v) PROVE Inv'
  BY <1>7, LockedInv DEF IncBy
<1>8. ASSUME NEW op \in RangeOps, RangeBegins(c, op) PROVE Inv'
  BY <1>8, RangeBeginsInv
<1>9. CASE Flush(c)
  <2>1. MemInv' /\ NamesKept
    BY <1>9, BodyHolds, MarkMem DEF Inv, Flush, Body, Ranging
  <2>. QED
    BY <1>9, <2>1, BodyInv DEF Flush, Body, Ranging
<1>10. CASE FlushAndReset(c)
  <2>1. MemInv' /\ NamesKept
    BY <1>10, BodyHolds, ResetMem DEF Inv, FlushAndReset, Body, Ranging
  <2>. QED
    BY <1>10, <2>1, BodyInv DEF FlushAndReset, Body, Ranging
<1>11. CASE MapClear(c)
  <2>1. MemInv' /\ NamesKept
    BY <1>11, BodyHolds, ResetMem DEF Inv, MapClear, Body, Ranging
  <2>. QED
    BY <1>11, <2>1, BodyInv DEF MapClear, Body, Ranging
<1>12. CASE Snapshot(c) \/ Count(c) \/ Keys(c)
  <2>1. MemInv' /\ NamesKept
    BY <1>12, LookMem DEF Inv, Snapshot, Count, Keys, Body, Look
  <2>. QED
    BY <1>12, <2>1, BodyInv DEF Snapshot, Count, Keys, Body, Ranging
<1>13. CASE RangeReturns(c)
  BY <1>13, ReturnsInv
<1>. QED
  BY <1>1, <1>2, <1>3, <1>4, <1>5, <1>6, <1>7, <1>8, <1>9, <1>10, <1>11, <1>12, <1>13 DEF MapNext

LEMMA ShardedNextInv ==
  ASSUME Inv, NEW c \in Callers, ShardedNext(c)
  PROVE  Inv'
<1>. /\ \A v \in Values : v \in Int
     /\ \A v \in Deltas : v \in Int
     /\ {"Set", "Inc", "Dec", "IncBy"} \subseteq UpdateOps /\ 0 \in Int
     /\ {"Flush", "FlushAndReset", "Clear", "Snapshot", "Count", "Keys"} \subseteq RangeOps
  BY MetricsAssumption DEF UpdateOps, RangeOps
<1>1. ASSUME NEW l \in Names, ShardedRegister(c, l) PROVE Inv'
  BY <1>1, RegisterInv DEF ShardedRegister
<1>2. ASSUME NEW l \in Names, ShardedInc(c, l) \/ ShardedDec(c, l) PROVE Inv'
  BY <1>2, ShardLockedInv DEF ShardedInc, ShardedDec
<1>3. ASSUME NEW l \in Names, NEW v \in Values, ShardedSet(c, l, v) PROVE Inv'
  BY <1>3, ShardLockedInv DEF ShardedSet
<1>4. ASSUME NEW l \in Names, NEW v \in Deltas, ShardedIncBy(c, l, v) PROVE Inv'
  BY <1>4, ShardLockedInv DEF ShardedIncBy
<1>5. ASSUME NEW op \in RangeOps, ShardsBegin(c, op) PROVE Inv'
  BY <1>5, RangeBeginsInv
<1>6. CASE ShardedFlush(c)
  <2>1. MemInv' /\ NamesKept
    BY <1>6, ShardHolds, MarkMem DEF Inv, ShardedFlush, ShardBody
  <2>. QED
    BY <1>6, <2>1, ShardBodyInv DEF ShardedFlush, ShardBody
<1>7. CASE ShardedFlushAndReset(c)
  <2>1. MemInv' /\ NamesKept
    BY <1>7, ShardHolds, ResetMem DEF Inv, ShardedFlushAndReset, ShardBody
  <2>. QED
    BY <1>7, <2>1, ShardBodyInv DEF ShardedFlushAndReset, ShardBody
<1>8. CASE ShardedClear(c)
  <2>1. MemInv' /\ NamesKept
    BY <1>8, ShardHolds, ResetMem DEF Inv, ShardedClear, ShardBody
  <2>. QED
    BY <1>8, <2>1, ShardBodyInv DEF ShardedClear, ShardBody
<1>9. CASE ShardedSnapshot(c) \/ ShardedCount(c) \/ ShardedKeys(c)
  <2>1. MemInv' /\ NamesKept
    BY <1>9, LookMem DEF Inv, ShardedSnapshot, ShardedCount, ShardedKeys, ShardBody, Look
  <2>. QED
    BY <1>9, <2>1, ShardBodyInv DEF ShardedSnapshot, ShardedCount, ShardedKeys, ShardBody
<1>10. CASE ShardsReturn(c)
  BY <1>10, ReturnsInv
<1>. QED
  BY <1>1, <1>2, <1>3, <1>4, <1>5, <1>6, <1>7, <1>8, <1>9, <1>10 DEF ShardedNext

LEMMA NextInv == Inv /\ [MetricsNext]_metricsVars => Inv'
<1>. SUFFICES ASSUME Inv, [MetricsNext]_metricsVars PROVE Inv'
  OBVIOUS
<1>1. ASSUME NEW c \in Callers, MapNext(c) \/ ShardedNext(c) PROVE Inv'
  BY <1>1, MapNextInv, ShardedNextInv
<1>2. CASE UNCHANGED metricsVars
  BY <1>2 DEF metricsVars, Inv, MemInv, CallInv, Sole, Whole, Unknown
<1>. QED
  BY <1>1, <1>2 DEF MetricsNext

LEMMA MetricsInit == NewMetrics => Inv
<1>. SUFFICES ASSUME NewMetrics PROVE Inv
  OBVIOUS
<1>1. MemInv
  <2>1. <<>> \in Seq(Cell) /\ <<>> \in Seq(Int) /\ Len(<<>>) = 0
    OBVIOUS
  <2>. QED
    BY <2>1 DEF NewMetrics, MemInv
<1>2. Len(heap) \in Nat
  BY <1>1, MemTypes
<1>3. CallInv
  BY <1>2, MetricsAssumption DEF NewMetrics, CallInv, Calls
<1>. QED
  BY <1>1, <1>3 DEF Inv

LEMMA InvBalance == Inv => Balance
<1>. SUFFICES ASSUME Inv PROVE Balance
  OBVIOUS
<1>1. ASSUME NEW c \in Callers
      PROVE  call[c].op \in {"none"} \cup UpdateOps \cup RangeOps
  <2>1. call[c] \in Calls(Len(heap))
    BY DEF Inv, CallInv
  <2>. QED
    BY <2>1 DEF Calls, RangeCalls, Free
<1>2. MetricsTypeOK
  BY <1>1 DEF MetricsTypeOK, Inv, MemInv, CallInv, Cell
<1>3. ASSUME NEW nm \in Registered, RegisteredOnce(nm) PROVE Balanced(nm)
  <2>1. /\ nm \in Names /\ metricOf[nm] \in 1 .. Len(heap) /\ heap[metricOf[nm]].name = nm
        /\ DOMAIN heap = 1 .. Len(heap)
    BY MemTypes DEF Registered, Inv, CallInv
  <2>2. Sole(metricOf[nm])
    BY <1>3, <2>1 DEF Sole, RegisteredOnce
  <2>3. /\ told[nm] + heap[metricOf[nm]].accum - heap[metricOf[nm]].sent = changed[nm]
        /\ heap[metricOf[nm]].accum = InitVal + changed[nm]
    BY <2>1, <2>2 DEF Inv, MemInv, Whole
  <2>4. told[nm] \in Int /\ heap[metricOf[nm]].accum \in Int /\ heap[metricOf[nm]].sent \in Int
    BY <2>1, MemTypes DEF Inv
  <2>5. GetDelta(nm) = heap[metricOf[nm]].accum - heap[metricOf[nm]].sent /\ Get(nm) = heap[metricOf[nm]].accum
    BY <2>1 DEF GetDelta, Get, Delta, Registered
  <2>. QED
    BY <2>3, <2>4, <2>5 DEF Balanced
<1>. QED
  BY <1>2, <1>3 DEF Balance

\* Whatever the metrics, their shards, the callers and the values, and for
\* Metrics as for ShardedMetrics: as long as a name is registered once, the
\* deltas that Flush returned for it and the one still pending add up to the
\* changes made to it since it was reset, and so does its value, also when
\* updates, flushes and resets overlap.  A second Register of the name is the
\* only thing that can make it lose a change.
THEOREM BalanceHolds == MetricsSpec => []Balance
<1>1. Inv /\ [MetricsNext]_metricsVars => Inv'
  BY NextInv
<1>. QED
  BY <1>1, MetricsInit, InvBalance, PTL DEF MetricsSpec
=============================================================================
