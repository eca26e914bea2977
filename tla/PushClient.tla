----------------------------- MODULE PushClient -----------------------------
(***************************************************************************)
(* The asynchronous push client (push/client/client.go): a pool of worker  *)
(* goroutines fed by the bounded channel asyncCh, with the methods that    *)
(* race on it: AsyncPush, BatchPush, SetWorkers, HealthCheck and Close.    *)
(*                                                                         *)
(* An action is what one goroutine does between two points where another   *)
(* one may intervene: a channel operation, an atomic, a lock, a call that  *)
(* blocks.  The HTTP exchange is abstracted to its two outcomes.  A panic  *)
(* ends the call that raised it; the other goroutines go on, as they do    *)
(* when the caller recovers (net/http does so for every handler).          *)
(***************************************************************************)
EXTENDS Integers, Sequences, FiniteSets

CONSTANTS Jobs,            \* payloads, each submitted once
          Batch,           \* those of them that one BatchPush call submits
          Nil,             \* the nil job that tells a worker to stop
          WorkerIds,       \* bound: worker goroutines alive at the same time
          HealthCheckers,  \* calls of HealthCheck
          Closers,         \* calls of Close
          Targets,         \* arguments of SetWorkers
          InitWorkers,     \* WithWorkers(n)
          QueueSize        \* WithQueueSize(n)

ASSUME PoolAssumption == /\ Nil \notin Jobs
                         /\ Batch \subseteq Jobs
                         /\ IsFiniteSet(Jobs)
                         /\ IsFiniteSet(WorkerIds)
                         /\ IsFiniteSet(HealthCheckers)
                         /\ Targets \subseteq Int
                         /\ InitWorkers \in 1 .. Cardinality(WorkerIds)
                         /\ QueueSize \in Nat \ {0}

VARIABLES asyncCh,    \* contents of the channel
          closed,     \* close(asyncCh) has been executed
          running,    \* the atomic flag
          workers,    \* the configured number of workers
          setter,     \* SetWorkers holding mu: its program counter,
          n, i,       \*   its argument and its loop variable
          wst,        \* where each worker goroutine is
          wjob,       \* the job it is pushing
          active,     \* activeWorkers
          processed,  \* totalProcessed
          failed,     \* failedCount
          job,        \* what has become of each payload
          batch,      \* the BatchPush call
          health,     \* the HealthCheck calls
          held,       \* the element each of them has taken from the channel
          closer      \* the Close calls

pool   == <<wst, wjob, active, processed, failed>>
resize == <<workers, setter, n, i>>
checks == <<health, held>>
vars   == <<asyncCh, closed, running, resize, pool, job, batch, checks, closer>>

\* The goroutines the WaitGroup counts, and those that still take jobs.
Live    == {w \in WorkerIds : wst[w] # "off"}
Serving == {w \in WorkerIds : wst[w] \in {"starting", "idle", "busy"}}

-----------------------------------------------------------------------------
(* New: the channel is empty and InitWorkers goroutines have been started. *)

New ==
  /\ asyncCh = <<>> /\ closed = FALSE /\ running = TRUE
  /\ workers = InitWorkers
  /\ setter = "free" /\ n = InitWorkers /\ i = 0
  /\ \E W \in SUBSET WorkerIds :
       /\ Cardinality(W) = InitWorkers
       /\ wst = [w \in WorkerIds |-> IF w \in W THEN "starting" ELSE "off"]
  /\ wjob = [w \in WorkerIds |-> Nil]
  /\ active = 0 /\ processed = 0 /\ failed = 0
  /\ job = [j \in Jobs |-> "new"]
  /\ batch = "idle"
  /\ health = [h \in HealthCheckers |-> "idle"]
  /\ held = [h \in HealthCheckers |-> Nil]
  /\ closer = [c \in Closers |-> "idle"]

-----------------------------------------------------------------------------
(* AsyncPush and AsyncPushTimeout: a select with a default never blocks.   *)

MayPush(j) == job[j] = "new" /\ (j \in Batch => batch = "running")

AsyncPushQueued(j) ==
  /\ MayPush(j)
  /\ ~closed
  /\ Len(asyncCh) < QueueSize
  /\ asyncCh' = Append(asyncCh, j)
  /\ job' = [job EXCEPT ![j] = "queued"]
  /\ UNCHANGED <<closed, running, resize, pool, batch, checks, closer>>

\* The channel is full: the caller pushes the payload itself.
AsyncPushFallback(j) ==
  /\ MayPush(j)
  /\ ~closed
  /\ Len(asyncCh) >= QueueSize
  /\ job' = [job EXCEPT ![j] = "fallback"]
  /\ UNCHANGED <<asyncCh, closed, running, resize, pool, batch, checks, closer>>

FallbackDone(j, ok) ==
  /\ job[j] = "fallback"
  /\ job' = [job EXCEPT ![j] = IF ok THEN "syncOk" ELSE "syncErr"]
  /\ UNCHANGED <<asyncCh, closed, running, resize, pool, batch, checks, closer>>

\* Send on a closed channel.
AsyncPushPanics(j) ==
  /\ MayPush(j)
  /\ closed
  /\ job' = [job EXCEPT ![j] = "panicked"]
  /\ UNCHANGED <<asyncCh, closed, running, resize, pool, batch, checks, closer>>

-----------------------------------------------------------------------------
(* BatchPush: one goroutine per payload, then wg.Wait for all of them.     *)

BatchPush ==
  /\ batch = "idle"
  /\ batch' = IF Batch = {} THEN "nil" ELSE "running"
  /\ UNCHANGED <<asyncCh, closed, running, resize, pool, job, checks, closer>>

BatchPushReturns ==
  /\ batch = "running"
  /\ \A j \in Batch : job[j] \notin {"new", "fallback", "panicked"}
  /\ batch' = IF \E j \in Batch : job[j] = "syncErr" THEN "error" ELSE "nil"
  /\ UNCHANGED <<asyncCh, closed, running, resize, pool, job, checks, closer>>

-----------------------------------------------------------------------------
(* worker.                                                                 *)

WorkerStart(w) ==
  /\ wst[w] = "starting"
  /\ wst' = [wst EXCEPT ![w] = "idle"]
  /\ active' = active + 1
  /\ UNCHANGED <<wjob, processed, failed>>
  /\ UNCHANGED <<asyncCh, closed, running, resize, job, batch, checks, closer>>

WorkerReceive(w) ==
  /\ wst[w] = "idle"
  /\ asyncCh # <<>>
  /\ asyncCh' = Tail(asyncCh)
  /\ IF Head(asyncCh) = Nil
     THEN wst' = [wst EXCEPT ![w] = "exiting"] /\ UNCHANGED wjob
     ELSE /\ wst' = [wst EXCEPT ![w] = "busy"]
          /\ wjob' = [wjob EXCEPT ![w] = Head(asyncCh)]
  /\ UNCHANGED <<active, processed, failed>>
  /\ UNCHANGED <<closed, running, resize, job, batch, checks, closer>>

\* Mutant of WorkerSeesClosed: leaves as soon as the channel is closed.
WorkerQuitsOnClose(w) ==
  /\ wst[w] = "idle" /\ closed
  /\ wst' = [wst EXCEPT ![w] = "exiting"]
  /\ UNCHANGED <<wjob, active, processed, failed>>
  /\ UNCHANGED <<asyncCh, closed, running, resize, job, batch, checks, closer>>

\* A closed channel still delivers what it holds; only then is ok false.
WorkerSeesClosed(w) ==
  /\ wst[w] = "idle"
  /\ closed
  /\ asyncCh = <<>>
  /\ wst' = [wst EXCEPT ![w] = "exiting"]
  /\ UNCHANGED <<wjob, active, processed, failed>>
  /\ UNCHANGED <<asyncCh, closed, running, resize, job, batch, checks, closer>>

\* doPushWithRetry has returned; the counters move and the job is recycled.
WorkerDone(w, ok) ==
  /\ wst[w] = "busy"
  /\ wst' = [wst EXCEPT ![w] = "idle"]
  /\ wjob' = [wjob EXCEPT ![w] = Nil]
  /\ job' = [job EXCEPT ![wjob[w]] = IF ok THEN "ok" ELSE "err"]
  /\ IF ok THEN processed' = processed + 1 /\ UNCHANGED failed
           ELSE failed' = failed + 1 /\ UNCHANGED processed
  /\ UNCHANGED active
  /\ UNCHANGED <<asyncCh, closed, running, resize, batch, checks, closer>>

\* The deferred calls run last in, first out: the gauge before wg.Done.
WorkerDeactivate(w) ==
  /\ wst[w] = "exiting"
  /\ wst' = [wst EXCEPT ![w] = "leaving"]
  /\ active' = active - 1
  /\ UNCHANGED <<wjob, processed, failed>>
  /\ UNCHANGED <<asyncCh, closed, running, resize, job, batch, checks, closer>>

WorkerExit(w) ==
  /\ wst[w] = "leaving"
  /\ wst' = [wst EXCEPT ![w] = "off"]
  /\ UNCHANGED <<wjob, active, processed, failed>>
  /\ UNCHANGED <<asyncCh, closed, running, resize, job, batch, checks, closer>>

-----------------------------------------------------------------------------
(* SetWorkers holds mu from beginning to end, so one call is under way at  *)
(* a time; setter, n and i are that call's.                                *)

\* Mutant of SetWorkers: without mu.
SetWorkersUnlocked(m) ==
  /\ m > 0 /\ m # workers
  /\ n' = m
  /\ IF m > workers THEN setter' = "up" /\ i' = workers
                    ELSE setter' = "down" /\ i' = 0
  /\ UNCHANGED workers
  /\ UNCHANGED <<asyncCh, closed, running, pool, job, batch, checks, closer>>

SetWorkers(m) ==
  /\ m > 0
  /\ setter = "free"
  /\ m # workers
  /\ n' = m
  /\ IF m > workers THEN setter' = "up" /\ i' = workers
                    ELSE setter' = "down" /\ i' = 0
  /\ UNCHANGED workers
  /\ UNCHANGED <<asyncCh, closed, running, pool, job, batch, checks, closer>>

\* wg.Add(1); go c.worker(i)
SetWorkersSpawn ==
  /\ setter = "up"
  /\ i < n
  /\ \E w \in WorkerIds : /\ wst[w] = "off"
                          /\ wst' = [wst EXCEPT ![w] = "starting"]
  /\ i' = i + 1
  /\ UNCHANGED <<workers, setter, n, wjob, active, processed, failed>>
  /\ UNCHANGED <<asyncCh, closed, running, job, batch, checks, closer>>

\* Mutant of SetWorkersStop: one nil too many.
SetWorkersStopMore ==
  /\ setter = "down" /\ i <= workers - n /\ ~closed
  /\ Len(asyncCh) < QueueSize
  /\ asyncCh' = Append(asyncCh, Nil)
  /\ i' = i + 1
  /\ UNCHANGED <<workers, setter, n>>
  /\ UNCHANGED <<closed, running, pool, job, batch, checks, closer>>

\* asyncCh <- nil, which waits while the channel is full.
SetWorkersStop ==
  /\ setter = "down"
  /\ i < workers - n
  /\ ~closed
  /\ Len(asyncCh) < QueueSize
  /\ asyncCh' = Append(asyncCh, Nil)
  /\ i' = i + 1
  /\ UNCHANGED <<workers, setter, n>>
  /\ UNCHANGED <<closed, running, pool, job, batch, checks, closer>>

\* The send panics; the deferred Unlock runs, workers keeps its old value.
SetWorkersPanics ==
  /\ setter = "down"
  /\ i < workers - n
  /\ closed
  /\ setter' = "free" /\ i' = 0
  /\ UNCHANGED <<workers, n>>
  /\ UNCHANGED <<asyncCh, closed, running, pool, job, batch, checks, closer>>

SetWorkersReturns ==
  /\ \/ setter = "up" /\ i = n
     \/ setter = "down" /\ i = workers - n
  /\ workers' = n
  /\ setter' = "free" /\ i' = 0
  /\ UNCHANGED n
  /\ UNCHANGED <<asyncCh, closed, running, pool, job, batch, checks, closer>>

-----------------------------------------------------------------------------
(* HealthCheck takes an element out of the channel and puts it back.       *)

HealthCheck(h) ==
  /\ health[h] = "idle"
  /\ health' = [health EXCEPT ![h] = IF running THEN "selecting" ELSE "error"]
  /\ UNCHANGED held
  /\ UNCHANGED <<asyncCh, closed, running, resize, pool, job, batch, closer>>

HealthCheckTakes(h) ==
  /\ health[h] = "selecting"
  /\ asyncCh # <<>>
  /\ asyncCh' = Tail(asyncCh)
  /\ held' = [held EXCEPT ![h] = Head(asyncCh)]
  /\ health' = [health EXCEPT ![h] = "holding"]
  /\ UNCHANGED <<closed, running, resize, pool, job, batch, closer>>

\* Nothing to take: the default case of the select, unless the channel has
\* been closed meanwhile, when the receive yields nil at once.
HealthCheckEmpty(h) ==
  /\ health[h] = "selecting"
  /\ asyncCh = <<>>
  /\ health' = [health EXCEPT ![h] = IF closed THEN "holding" ELSE "ok"]
  /\ UNCHANGED <<asyncCh, held, closed, running, resize, pool, job, batch, closer>>

\* Mutant of HealthCheckPutsBack: a non-blocking send that may drop the job.
HealthCheckMayDrop(h) ==
  /\ health[h] = "holding" /\ ~closed
  /\ asyncCh' = IF Len(asyncCh) < QueueSize THEN Append(asyncCh, held[h]) ELSE asyncCh
  /\ held' = [held EXCEPT ![h] = Nil]
  /\ health' = [health EXCEPT ![h] = "ok"]
  /\ UNCHANGED <<closed, running, resize, pool, job, batch, closer>>

HealthCheckPutsBack(h) ==
  /\ health[h] = "holding"
  /\ ~closed
  /\ Len(asyncCh) < QueueSize
  /\ asyncCh' = Append(asyncCh, held[h])
  /\ held' = [held EXCEPT ![h] = Nil]
  /\ health' = [health EXCEPT ![h] = "ok"]
  /\ UNCHANGED <<closed, running, resize, pool, job, batch, closer>>

\* Send on a closed channel; the job it held is gone.
HealthCheckPanics(h) ==
  /\ health[h] = "holding"
  /\ closed
  /\ health' = [health EXCEPT ![h] = "panicked"]
  /\ held' = [held EXCEPT ![h] = Nil]
  /\ job' = IF held[h] = Nil THEN job ELSE [job EXCEPT ![held[h]] = "lost"]
  /\ UNCHANGED <<asyncCh, closed, running, resize, pool, batch, closer>>

-----------------------------------------------------------------------------
(* Close: the first caller closes the channel and waits for the workers.   *)

Close(c) ==
  /\ closer[c] = "idle"
  /\ running' = FALSE
  /\ closer' = [closer EXCEPT ![c] = IF running THEN "won" ELSE "lost"]
  /\ UNCHANGED <<asyncCh, closed, resize, pool, job, batch, checks>>

\* Mutant of CloseChannel: waits for the workers without closing the channel.
CloseForgetsChannel(c) ==
  /\ closer[c] = "won"
  /\ closer' = [closer EXCEPT ![c] = "waiting"]
  /\ UNCHANGED <<asyncCh, closed, running, resize, pool, job, batch, checks>>

CloseChannel(c) ==
  /\ closer[c] = "won"
  /\ closed' = TRUE
  /\ closer' = [closer EXCEPT ![c] = "waiting"]
  /\ UNCHANGED <<asyncCh, running, resize, pool, job, batch, checks>>

CloseReturns(c) ==
  /\ closer[c] = "waiting"
  /\ Live = {}
  /\ closer' = [closer EXCEPT ![c] = "returned"]
  /\ UNCHANGED <<asyncCh, closed, running, resize, pool, job, batch, checks>>

-----------------------------------------------------------------------------
Worker(w) == \/ WorkerStart(w) \/ WorkerReceive(w) \/ WorkerSeesClosed(w)
             \/ \E ok \in BOOLEAN : WorkerDone(w, ok)
             \/ WorkerDeactivate(w) \/ WorkerExit(w)

Submitter(j) == \/ AsyncPushQueued(j) \/ AsyncPushFallback(j) \/ AsyncPushPanics(j)
                \/ \E ok \in BOOLEAN : FallbackDone(j, ok)

Resizer == \/ \E m \in Targets : SetWorkers(m)
           \/ SetWorkersSpawn \/ SetWorkersStop \/ SetWorkersPanics
           \/ SetWorkersReturns

Checker(h) == \/ HealthCheck(h) \/ HealthCheckTakes(h) \/ HealthCheckEmpty(h)
              \/ HealthCheckPutsBack(h) \/ HealthCheckPanics(h)

Closing(c) == Close(c) \/ CloseChannel(c) \/ CloseReturns(c)

Next == \/ \E w \in WorkerIds : Worker(w)
        \/ \E j \in Jobs : Submitter(j)
        \/ BatchPush \/ BatchPushReturns
        \/ Resizer
        \/ \E h \in HealthCheckers : Checker(h)
        \/ \E c \in Closers : Closing(c)

Spec == New /\ [][Next]_vars

\* Goroutines that can run do run.  Nobody has to call a method.
FairWorkers == /\ \A w \in WorkerIds : WF_vars(WorkerStart(w))
               /\ \A w \in WorkerIds : WF_vars(WorkerSeesClosed(w))
               /\ \A w \in WorkerIds : WF_vars(\E ok \in BOOLEAN : WorkerDone(w, ok))
               /\ \A w \in WorkerIds : WF_vars(WorkerDeactivate(w) \/ WorkerExit(w))
               /\ WF_vars(\E w \in WorkerIds : WorkerReceive(w))

\* A goroutine parked in a channel send is served in its turn: whenever a
\* worker takes an element the runtime moves the first parked sender's value
\* into the free slot.  Hence strong fairness for the two blocking sends.
FairCalls == /\ \A h \in HealthCheckers : SF_vars(HealthCheckPutsBack(h))
             /\ \A h \in HealthCheckers : WF_vars(HealthCheckPanics(h))
             /\ \A c \in Closers : WF_vars(CloseChannel(c) \/ CloseReturns(c))
             /\ SF_vars(SetWorkersStop)
             /\ WF_vars(SetWorkersSpawn \/ SetWorkersPanics \/ SetWorkersReturns)

FairSpec == Spec /\ FairWorkers /\ FairCalls

-----------------------------------------------------------------------------
(* Properties.                                                             *)

\* Types; the channel never holds more than QueueSize elements.
TypeOK ==
  /\ asyncCh \in Seq(Jobs \cup {Nil}) /\ Len(asyncCh) <= QueueSize
  /\ closed \in BOOLEAN /\ running \in BOOLEAN
  /\ workers \in Nat \ {0}
  /\ setter \in {"free", "up", "down"} /\ n \in Nat \ {0} /\ i \in Nat
  /\ wst \in [WorkerIds -> {"off", "starting", "idle", "busy", "exiting", "leaving"}]
  /\ wjob \in [WorkerIds -> Jobs \cup {Nil}]
  /\ active \in Int /\ processed \in Nat /\ failed \in Nat
  /\ job \in [Jobs -> {"new", "queued", "fallback", "panicked", "lost",
                       "ok", "err", "syncOk", "syncErr"}]
  /\ batch \in {"idle", "running", "nil", "error"}
  /\ health \in [HealthCheckers -> {"idle", "selecting", "holding", "ok",
                                    "error", "panicked"}]
  /\ held \in [HealthCheckers -> Jobs \cup {Nil}]
  /\ closer \in [Closers -> {"idle", "won", "waiting", "returned", "lost"}]

\* The nil jobs on their way to a worker.
PillsIn(q) == {k \in 1 .. Len(q) : q[k] = Nil}
Pills     == PillsIn(asyncCh)
HeldPills == {h \in HealthCheckers : health[h] = "holding" /\ held[h] = Nil}

\* The number of workers the client would have if SetWorkers stopped here.
Configured == IF setter = "up" THEN i
              ELSE IF setter = "down" THEN workers - i ELSE workers

\* Scaling loses and invents no worker: at any moment of any interleaving of
\* SetWorkers, HealthCheck and the workers themselves the goroutines that
\* still serve are the configured ones plus one for each nil job under way.
WorkerConservation ==
  ~closed => Cardinality(Serving) =
               Configured + Cardinality(Pills) + Cardinality(HeldPills)

\* Once Close has closed the channel the nil jobs queued before it cannot
\* send home every worker while there is something left to push.
ClosedQueueServed ==
  closed /\ asyncCh # <<>> => Cardinality(Serving) > Cardinality(Pills)

\* Everywhere a job that was accepted may be.
Places(j) ==
  {<<"queue", k>> : k \in {x \in 1 .. Len(asyncCh) : asyncCh[x] = j}}
  \cup {<<"worker", w>> : w \in {x \in WorkerIds : wst[x] = "busy" /\ wjob[x] = j}}
  \cup {<<"health", h>> : h \in {x \in HealthCheckers : health[x] = "holding" /\ held[x] = j}}

\* An accepted job that is not finished is in exactly one place and no other
\* job is anywhere: none is dropped, pushed twice, or recycled to jobPool
\* while something still refers to it.
JobInOnePlace ==
  \A j \in Jobs : Cardinality(Places(j)) = IF job[j] = "queued" THEN 1 ELSE 0

\* Stats counts each asynchronous push once, by its outcome.
StatsExact == /\ processed = Cardinality({j \in Jobs : job[j] = "ok"})
              /\ failed = Cardinality({j \in Jobs : job[j] = "err"})

\* A BatchPush that returns nil has handed over every payload: each was
\* queued or pushed successfully by its own goroutine.
BatchHandsOver ==
  batch = "nil" => \A j \in Batch :
    job[j] \notin {"new", "fallback", "panicked", "syncErr"}

\* Every payload is accounted for: where it is, in Stats, and in the answer of
\* BatchPush.
JobsAccounted == TypeOK /\ JobInOnePlace /\ StatsExact /\ BatchHandsOver

\* When the Close that shut the client down returns, nothing it had accepted
\* is still waiting, except what a HealthCheck took out of the channel.
CloseDrains ==
  (\E c \in Closers : closer[c] = "returned") =>
    /\ asyncCh = <<>>
    /\ \A j \in Jobs : job[j] = "queued" =>
         \E h \in HealthCheckers : health[h] = "holding" /\ held[h] = j

\* Every accepted job is pushed in the end, or its HealthCheck has panicked
\* with it, however often the pool is resized meanwhile.
JobsComplete ==
  \A j \in Jobs : job[j] = "queued" ~> job[j] \in {"ok", "err", "lost"}

\* A Close that has won the race returns.
CloseCompletes == \A c \in Closers : closer[c] = "won" ~> closer[c] = "returned"

\* A SetWorkers blocked on the full channel gets through and releases mu.
SetWorkersEnds == setter # "free" ~> setter = "free"

\* The calls that wait for others return.
CallsEnd == CloseCompletes /\ SetWorkersEnds
=============================================================================
