------------------------------- MODULE MCPush -------------------------------
(***************************************************************************)
(* Model values and bounds for the parts of package push that stand alone: *)
(* ring buffer, timer, metrics and client.  They share no state, so one    *)
(* behaviour is a behaviour of one of them, the one that `part' names,     *)
(* once the workers of the client have started.                            *)
(***************************************************************************)
EXTENDS RingBuffer, PushTimer, Metrics, PushClient

CONSTANTS a, b, c,                  \* records
          a1, a2, a3, z1, z2,       \* calls of the timer's Start and Stop
          m1, m2, g1, g2,           \* metrics, and goroutines that use them
          j1, j2, w1, w2, h1, c1,   \* payloads, workers, calls of the client
          Parts                     \* the parts to look at

\* Request 0 asks the ring buffer for the default capacity, 3 here and 1024 in
\* the code.
MCItems == {a, b, c}
MCRequests == {0, 1, 2, 4}

MCStarters == {a1, a2, a3}
MCStoppers == {z1, z2}

\* Two metrics in different shards.
MCNames == {m1, m2}
MCShard == [n_ \in MCNames |-> IF n_ = m1 THEN 0 ELSE 1]
MCCallers == {g1, g2}
MCValues == {3}
MCDeltas == {-1, 2}

MCJobs == {j1, j2}
MCBatch == {j2}
MCWorkerIds == {w1, w2}
MCHealthCheckers == {h1}
MCClosers == {c1}
MCTargets == {0, 1, 2}

VARIABLE part

MCInit ==
  /\ part \in Parts
  /\ Init /\ NewTimer /\ NewMetrics /\ New
  /\ part # "ring" => size = DefaultSize
  /\ part # "metrics" => impl = "map"

Alone == part # "client" /\ \A w \in WorkerIds : wst[w] # "starting"

MCNext ==
  /\ UNCHANGED part
  /\ \/ /\ part = "client"
        /\ Next /\ UNCHANGED <<ringVars, timerVars, metricsVars>>
     \/ /\ part # "client"
        /\ \E w \in WorkerIds : WorkerStart(w)
        /\ UNCHANGED <<ringVars, timerVars, metricsVars>>
     \/ /\ Alone /\ part = "ring"
        /\ RingNext /\ UNCHANGED <<vars, timerVars, metricsVars>>
     \/ /\ Alone /\ part = "timer"
        /\ TimerNext /\ UNCHANGED <<vars, ringVars, metricsVars>>
     \/ /\ Alone /\ part = "metrics"
        /\ MetricsNext /\ UNCHANGED <<vars, ringVars, timerVars>>

MCSpec == /\ MCInit /\ [][MCNext]_<<vars, ringVars, timerVars, metricsVars, part>>
          /\ FairWorkers /\ FairCalls /\ Fairness
=============================================================================
