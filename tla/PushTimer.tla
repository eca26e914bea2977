------------------------------ MODULE PushTimer ------------------------------
(***************************************************************************)
(* The periodic timer (push/timer/timer.go).  Start and Stop race on an    *)
(* atomic flag, a sync.Once and the fields ticker and stopCh, which are    *)
(* always assigned together under mu: they are one variable here, the      *)
(* generation cur that the latest Start created.  Every Start spawns a     *)
(* goroutine that looks the pair up again on every turn of its loop.       *)
(*                                                                         *)
(* A stopped ticker delivers nothing (Go 1.23 and later); one that is not  *)
(* stopped may tick at any time.                                           *)
(***************************************************************************)
EXTENDS Integers

CONSTANTS Starters,   \* calls of Start
          Stoppers    \* calls of Stop

VARIABLES timerRunning,   \* running, the atomic flag
          once,           \* stopOnce: "fresh", "doing" or "done"
          made,           \* number of generations created
          cur,            \* generation in t.ticker and t.stopCh, 0 for nil
          ticking,        \* generations whose ticker has not been stopped
          shut,           \* generations whose stopCh is closed
          start,          \* the Start calls
          runner,         \* the goroutine each of them spawned
          seen,           \* the generation that goroutine looked up last
          stop,           \* the Stop calls
          target,         \* the stopCh a Stop has read, 0 for nil
          closePanicked   \* a channel has been closed twice

callers   == <<start, stop, target>>
loops     == <<runner, seen>>
timerVars == <<timerRunning, once, made, cur, ticking, shut, loops, callers, closePanicked>>

NewTimer ==
  /\ timerRunning = FALSE /\ once = "fresh"
  /\ made = 0 /\ cur = 0 /\ ticking = {} /\ shut = {}
  /\ start = [s \in Starters |-> "idle"]
  /\ runner = [s \in Starters |-> "none"]
  /\ seen = [s \in Starters |-> 0]
  /\ stop = [s \in Stoppers |-> "idle"]
  /\ target = [s \in Stoppers |-> 0]
  /\ closePanicked = FALSE

-----------------------------------------------------------------------------
(* Start.                                                                  *)

StartCAS(s) ==
  /\ start[s] = "idle"
  /\ timerRunning' = TRUE
  /\ start' = [start EXCEPT ![s] = IF timerRunning THEN "ignored" ELSE "won"]
  /\ UNCHANGED <<once, made, cur, ticking, shut, loops, stop, target, closePanicked>>

\* The section under mu.
StartSetUp(s) ==
  /\ start[s] = "won"
  /\ made' = made + 1
  /\ cur' = made + 1
  /\ ticking' = ticking \cup {made + 1}
  /\ start' = [start EXCEPT ![s] = "spawning"]
  /\ UNCHANGED <<timerRunning, once, shut, loops, stop, target, closePanicked>>

StartSpawn(s) ==
  /\ start[s] = "spawning"
  /\ runner' = [runner EXCEPT ![s] = "fetching"]
  /\ start' = [start EXCEPT ![s] = "returned"]
  /\ UNCHANGED <<timerRunning, once, made, cur, ticking, shut, seen, stop, target, closePanicked>>

-----------------------------------------------------------------------------
(* run.                                                                    *)

\* Mutant of RunFetch: looks the fields up once, before the loop.
RunFetchOnce(s) ==
  /\ runner[s] = "fetching"
  /\ seen' = [seen EXCEPT ![s] = IF @ = 0 THEN cur ELSE @]
  /\ runner' = [runner EXCEPT ![s] = "selecting"]
  /\ UNCHANGED <<timerRunning, once, made, cur, ticking, shut, callers, closePanicked>>

RunFetch(s) ==
  /\ runner[s] = "fetching"
  /\ seen' = [seen EXCEPT ![s] = cur]
  /\ runner' = [runner EXCEPT ![s] = IF cur = 0 THEN "exited" ELSE "selecting"]
  /\ UNCHANGED <<timerRunning, once, made, cur, ticking, shut, callers, closePanicked>>

RunTick(s) ==
  /\ runner[s] = "selecting"
  /\ seen[s] \in ticking
  /\ runner' = [runner EXCEPT ![s] = "callback"]
  /\ UNCHANGED <<timerRunning, once, made, cur, ticking, shut, seen, callers, closePanicked>>

RunCallbackReturns(s) ==
  /\ runner[s] = "callback"
  /\ runner' = [runner EXCEPT ![s] = "fetching"]
  /\ UNCHANGED <<timerRunning, once, made, cur, ticking, shut, seen, callers, closePanicked>>

RunStopped(s) ==
  /\ runner[s] = "selecting"
  /\ seen[s] \in shut
  /\ runner' = [runner EXCEPT ![s] = "exited"]
  /\ UNCHANGED <<timerRunning, once, made, cur, ticking, shut, seen, callers, closePanicked>>

-----------------------------------------------------------------------------
(* Stop.                                                                   *)

StopCAS(s) ==
  /\ stop[s] = "idle"
  /\ timerRunning' = FALSE
  /\ stop' = [stop EXCEPT ![s] = IF timerRunning THEN "won" ELSE "ignored"]
  /\ UNCHANGED <<once, made, cur, ticking, shut, loops, start, target, closePanicked>>

\* Mutant of StopOnce: no sync.Once, the compare-and-swap alone.
StopAlways(s) ==
  /\ stop[s] = "won"
  /\ stop' = [stop EXCEPT ![s] = "cleaning"]
  /\ UNCHANGED <<timerRunning, once, made, cur, ticking, shut, loops, start, target, closePanicked>>

\* The first caller runs the function; the others wait until it has run.
StopOnce(s) ==
  /\ stop[s] = "won"
  /\ once # "doing"
  /\ once' = IF once = "fresh" THEN "doing" ELSE once
  /\ stop' = [stop EXCEPT ![s] = IF once = "fresh" THEN "cleaning" ELSE "returned"]
  /\ UNCHANGED <<timerRunning, made, cur, ticking, shut, loops, start, target, closePanicked>>

\* Mutant of StopTicker: reads stopCh but leaves the ticker running.
StopTickerForgotten(s) ==
  /\ stop[s] = "cleaning"
  /\ target' = [target EXCEPT ![s] = cur]
  /\ stop' = [stop EXCEPT ![s] = "closing"]
  /\ UNCHANGED <<timerRunning, once, made, cur, ticking, shut, loops, start, closePanicked>>

\* The section under mu.
StopTicker(s) ==
  /\ stop[s] = "cleaning"
  /\ ticking' = ticking \ {cur}
  /\ target' = [target EXCEPT ![s] = cur]
  /\ stop' = [stop EXCEPT ![s] = "closing"]
  /\ UNCHANGED <<timerRunning, once, made, cur, shut, loops, start, closePanicked>>

StopClose(s) ==
  /\ stop[s] = "closing"
  /\ closePanicked' = (closePanicked \/ target[s] \in shut)
  /\ shut' = IF target[s] = 0 THEN shut ELSE shut \cup {target[s]}
  /\ once' = "done"
  /\ stop' = [stop EXCEPT ![s] = "returned"]
  /\ UNCHANGED <<timerRunning, made, cur, ticking, loops, start, target>>

-----------------------------------------------------------------------------
Starting(s) == StartCAS(s) \/ StartSetUp(s) \/ StartSpawn(s)

Run(s) == RunFetch(s) \/ RunTick(s) \/ RunCallbackReturns(s) \/ RunStopped(s)

StopGoesOn(s) == StopOnce(s) \/ StopTicker(s) \/ StopClose(s)

Stopping(s) == StopCAS(s) \/ StopGoesOn(s)

TimerNext == \/ \E s \in Starters : Starting(s) \/ Run(s)
             \/ \E s \in Stoppers : Stopping(s)

TimerSpec == NewTimer /\ [][TimerNext]_timerVars

\* The goroutines run, callbacks return and a Stop that has begun goes on;
\* nobody has to call Start or Stop.
Fairness == /\ \A s \in Starters : WF_timerVars(Run(s))
            /\ \A s \in Stoppers : WF_timerVars(StopGoesOn(s))

TimerFairSpec == TimerSpec /\ Fairness

-----------------------------------------------------------------------------
(* Properties.                                                             *)

Gens == 1 .. made

\* Types; a generation is only named once it is made.
TimerTypeOK ==
  /\ timerRunning \in BOOLEAN /\ closePanicked \in BOOLEAN
  /\ once \in {"fresh", "doing", "done"}
  /\ made \in Nat /\ cur \in {0} \cup Gens
  /\ ticking \subseteq Gens /\ shut \subseteq Gens
  /\ start \in [Starters -> {"idle", "ignored", "won", "spawning", "returned"}]
  /\ runner \in [Starters -> {"none", "fetching", "selecting", "callback", "exited"}]
  /\ seen \in [Starters -> {0} \cup Gens]
  /\ stop \in [Stoppers -> {"idle", "ignored", "won", "cleaning", "closing", "returned"}]
  /\ target \in [Stoppers -> {0} \cup Gens]

\* stopOnce does what its comment promises: however Start and Stop calls
\* overlap, no stop channel is closed twice.
NoDoubleClose == ~closePanicked

\* A generation whose stop channel is closed ticks no more, so the goroutine
\* that waits on it can only leave, and once a Stop has started to clean up
\* no callback begins on the ticker it found.
ShutIsSilent ==
  /\ \A g \in shut : g \notin ticking
  /\ \A s \in Stoppers : stop[s] = "closing" => target[s] \notin ticking

Settled == \A s \in Starters : start[s] \in {"ignored", "returned"}

Ended == \A s \in Starters : runner[s] \in {"none", "exited"}

\* Once no Start is under way, a Stop ends every goroutine that the Start calls
\* have spawned, those of earlier generations too, if it is the first one to
\* come to stopOnce or if the current stop channel is already closed.
StopEndsRunners ==
  Settled /\ (cur \in shut \/ (once = "fresh" /\ \E s \in Stoppers : stop[s] = "won")) ~> Ended

\* What the comment on Stop says: "Callback goroutine will exit after current
\* operation", without that exception.  The code breaks it: stopOnce, which no
\* Start resets, lets only the first Stop close a channel, so that the second
\* Stop of Start, Stop, Start, Stop ends nothing.
EveryStopEnds ==
  \A s \in Stoppers : Settled /\ stop[s] = "won" ~> Ended

\* What the comment on the type says: "Only one callback goroutine runs at a
\* time".  A goroutine that was in its callback during Stop and the next Start
\* finds the new ticker, as does the one that this Start has spawned.
OneCallback ==
  \A s, t \in Starters : runner[s] = "callback" /\ runner[t] = "callback" => s = t
=============================================================================
