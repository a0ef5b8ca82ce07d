--------------------------- MODULE AbstractTracker ---------------------------
(***************************************************************************)
(* What the MonoVertex pod tracker promises, without its goroutines: a     *)
(* round observes, one at a time and in any order, some of the replicas    *)
(* that are up, and then publishes in one step the highest index it        *)
(* observed plus one as activePodsCount (0 if it observed none).  Rounds   *)
(* start at once and on each tick, until the context is cancelled.         *)
(*                                                                         *)
(* PodTracker implements this specification: its launch loop, WaitGroup    *)
(* and Load / CompareAndSwap loop are hidden, a successful probe is an     *)
(* observation, and the end of wg.Wait() is the publication.               *)
(***************************************************************************)
EXTENDS Integers

CONSTANT MaxReplicas

Pods == 0 .. (MaxReplicas - 1)

VARIABLES
  up,              \* pod i is running and reachable
  cancelled,       \* the tracker's context is cancelled
  tickPending,     \* a tick is waiting in the ticker's channel
  phase,           \* "idle", "ready", "round", "loop" or "stopped"
  seen,            \* the replicas observed up in the current round
  activePodsCount, \* the published count
  firstUpdateDone  \* the first round has been published

avars == << up, cancelled, tickPending, phase, seen, activePodsCount,
            firstUpdateDone >>

(* m is the highest element of S, or -1 when S is empty.                   *)
HighestOf(m, S) == IF S = {} THEN m = -1 ELSE m \in S /\ \A j \in S : j <= m

Init ==
  /\ up \in [Pods -> BOOLEAN]
  /\ cancelled = FALSE
  /\ tickPending = FALSE
  /\ phase = "idle"
  /\ seen = {}
  /\ activePodsCount = 0
  /\ firstUpdateDone = FALSE

(* The tracker is started.                                                 *)
Start ==
  /\ phase = "idle"
  /\ phase' = "ready"
  /\ UNCHANGED << up, cancelled, tickPending, seen, activePodsCount,
                  firstUpdateDone >>

(* A round begins with nothing observed.                                   *)
NewRound ==
  /\ phase = "ready"
  /\ phase' = "round"
  /\ seen' = {}
  /\ UNCHANGED << up, cancelled, tickPending, activePodsCount, firstUpdateDone >>

(* The round sees replica i up (a pod that is down is never seen).        *)
Observe(i) ==
  /\ phase = "round"
  /\ up[i]
  /\ i \notin seen
  /\ seen' = seen \cup {i}
  /\ UNCHANGED << up, cancelled, tickPending, phase, activePodsCount,
                  firstUpdateDone >>

(* The round publishes the highest observed index plus one.               *)
Publish ==
  /\ phase = "round"
  /\ activePodsCount' \in 0 .. MaxReplicas
  /\ HighestOf(activePodsCount' - 1, seen)
  /\ firstUpdateDone' = TRUE
  /\ phase' = "loop"
  /\ UNCHANGED << up, cancelled, tickPending, seen >>

(* The tracker stops once its context is cancelled.                        *)
SelectDone ==
  /\ phase = "loop"
  /\ cancelled
  /\ phase' = "stopped"
  /\ UNCHANGED << up, cancelled, tickPending, seen, activePodsCount,
                  firstUpdateDone >>

(* A tick starts the next round.                                           *)
SelectTick ==
  /\ phase = "loop"
  /\ tickPending
  /\ tickPending' = FALSE
  /\ phase' = "ready"
  /\ UNCHANGED << up, cancelled, seen, activePodsCount, firstUpdateDone >>

PodChange(i) ==
  /\ up' = [up EXCEPT ![i] = ~up[i]]
  /\ UNCHANGED << cancelled, tickPending, phase, seen, activePodsCount,
                  firstUpdateDone >>

Tick ==
  /\ firstUpdateDone
  /\ phase # "stopped"
  /\ ~tickPending
  /\ tickPending' = TRUE
  /\ UNCHANGED << up, cancelled, phase, seen, activePodsCount, firstUpdateDone >>

Cancel ==
  /\ ~cancelled
  /\ cancelled' = TRUE
  /\ UNCHANGED << up, tickPending, phase, seen, activePodsCount,
                  firstUpdateDone >>

Next ==
  \/ Start \/ NewRound \/ (\E i \in Pods : Observe(i)) \/ Publish
  \/ SelectDone \/ SelectTick
  \/ (\E i \in Pods : PodChange(i)) \/ Tick \/ Cancel

Spec == Init /\ [][Next]_avars
=============================================================================
