---------------------------- MODULE PodTracker ----------------------------
(***************************************************************************)
(* The MonoVertex daemon's runtime pod tracker                             *)
(* (src/pkg/mvtxdaemon/server/service/runtime/pod_tracker.go).            *)
(*                                                                         *)
(* One tracker goroutine (trackActivePods) runs a probe round at once and  *)
(* then one per ticker tick until its context is cancelled.  A round       *)
(* (updateActivePods) resets a round-local atomic maxActiveIndex to -1,    *)
(* launches one worker goroutine per replica index, waits on a WaitGroup   *)
(* and publishes maxActiveIndex + 1 as activePodsCount under the mutex.    *)
(* A worker whose HEAD probe succeeds raises maxActiveIndex to its index   *)
(* with a load / compare / CompareAndSwap retry loop.                      *)
(*                                                                         *)
(* Pods come and go (the environment), and a probe of a reachable pod can  *)
(* still fail (1s client timeout), so a probe's outcome is a choice.       *)
(***************************************************************************)
EXTENDS Integers

CONSTANT MaxReplicas   \* monoVertex.Spec.Scale.GetMaxReplicas()

ASSUME MaxReplicasAssumption == MaxReplicas \in Nat

Pods == 0 .. (MaxReplicas - 1)     \* the replica indexes probed by a round
NoIndex == -1                     \* maxActiveIndex.Store(int32(-1))

VARIABLES
  up,              \* up[i]: pod i is running and reachable (environment)
  cancelled,       \* the tracker's ctx has been cancelled
  tickPending,     \* ticker.C holds a tick (a channel of capacity 1)
  tpc,             \* control point of the tracker goroutine
  firstUpdateDone, \* firstPodsUpdateChan has been closed
  spawned,         \* loop variable i of the launch loop in updateActivePods
  wg,              \* the round's WaitGroup counter
  maxActiveIndex,  \* the round's atomic.Int32
  wpc,             \* wpc[i]: control point of the worker goroutine for index i
  active,          \* active[i]: what isActive returned to worker i this round
  currentMax,      \* currentMax[i]: worker i's last Load of maxActiveIndex
  activePodsCount  \* PodTracker.activePodsCount, guarded by activePodsMutex

vars == << up, cancelled, tickPending, tpc, firstUpdateDone, spawned, wg,
           maxActiveIndex, wpc, active, currentMax, activePodsCount >>
envVars == << up, cancelled, tickPending >>
roundVars == << spawned, wg, maxActiveIndex, wpc, active, currentMax >>

TrackerPCs == {"idle", "begin", "spawn", "wait", "loop", "stopped"}
WorkerPCs == {"idle", "probe", "load", "cas", "done"}

TypeOK ==
  /\ up \in [Pods -> BOOLEAN]
  /\ cancelled \in BOOLEAN
  /\ tickPending \in BOOLEAN
  /\ tpc \in TrackerPCs
  /\ firstUpdateDone \in BOOLEAN
  /\ spawned \in 0 .. MaxReplicas
  /\ wg \in 0 .. MaxReplicas
  /\ maxActiveIndex \in Pods \cup {NoIndex}
  /\ wpc \in [Pods -> WorkerPCs]
  /\ active \in [Pods -> BOOLEAN]
  /\ currentMax \in [Pods -> Pods \cup {NoIndex}]
  /\ activePodsCount \in 0 .. MaxReplicas

(* NewPodTracker: activePodsCount is 0 and the channel is open; the pods   *)
(* may already be in any state.                                            *)
Init ==
  /\ up \in [Pods -> BOOLEAN]
  /\ cancelled = FALSE
  /\ tickPending = FALSE
  /\ tpc = "idle"
  /\ firstUpdateDone = FALSE
  /\ spawned = 0
  /\ wg = 0
  /\ maxActiveIndex = NoIndex
  /\ wpc = [i \in Pods |-> "idle"]
  /\ active = [i \in Pods |-> FALSE]
  /\ currentMax = [i \in Pods |-> NoIndex]
  /\ activePodsCount = 0

-----------------------------------------------------------------------------
(* The tracker goroutine.                                                  *)

(* Start: go pt.trackActivePods(ctx).                                      *)
Start ==
  /\ tpc = "idle"
  /\ tpc' = "begin"
  /\ UNCHANGED << envVars, firstUpdateDone, roundVars, activePodsCount >>

(* updateActivePods, up to its launch loop: a fresh WaitGroup and a fresh  *)
(* atomic holding -1; the previous round's goroutines have all returned.   *)
BeginRound ==
  /\ tpc = "begin"
  /\ spawned' = 0
  /\ wg' = 0
  /\ maxActiveIndex' = NoIndex
  /\ wpc' = [i \in Pods |-> "idle"]
  /\ active' = [i \in Pods |-> FALSE]
  /\ currentMax' = [i \in Pods |-> NoIndex]
  /\ tpc' = "spawn"
  /\ UNCHANGED << envVars, firstUpdateDone, activePodsCount >>

(* One iteration of the launch loop: wg.Add(1); go func(i).                *)
Spawn ==
  /\ tpc = "spawn"
  /\ spawned < MaxReplicas
  /\ wg' = wg + 1
  /\ wpc' = [wpc EXCEPT ![spawned] = "probe"]
  /\ spawned' = spawned + 1
  /\ UNCHANGED << envVars, tpc, firstUpdateDone, maxActiveIndex, active,
                  currentMax, activePodsCount >>

(* The launch loop exits.                                                  *)
EndSpawn ==
  /\ tpc = "spawn"
  /\ spawned = MaxReplicas
  /\ tpc' = "wait"
  /\ UNCHANGED << envVars, firstUpdateDone, roundVars, activePodsCount >>

(* setActivePodsCount: the write under activePodsMutex.Lock().            *)
setActivePodsCount(n) == activePodsCount' = n

(* GetActivePodsCount: a read under RLock, which no write can interleave   *)
(* with, so a reader sees the value of the last published round.           *)
GetActivePodsCount == activePodsCount

(* Mutant: the count is set to the highest index, without the + 1.      *)
EndRoundNoPlusOne ==
  /\ tpc = "wait"
  /\ wg = 0
  /\ activePodsCount' = maxActiveIndex
  /\ firstUpdateDone' = TRUE
  /\ tpc' = "loop"
  /\ UNCHANGED << envVars, roundVars >>

(* wg.Wait() returns; setActivePodsCount(maxActiveIndex + 1); after the    *)
(* first round trackActivePods closes firstPodsUpdateChan; then the select *)
(* loop.                                                                   *)
EndRound ==
  /\ tpc = "wait"
  /\ wg = 0
  /\ setActivePodsCount(maxActiveIndex + 1)
  /\ firstUpdateDone' = TRUE
  /\ tpc' = "loop"
  /\ UNCHANGED << envVars, roundVars >>

(* Mutant: a select loop without the ctx.Done() case.                     *)
SelectDoneNoCase == FALSE

(* select: case <-ctx.Done(): return (the deferred ticker.Stop()).         *)
SelectDone ==
  /\ tpc = "loop"
  /\ cancelled
  /\ tpc' = "stopped"
  /\ UNCHANGED << envVars, firstUpdateDone, roundVars, activePodsCount >>

(* select: case <-ticker.C: updateActivePods().                            *)
SelectTick ==
  /\ tpc = "loop"
  /\ tickPending
  /\ tickPending' = FALSE
  /\ tpc' = "begin"
  /\ UNCHANGED << up, cancelled, firstUpdateDone, roundVars, activePodsCount >>

-----------------------------------------------------------------------------
(* A worker goroutine go func(index int) of updateActivePods.              *)

(* The deferred wg.Done() of a worker that returns.                        *)
Finish(i) ==
  /\ wpc' = [wpc EXCEPT ![i] = "done"]
  /\ wg' = wg - 1

(* Mutant: the inactive path returns without wg.Done().                  *)
ProbeNoDone(i) ==
  /\ wpc[i] = "probe"
  /\ \E ok \in IF up[i] THEN BOOLEAN ELSE {FALSE} :
       /\ active' = [active EXCEPT ![i] = ok]
       /\ wpc' = [wpc EXCEPT ![i] = IF ok THEN "load" ELSE "done"]
  /\ UNCHANGED << envVars, tpc, firstUpdateDone, spawned, maxActiveIndex,
                  currentMax, activePodsCount, wg >>

(* if pt.isActive(podName): a HEAD request with a 1s timeout; an error     *)
(* (refused, timeout) means inactive.  A pod that is down never answers.   *)
Probe(i) ==
  /\ wpc[i] = "probe"
  /\ \E ok \in IF up[i] THEN BOOLEAN ELSE {FALSE} :
       /\ active' = [active EXCEPT ![i] = ok]
       /\ IF ok THEN wpc' = [wpc EXCEPT ![i] = "load"] /\ UNCHANGED wg
                ELSE Finish(i)
  /\ UNCHANGED << envVars, tpc, firstUpdateDone, spawned, maxActiveIndex,
                  currentMax, activePodsCount >>

(* Mutant: the worker goes to the CompareAndSwap without comparing.       *)
LoadNoCompare(i) ==
  /\ wpc[i] = "load"
  /\ currentMax' = [currentMax EXCEPT ![i] = maxActiveIndex]
  /\ wpc' = [wpc EXCEPT ![i] = "cas"]
  /\ UNCHANGED << envVars, tpc, firstUpdateDone, spawned, maxActiveIndex,
                  active, activePodsCount, wg >>

(* currentMax := maxActiveIndex.Load(); if int32(index) > currentMax go on *)
(* to the CompareAndSwap, else break.                                      *)
Load(i) ==
  /\ wpc[i] = "load"
  /\ currentMax' = [currentMax EXCEPT ![i] = maxActiveIndex]
  /\ IF i > maxActiveIndex THEN wpc' = [wpc EXCEPT ![i] = "cas"] /\ UNCHANGED wg
                           ELSE Finish(i)
  /\ UNCHANGED << envVars, tpc, firstUpdateDone, spawned, maxActiveIndex,
                  active, activePodsCount >>

(* Mutant: a plain Store(index) in place of the CompareAndSwap.          *)
CasAsStore(i) ==
  /\ wpc[i] = "cas"
  /\ maxActiveIndex' = i
  /\ Finish(i)
  /\ UNCHANGED << envVars, tpc, firstUpdateDone, spawned, active, currentMax,
                  activePodsCount >>

(* maxActiveIndex.CompareAndSwap(currentMax, index): break on success,     *)
(* retry the loop on failure.                                              *)
Cas(i) ==
  /\ wpc[i] = "cas"
  /\ IF maxActiveIndex = currentMax[i]
       THEN /\ maxActiveIndex' = i
            /\ Finish(i)
       ELSE /\ wpc' = [wpc EXCEPT ![i] = "load"]
            /\ UNCHANGED << maxActiveIndex, wg >>
  /\ UNCHANGED << envVars, tpc, firstUpdateDone, spawned, active, currentMax,
                  activePodsCount >>

-----------------------------------------------------------------------------
(* The environment.                                                        *)

(* A pod is scaled up, becomes ready, crashes or is scaled down.           *)
PodChange(i) ==
  /\ up' = [up EXCEPT ![i] = ~up[i]]
  /\ UNCHANGED << cancelled, tickPending, tpc, firstUpdateDone, roundVars,
                  activePodsCount >>

(* The ticker (created after the first round, stopped when the tracker     *)
(* returns) fires; a tick that finds ticker.C full is dropped.             *)
Tick ==
  /\ firstUpdateDone
  /\ tpc # "stopped"
  /\ ~tickPending
  /\ tickPending' = TRUE
  /\ UNCHANGED << up, cancelled, tpc, firstUpdateDone, roundVars,
                  activePodsCount >>

(* The daemon cancels the tracker's context.                               *)
Cancel ==
  /\ ~cancelled
  /\ cancelled' = TRUE
  /\ UNCHANGED << up, tickPending, tpc, firstUpdateDone, roundVars,
                  activePodsCount >>

-----------------------------------------------------------------------------
Tracker == Start \/ BeginRound \/ Spawn \/ EndSpawn \/ EndRound
             \/ SelectDone \/ SelectTick
Worker(i) == Probe(i) \/ Load(i) \/ Cas(i)
Environment == (\E i \in Pods : PodChange(i)) \/ Tick \/ Cancel

Next == Tracker \/ (\E i \in Pods : Worker(i)) \/ Environment

Spec == Init /\ [][Next]_vars

(* The Go scheduler runs every runnable goroutine, the ticker keeps        *)
(* firing, and select chooses uniformly among its ready cases, so a case   *)
(* that is ready again and again is eventually chosen (strong fairness).   *)
Fairness ==
  /\ WF_vars(Start) /\ WF_vars(BeginRound) /\ WF_vars(Spawn)
  /\ WF_vars(EndSpawn) /\ WF_vars(EndRound) /\ WF_vars(Tick)
  /\ SF_vars(SelectDone) /\ SF_vars(SelectTick)
  /\ \A i \in Pods : WF_vars(Worker(i))

FairSpec == Spec /\ Fairness

-----------------------------------------------------------------------------
(* m is the highest index of S, or NoIndex when S is empty.                *)
IsHighest(m, S) == IF S = {} THEN m = NoIndex
                             ELSE m \in S /\ \A j \in S : j <= m

(* The replicas whose probe succeeded in the current or last round.        *)
Succeeded == {i \in Pods : active[i]}

(* Once a round has completed, activePodsCount is one more than the        *)
(* highest index whose probe succeeded in the last completed round (0 if   *)
(* none did), whatever order the worker goroutines' loads and              *)
(* CompareAndSwaps interleaved in: updateActivePods' lock-free max.        *)
RoundResult ==
  firstUpdateDone /\ tpc \in {"begin", "loop", "stopped"}
    => IsHighest(GetActivePodsCount - 1, Succeeded)

(* Within a round the shared maximum never decreases: no worker's          *)
(* CompareAndSwap overwrites a higher index with a lower one.              *)
MaxIndexNeverLowered ==
  tpc \in {"spawn", "wait"} /\ tpc' \in {"spawn", "wait"}
    => maxActiveIndex' >= maxActiveIndex
MaxIndexMonotone == [][MaxIndexNeverLowered]_vars

(* After Start, the first round completes and firstPodsUpdateChan is      *)
(* closed, however pods come and go and probes fail.                       *)
FirstUpdate == <>firstUpdateDone

(* Once the context is cancelled, the tracker goroutine returns (after     *)
(* finishing any round in flight), even when ticks keep arriving.          *)
CancelStops == cancelled ~> (tpc = "stopped")
-----------------------------------------------------------------------------
(* The refinement mapping to AbstractTracker: the tracker's control point  *)
(* seen as a phase, and the replicas whose probe succeeded in the current  *)
(* round as the observed set; the workers' loads and CompareAndSwaps, the  *)
(* launch loop and the WaitGroup are hidden.                               *)
phaseBar ==
  IF tpc = "idle" THEN "idle"
  ELSE IF tpc = "begin" THEN "ready"
  ELSE IF tpc \in {"spawn", "wait"} THEN "round"
  ELSE IF tpc = "loop" THEN "loop"
  ELSE "stopped"

Abs == INSTANCE AbstractTracker WITH phase <- phaseBar, seen <- Succeeded

(* The tracker implements AbstractTracker: every step of the goroutines is *)
(* a step of the abstract tracker or leaves its state alone, so the        *)
(* lock-free maximum of updateActivePods publishes exactly what one atomic *)
(* "highest replica seen up, plus one" would.                              *)
Refinement == Abs!Spec
=============================================================================
