-------------------------- MODULE PodTrackerProofs --------------------------
(***************************************************************************)
(* Proofs about PodTracker, for every MaxReplicas.                         *)
(*                                                                         *)
(* The inductive invariant IInv says how far a round has got: the          *)
(* WaitGroup counts the workers that are still running, the launched       *)
(* workers are a prefix of the indexes, and maxActiveIndex is the highest  *)
(* index of the workers that saw their pod and have returned.  The last    *)
(* fact is what a CompareAndSwap of worker i keeps true: it succeeds only  *)
(* when maxActiveIndex is still the value currentMax[i] < i it loaded.     *)
(***************************************************************************)
EXTENDS PodTracker, FiniteSets, FiniteSetTheorems, TLAPS

(* The workers launched and not yet returned: the WaitGroup's count.       *)
RunningWorkers == {i \in Pods : wpc[i] \in {"probe", "load", "cas"}}

(* The workers that found their pod active and have returned.              *)
DoneActive == {i \in Pods : active[i] /\ wpc[i] = "done"}

IInv ==
  /\ TypeOK
  /\ wg = Cardinality(RunningWorkers)
  /\ \A i \in Pods : wpc[i] = "idle" <=> i >= spawned
  /\ \A i \in Pods : active[i] => wpc[i] \in {"load", "cas", "done"}
  /\ \A i \in Pods : wpc[i] \in {"load", "cas"} => active[i]
  /\ maxActiveIndex \in DoneActive \cup {NoIndex}
  /\ \A j \in DoneActive : j <= maxActiveIndex
  /\ \A i \in Pods : wpc[i] = "cas" => /\ currentMax[i] < i
                                       /\ currentMax[i] <= maxActiveIndex
  /\ tpc = "wait" => spawned = MaxReplicas
  /\ tpc = "idle" => ~firstUpdateDone
  /\ tpc \in {"loop", "stopped"} \/ (tpc = "begin" /\ firstUpdateDone)
       => /\ \A i \in Pods : wpc[i] = "done"
          /\ activePodsCount = maxActiveIndex + 1
-----------------------------------------------------------------------------
(* The running workers are a subset of the replica indexes, so their      *)
(* number, the WaitGroup count, never exceeds MaxReplicas.                 *)
LEMMA RunningBound ==
  ASSUME NEW W \in [Pods -> WorkerPCs]
  PROVE  LET R == {i \in Pods : W[i] \in {"probe", "load", "cas"}}
         IN  /\ IsFiniteSet(R)
             /\ Cardinality(R) \in 0 .. MaxReplicas
<1> DEFINE R == {i \in Pods : W[i] \in {"probe", "load", "cas"}}
<1>1. IsFiniteSet(Pods) /\ Cardinality(Pods) = MaxReplicas
  BY MaxReplicasAssumption, FS_Interval DEF Pods
<1>2. IsFiniteSet(R) /\ Cardinality(R) <= Cardinality(Pods)
  BY <1>1, FS_Subset
<1>3. Cardinality(R) \in Nat
  BY <1>2, FS_CardinalityType
<1>4. QED
  BY <1>1, <1>2, <1>3

(* Initially no worker runs and no pod has been seen.                      *)
LEMMA InitIInv == Init => IInv
<1> SUFFICES ASSUME Init PROVE IInv
  OBVIOUS
<1>1. RunningWorkers = {} /\ DoneActive = {}
  BY DEF Init, RunningWorkers, DoneActive
<1>2. Cardinality(RunningWorkers) = 0
  BY <1>1, FS_EmptySet
<1>3. TypeOK
  <2>1. wpc \in [Pods -> WorkerPCs] /\ active \in [Pods -> BOOLEAN]
    BY DEF Init, WorkerPCs
  <2>2. currentMax \in [Pods -> Pods \cup {NoIndex}]
    BY DEF Init
  <2>3. spawned \in 0 .. MaxReplicas /\ wg \in 0 .. MaxReplicas
        /\ activePodsCount \in 0 .. MaxReplicas
    BY MaxReplicasAssumption DEF Init
  <2>4. maxActiveIndex \in Pods \cup {NoIndex}
    BY DEF Init
  <2>5. QED
    BY <2>1, <2>2, <2>3, <2>4 DEF Init, TypeOK, TrackerPCs
<1>4. \A i \in Pods : wpc[i] = "idle" <=> i >= spawned
  BY DEF Init, Pods
<1>5. QED
  BY <1>1, <1>2, <1>3, <1>4 DEF Init, IInv

(* RunningBound for the workers of the current state.                      *)
LEMMA RunningCount ==
  ASSUME wpc \in [Pods -> WorkerPCs]
  PROVE  /\ IsFiniteSet(RunningWorkers)
         /\ Cardinality(RunningWorkers) \in 0 .. MaxReplicas
BY RunningBound DEF RunningWorkers

(* A worker returning (its deferred wg.Done()) keeps the WaitGroup equal  *)
(* to the number of running workers, and so at least 0.                    *)
LEMMA WorkerReturns ==
  ASSUME TypeOK, wg = Cardinality(RunningWorkers),
         NEW i \in RunningWorkers,
         wpc' = [wpc EXCEPT ![i] = "done"], wg' = wg - 1
  PROVE  /\ RunningWorkers' = RunningWorkers \ {i}
         /\ wg' = Cardinality(RunningWorkers')
         /\ wg' \in 0 .. MaxReplicas
<1>1. RunningWorkers' = RunningWorkers \ {i}
  BY DEF RunningWorkers, TypeOK
<1>2. IsFiniteSet(RunningWorkers) /\ Cardinality(RunningWorkers) \in 0 .. MaxReplicas
  BY RunningCount DEF TypeOK
<1>3. Cardinality(RunningWorkers) # 0
  BY <1>2, FS_EmptySet
<1>4. Cardinality(RunningWorkers') = Cardinality(RunningWorkers) - 1
  BY <1>1, <1>2, FS_RemoveElement
<1>5. wg' = Cardinality(RunningWorkers')
  BY <1>4
<1>6. wg' \in 0 .. MaxReplicas
  BY <1>2, <1>3, <1>5, MaxReplicasAssumption
<1>7. QED
  BY <1>1, <1>5, <1>6

(* Every step of the tracker, of a worker or of the environment keeps     *)
(* IInv.                                                                   *)
LEMMA NextIInv == IInv /\ [Next]_vars => IInv'
<1> SUFFICES ASSUME IInv, [Next]_vars PROVE IInv'
  OBVIOUS
<1> USE MaxReplicasAssumption
<1>0. /\ TypeOK
      /\ IsFiniteSet(RunningWorkers)
      /\ wg = Cardinality(RunningWorkers)
  BY RunningCount DEF IInv, TypeOK
<1>1. CASE Start
  <2>1. RunningWorkers' = RunningWorkers /\ DoneActive' = DoneActive
    BY <1>1 DEF Start, roundVars, RunningWorkers, DoneActive
  <2>2. QED
    BY <1>1, <2>1 DEF Start, IInv, TypeOK, TrackerPCs, envVars, roundVars
<1>2. CASE BeginRound
  <2>1. RunningWorkers' = {} /\ DoneActive' = {}
    BY <1>2 DEF BeginRound, RunningWorkers, DoneActive
  <2>2. Cardinality(RunningWorkers') = 0
    BY <2>1, FS_EmptySet
  <2>3. TypeOK'
    BY <1>0, <1>2 DEF BeginRound, TypeOK, TrackerPCs, WorkerPCs, envVars, Pods,
                      NoIndex
  <2>4. \A i \in Pods : wpc'[i] = "idle" <=> i >= spawned'
    BY <1>2 DEF BeginRound, Pods
  <2>5. QED
    BY <1>2, <2>1, <2>2, <2>3, <2>4 DEF BeginRound, IInv
<1>3. CASE Spawn
  <2>1. spawned \in Pods /\ wpc[spawned] = "idle"
    BY <1>0, <1>3 DEF Spawn, IInv, TypeOK, Pods
  <2>2. /\ RunningWorkers' = RunningWorkers \cup {spawned}
        /\ spawned \notin RunningWorkers
        /\ DoneActive' = DoneActive
    BY <1>0, <1>3, <2>1 DEF Spawn, RunningWorkers, DoneActive, TypeOK
  <2>3. wg' = Cardinality(RunningWorkers')
    BY <1>0, <1>3, <2>2, FS_AddElement DEF Spawn
  <2>4. wpc' \in [Pods -> WorkerPCs]
    BY <1>0, <1>3, <2>1 DEF Spawn, TypeOK, WorkerPCs
  <2>5. wg' \in 0 .. MaxReplicas
    <3>1. Cardinality(RunningWorkers') \in 0 .. MaxReplicas
      BY <2>4, RunningBound DEF RunningWorkers
    <3>2. QED
      BY <2>3, <3>1
  <2>6. QED
    BY <1>0, <1>3, <2>1, <2>2, <2>3, <2>4, <2>5
       DEF Spawn, IInv, TypeOK, envVars, Pods
<1>4. CASE EndSpawn
  <2>1. RunningWorkers' = RunningWorkers /\ DoneActive' = DoneActive
    BY <1>4 DEF EndSpawn, roundVars, RunningWorkers, DoneActive
  <2>2. QED
    BY <1>4, <2>1 DEF EndSpawn, IInv, TypeOK, TrackerPCs, envVars, roundVars
<1>5. CASE EndRound
  <2>1. RunningWorkers' = RunningWorkers /\ DoneActive' = DoneActive
    BY <1>5 DEF EndRound, setActivePodsCount, roundVars, RunningWorkers, DoneActive
  <2>2. RunningWorkers = {}
    BY <1>0, <1>5, FS_EmptySet DEF EndRound, setActivePodsCount
  <2>3. \A i \in Pods : wpc[i] = "done"
    BY <1>0, <1>5, <2>2 DEF EndRound, setActivePodsCount, IInv, RunningWorkers, TypeOK, WorkerPCs,
                            Pods
  <2>4. activePodsCount' \in 0 .. MaxReplicas
    BY <1>0, <1>5 DEF EndRound, setActivePodsCount, TypeOK, Pods, NoIndex
  <2>5. QED
    BY <1>5, <2>1, <2>3, <2>4 DEF EndRound, setActivePodsCount, IInv, TypeOK, TrackerPCs, envVars,
                                  roundVars
<1>6. CASE SelectDone
  <2>1. RunningWorkers' = RunningWorkers /\ DoneActive' = DoneActive
    BY <1>6 DEF SelectDone, roundVars, RunningWorkers, DoneActive
  <2>2. QED
    BY <1>6, <2>1 DEF SelectDone, IInv, TypeOK, TrackerPCs, envVars, roundVars
<1>7. CASE SelectTick
  <2>1. RunningWorkers' = RunningWorkers /\ DoneActive' = DoneActive
    BY <1>7 DEF SelectTick, roundVars, RunningWorkers, DoneActive
  <2>2. QED
    BY <1>7, <2>1 DEF SelectTick, IInv, TypeOK, TrackerPCs, roundVars
<1>8. ASSUME NEW i \in Pods, Worker(i)
      PROVE  IInv'
  <2>0. /\ wpc[i] \in {"probe", "load", "cas"} => i \in RunningWorkers
        /\ wpc[i] \in {"probe", "load", "cas"} => i \notin DoneActive
    BY DEF RunningWorkers, DoneActive
  (* No worker runs once a round has been published.                       *)
  <2>00. wpc[i] \in {"probe", "load", "cas"} =>
           ~(tpc \in {"loop", "stopped"} \/ (tpc = "begin" /\ firstUpdateDone))
    BY DEF IInv
  <2>1. CASE Probe(i)
    <3>1. PICK ok \in BOOLEAN :
                /\ active' = [active EXCEPT ![i] = ok]
                /\ ok => up[i]
                /\ IF ok THEN wpc' = [wpc EXCEPT ![i] = "load"] /\ UNCHANGED wg
                         ELSE Finish(i)
      BY <2>1 DEF Probe
    <3>2. CASE ok
      <4>1. RunningWorkers' = RunningWorkers /\ DoneActive' = DoneActive
        BY <1>0, <2>1, <3>1, <3>2 DEF Probe, RunningWorkers, DoneActive, TypeOK
      <4>2. QED
        BY <1>0, <2>00, <2>1, <3>1, <3>2, <4>1
           DEF Probe, IInv, TypeOK, WorkerPCs, envVars
    <3>3. CASE ~ok
      <4>1. DoneActive' = DoneActive
        BY <1>0, <2>1, <3>1, <3>3 DEF Probe, Finish, DoneActive, TypeOK
      <4>2. wg' = Cardinality(RunningWorkers') /\ wg' \in 0 .. MaxReplicas
        BY <1>0, <2>0, <2>1, <3>1, <3>3, WorkerReturns DEF Probe, Finish
      <4>3. QED
        BY <1>0, <2>00, <2>1, <3>1, <3>3, <4>1, <4>2
           DEF Probe, Finish, IInv, TypeOK, WorkerPCs, envVars
    <3>4. QED
      BY <3>2, <3>3
  <2>2. CASE Load(i)
    <3>1. CASE i > maxActiveIndex
      <4>1. RunningWorkers' = RunningWorkers /\ DoneActive' = DoneActive
        BY <1>0, <2>2, <3>1 DEF Load, RunningWorkers, DoneActive, TypeOK
      <4>2. TypeOK'
        BY <1>0, <2>2, <3>1 DEF Load, TypeOK, WorkerPCs, envVars
      <4>3. i \in Pods /\ maxActiveIndex \in Int /\ maxActiveIndex < i
        BY <1>0, <3>1 DEF TypeOK, Pods, NoIndex
      <4>4. /\ wpc'[i] = "cas" /\ currentMax'[i] = maxActiveIndex
            /\ maxActiveIndex' = maxActiveIndex /\ active[i]
        BY <1>0, <2>2, <3>1 DEF Load, IInv, TypeOK
      <4>5. wg' = Cardinality(RunningWorkers')
        BY <1>0, <2>2, <3>1, <4>1 DEF Load, IInv
      <4>6. /\ \A j \in Pods : wpc'[j] = "idle" <=> j >= spawned'
            /\ \A j \in Pods : active'[j] => wpc'[j] \in {"load", "cas", "done"}
            /\ \A j \in Pods : wpc'[j] \in {"load", "cas"} => active'[j]
        BY <1>0, <2>2, <3>1, <4>4 DEF Load, IInv, TypeOK
      <4>7. /\ maxActiveIndex' \in DoneActive' \cup {NoIndex}
            /\ \A j \in DoneActive' : j <= maxActiveIndex'
        BY <1>0, <4>1, <4>4 DEF IInv
      <4>8. \A j \in Pods : wpc'[j] = "cas" => /\ currentMax'[j] < j
                                               /\ currentMax'[j] <= maxActiveIndex'
        BY <1>0, <2>2, <3>1, <4>3, <4>4 DEF Load, IInv, TypeOK
      <4>9. /\ tpc' = "wait" => spawned' = MaxReplicas
            /\ tpc' = "idle" => ~firstUpdateDone'
            /\ tpc' \in {"loop", "stopped"} \/ (tpc' = "begin" /\ firstUpdateDone')
                 => /\ \A j \in Pods : wpc'[j] = "done"
                    /\ activePodsCount' = maxActiveIndex' + 1
        BY <1>0, <2>00, <2>2, <3>1 DEF Load, IInv
      <4>10. QED
        BY <4>2, <4>5, <4>6, <4>7, <4>8, <4>9 DEF IInv
    <3>2. CASE ~(i > maxActiveIndex)
      <4>1. DoneActive' = DoneActive \cup {i}
        BY <1>0, <2>2, <3>2 DEF Load, Finish, DoneActive, IInv, TypeOK
      <4>2. wg' = Cardinality(RunningWorkers') /\ wg' \in 0 .. MaxReplicas
        BY <1>0, <2>0, <2>2, <3>2, WorkerReturns DEF Load, Finish
      <4>3. TypeOK'
        BY <1>0, <2>2, <3>2, <4>2 DEF Load, Finish, TypeOK, WorkerPCs, envVars
      <4>4. i <= maxActiveIndex
        BY <1>0, <3>2 DEF TypeOK, Pods, NoIndex
      <4>5. \A j \in Pods : wpc'[j] = "idle" <=> j >= spawned'
        BY <1>0, <2>2, <3>2 DEF Load, Finish, IInv, TypeOK
      <4>6. /\ \A j \in Pods : active'[j] => wpc'[j] \in {"load", "cas", "done"}
            /\ \A j \in Pods : wpc'[j] \in {"load", "cas"} => active'[j]
        BY <1>0, <2>2, <3>2 DEF Load, Finish, IInv, TypeOK
      <4>7. /\ maxActiveIndex' \in DoneActive' \cup {NoIndex}
            /\ \A j \in DoneActive' : j <= maxActiveIndex'
        BY <2>2, <4>1, <4>4 DEF Load, IInv
      <4>8. \A j \in Pods : wpc'[j] = "cas" => /\ currentMax'[j] < j
                                               /\ currentMax'[j] <= maxActiveIndex'
        BY <1>0, <2>2, <3>2 DEF Load, Finish, IInv, TypeOK
      <4>9. QED
        BY <2>00, <2>2, <3>2, <4>2, <4>3, <4>5, <4>6, <4>7, <4>8
           DEF Load, Finish, IInv
    <3>3. QED
      BY <3>1, <3>2
  <2>3. CASE Cas(i)
    <3>1. CASE maxActiveIndex = currentMax[i]
      <4>1. DoneActive' = DoneActive \cup {i}
        BY <1>0, <2>3, <3>1 DEF Cas, Finish, DoneActive, IInv, TypeOK
      <4>2. wg' = Cardinality(RunningWorkers') /\ wg' \in 0 .. MaxReplicas
        BY <1>0, <2>0, <2>3, <3>1, WorkerReturns DEF Cas, Finish
      <4>3. currentMax[i] < i
        BY <2>3 DEF Cas, IInv
      <4>4. TypeOK'
        BY <1>0, <2>3, <3>1, <4>2 DEF Cas, Finish, TypeOK, WorkerPCs, envVars
      <4>5. \A j \in DoneActive' : j <= maxActiveIndex'
        BY <1>0, <2>3, <3>1, <4>1, <4>3 DEF Cas, IInv, TypeOK, Pods, NoIndex
      <4>6. \A j \in Pods : wpc'[j] = "cas" => /\ currentMax'[j] < j
                                               /\ currentMax'[j] <= maxActiveIndex'
        BY <1>0, <2>3, <3>1, <4>3 DEF Cas, Finish, IInv, TypeOK, Pods, NoIndex
      <4>7. \A j \in Pods : wpc'[j] = "idle" <=> j >= spawned'
        BY <1>0, <2>3, <3>1 DEF Cas, Finish, IInv, TypeOK
      <4>8. /\ \A j \in Pods : active'[j] => wpc'[j] \in {"load", "cas", "done"}
            /\ \A j \in Pods : wpc'[j] \in {"load", "cas"} => active'[j]
        BY <1>0, <2>3, <3>1 DEF Cas, Finish, IInv, TypeOK
      <4>9. maxActiveIndex' \in DoneActive' \cup {NoIndex}
        BY <1>0, <2>3, <3>1, <4>1 DEF Cas, Finish, TypeOK
      <4>10. QED
        BY <2>00, <2>3, <3>1, <4>2, <4>4, <4>5, <4>6, <4>7, <4>8, <4>9
           DEF Cas, Finish, IInv
    <3>2. CASE maxActiveIndex # currentMax[i]
      <4>1. RunningWorkers' = RunningWorkers /\ DoneActive' = DoneActive
        BY <1>0, <2>3, <3>2 DEF Cas, RunningWorkers, DoneActive, TypeOK
      <4>2. QED
        BY <1>0, <2>00, <2>3, <3>2, <4>1 DEF Cas, IInv, TypeOK, WorkerPCs, envVars
    <3>3. QED
      BY <3>1, <3>2
  <2>4. QED
    BY <1>8, <2>1, <2>2, <2>3 DEF Worker
<1>9. CASE Environment
  <2>1. RunningWorkers' = RunningWorkers /\ DoneActive' = DoneActive
    BY <1>9 DEF Environment, PodChange, Tick, Cancel, roundVars,
                RunningWorkers, DoneActive
  <2>2. TypeOK'
    BY <1>0, <1>9 DEF Environment, PodChange, Tick, Cancel, roundVars, TypeOK
  <2>3. QED
    BY <1>9, <2>1, <2>2 DEF Environment, PodChange, Tick, Cancel, roundVars,
                            IInv
<1>10. CASE UNCHANGED vars
  BY <1>10 DEF vars, IInv, TypeOK, RunningWorkers, DoneActive
<1>11. QED
  BY <1>1, <1>2, <1>3, <1>4, <1>5, <1>6, <1>7, <1>8, <1>9, <1>10
     DEF Next, Tracker
-----------------------------------------------------------------------------
(* IInv holds in every reachable state.                                    *)
THEOREM IInvHolds == Spec => []IInv
BY InitIInv, NextIInv, PTL DEF Spec

(* The pod tracker's state always has its type: in particular the          *)
(* WaitGroup never goes negative and maxActiveIndex stays in -1 .. Max-1.  *)
THEOREM TypeCorrect == Spec => []TypeOK
<1>1. IInv => TypeOK
  BY DEF IInv
<1>2. QED
  BY IInvHolds, <1>1, PTL

(* Once published, activePodsCount is one more than the highest replica    *)
(* index whose HEAD probe succeeded in the last completed round, for every *)
(* MaxReplicas and every interleaving of the worker goroutines.            *)
LEMMA IInvRoundResult == IInv => RoundResult
<1> SUFFICES ASSUME IInv, firstUpdateDone, tpc \in {"begin", "loop", "stopped"}
             PROVE  IsHighest(activePodsCount - 1, Succeeded)
  BY DEF RoundResult, GetActivePodsCount
<1>1. /\ \A i \in Pods : wpc[i] = "done"
      /\ activePodsCount = maxActiveIndex + 1
  BY DEF IInv
<1>2. Succeeded = DoneActive
  BY <1>1 DEF Succeeded, DoneActive
<1>3. /\ maxActiveIndex \in DoneActive \cup {NoIndex}
      /\ \A j \in DoneActive : j <= maxActiveIndex
      /\ DoneActive \subseteq Pods
  BY DEF IInv, DoneActive
<1>4. CASE DoneActive = {}
  BY <1>1, <1>2, <1>3, <1>4 DEF IsHighest, NoIndex, IInv, TypeOK
<1>5. CASE DoneActive # {}
  <2>1. PICK j \in DoneActive : j \in Pods
    BY <1>3, <1>5
  <2>2. maxActiveIndex # NoIndex /\ maxActiveIndex \in Int
    BY <1>3, <2>1, MaxReplicasAssumption DEF Pods, NoIndex
  <2>3. QED
    BY <1>1, <1>2, <1>3, <1>5, <2>2 DEF IsHighest
<1>6. QED
  BY <1>4, <1>5

THEOREM RoundResultHolds == Spec => []RoundResult
BY IInvHolds, IInvRoundResult, PTL

(* Every step from a state of IInv that is not a stutter keeps the round's *)
(* maximum from decreasing: only a successful CompareAndSwap writes it,    *)
(* and it writes an index above the value it replaces.                     *)
LEMMA StepNeverLowers == IInv /\ [Next]_vars => [MaxIndexNeverLowered]_vars
<1> SUFFICES ASSUME IInv, [Next]_vars,
                    tpc \in {"spawn", "wait"}, tpc' \in {"spawn", "wait"}
             PROVE  maxActiveIndex' >= maxActiveIndex
  BY DEF MaxIndexNeverLowered
<1>0. maxActiveIndex \in Int
  BY MaxReplicasAssumption DEF IInv, TypeOK, Pods, NoIndex
<1>1. ASSUME NEW i \in Pods, Cas(i)
      PROVE  maxActiveIndex' >= maxActiveIndex
  <2>1. CASE maxActiveIndex = currentMax[i]
    <3>1. currentMax[i] < i
      BY <1>1 DEF Cas, IInv
    <3>2. QED
      BY <1>0, <1>1, <2>1, <3>1, MaxReplicasAssumption DEF Cas, Pods
  <2>2. CASE maxActiveIndex # currentMax[i]
    BY <1>0, <1>1, <2>2 DEF Cas
  <2>3. QED
    BY <2>1, <2>2
<1>2. CASE BeginRound
  BY <1>2 DEF BeginRound
<1>3. CASE Start \/ Spawn \/ EndSpawn \/ EndRound \/ SelectDone \/ SelectTick
  BY <1>0, <1>3 DEF Start, Spawn, EndSpawn, EndRound, SelectDone, SelectTick,
                    roundVars
<1>4. CASE Environment \/ UNCHANGED vars
  BY <1>0, <1>4 DEF Environment, PodChange, Tick, Cancel, roundVars, vars
<1>5. ASSUME NEW i \in Pods, Probe(i) \/ Load(i)
      PROVE  maxActiveIndex' >= maxActiveIndex
  <2>1. maxActiveIndex' = maxActiveIndex
    BY <1>5 DEF Probe, Load
  <2>2. QED
    BY <1>0, <2>1
<1>6. ASSUME NEW i \in Pods, Worker(i)
      PROVE  maxActiveIndex' >= maxActiveIndex
  BY <1>1, <1>5, <1>6 DEF Worker
<1>7. QED
  BY <1>2, <1>3, <1>4, <1>6 DEF Next, Tracker

(* Within a round maxActiveIndex never decreases (checked by TLC as the   *)
(* action property MaxIndexMonotone).                                      *)
THEOREM MaxIndexMonotoneHolds == Spec => MaxIndexMonotone
BY IInvHolds, StepNeverLowers, PTL DEF MaxIndexMonotone, Spec
-----------------------------------------------------------------------------
(* Refinement of AbstractTracker.  Besides IInv the proof needs one more   *)
(* fact: outside a round (between wg.Wait() and the next launch loop) no   *)
(* worker goroutine is running, so a successful probe always happens while *)
(* the abstract tracker is in a round.                                     *)
Quiet == tpc \notin {"spawn", "wait"} => RunningWorkers = {}

LEMMA InitQuiet == Init => Quiet
BY DEF Init, Quiet, RunningWorkers

LEMMA NextQuiet == IInv /\ Quiet /\ [Next]_vars => Quiet'
<1> SUFFICES ASSUME IInv, Quiet, [Next]_vars, tpc' \notin {"spawn", "wait"}
             PROVE  RunningWorkers' = {}
  BY DEF Quiet
<1>0. /\ TypeOK
      /\ IsFiniteSet(RunningWorkers)
      /\ wg = Cardinality(RunningWorkers)
  BY RunningCount, MaxReplicasAssumption DEF IInv, TypeOK
<1>1. CASE EndRound
  <2>1. RunningWorkers = {}
    BY <1>0, <1>1, FS_EmptySet DEF EndRound, setActivePodsCount
  <2>2. QED
    BY <1>1, <2>1 DEF EndRound, setActivePodsCount, roundVars, RunningWorkers
<1>2. CASE Start \/ SelectDone \/ SelectTick \/ Environment \/ UNCHANGED vars
  <2>1. tpc \notin {"spawn", "wait"} /\ wpc' = wpc
    BY <1>2 DEF Start, SelectDone, SelectTick, Environment, PodChange, Tick,
                Cancel, roundVars, vars
  <2>2. QED
    BY <2>1 DEF Quiet, RunningWorkers
<1>3. CASE BeginRound \/ Spawn \/ EndSpawn
  BY <1>3 DEF BeginRound, Spawn, EndSpawn
<1>4. ASSUME NEW i \in Pods, Worker(i)
      PROVE  RunningWorkers' = {}
  <2>1. i \in RunningWorkers /\ tpc' = tpc
    BY <1>4 DEF Worker, Probe, Load, Cas, Finish, RunningWorkers
  <2>2. QED
    BY <2>1 DEF Quiet
<1>5. QED
  BY <1>1, <1>2, <1>3, <1>4 DEF Next, Tracker

(* At the end of wg.Wait() every worker has returned, and maxActiveIndex   *)
(* is the highest index whose probe succeeded in this round.               *)
LEMMA RoundEnds ==
  ASSUME IInv, tpc = "wait", wg = 0
  PROVE  IsHighest(maxActiveIndex, Succeeded)
<1>1. IsFiniteSet(RunningWorkers) /\ RunningWorkers = {}
  BY RunningCount, FS_EmptySet, MaxReplicasAssumption DEF IInv, TypeOK
<1>2. \A i \in Pods : wpc[i] = "done"
  BY <1>1, MaxReplicasAssumption DEF IInv, RunningWorkers, TypeOK, WorkerPCs,
                                     Pods
<1>3. Succeeded = DoneActive
  BY <1>2 DEF Succeeded, DoneActive
<1>4. /\ maxActiveIndex \in DoneActive \cup {NoIndex}
      /\ \A j \in DoneActive : j <= maxActiveIndex
      /\ DoneActive \subseteq Pods
  BY DEF IInv, DoneActive
<1>5. CASE DoneActive = {}
  BY <1>3, <1>4, <1>5 DEF IsHighest
<1>6. CASE DoneActive # {}
  <2>1. PICK j \in DoneActive : j \in Pods
    BY <1>4, <1>6
  <2>2. maxActiveIndex # NoIndex
    BY <1>4, <2>1, MaxReplicasAssumption DEF Pods, NoIndex
  <2>3. QED
    BY <1>3, <1>4, <1>6, <2>2 DEF IsHighest
<1>7. QED
  BY <1>5, <1>6

(* The tracker's initial state is one of the abstract tracker's.           *)
LEMMA InitRefines == Init => Abs!Init
BY DEF Init, Abs!Init, Abs!Pods, Pods, phaseBar, Succeeded

(* Every step maps to a step of AbstractTracker or to a stutter: BeginRound *)
(* to NewRound, a successful probe to Observe, the end of the round to      *)
(* Publish, the select and the environment to themselves.                   *)
LEMMA RefineStep ==
  IInv /\ Quiet /\ [Next]_vars => [Abs!Next]_Abs!avars
<1> SUFFICES ASSUME IInv, Quiet, [Next]_vars PROVE [Abs!Next]_Abs!avars
  OBVIOUS
<1> USE DEF Abs!avars
<1>1. CASE Start
  BY <1>1 DEF Start, Abs!Next, Abs!Start, phaseBar, roundVars, envVars,
              Succeeded
<1>2. CASE BeginRound
  BY <1>2 DEF BeginRound, Abs!Next, Abs!NewRound, phaseBar, envVars,
              Succeeded
<1>3. CASE Spawn \/ EndSpawn \/ UNCHANGED vars
  BY <1>3 DEF Spawn, EndSpawn, vars, phaseBar, envVars, roundVars, Succeeded
<1>4. CASE EndRound
  <2>1. IsHighest(maxActiveIndex, Succeeded)
    BY <1>4, RoundEnds DEF EndRound, setActivePodsCount
  <2>2. activePodsCount' \in 0 .. MaxReplicas
    BY <1>4, MaxReplicasAssumption DEF EndRound, setActivePodsCount, IInv, TypeOK, Pods, NoIndex
  <2>3. Succeeded' = Succeeded /\ activePodsCount' - 1 = maxActiveIndex
    BY <1>4 DEF EndRound, setActivePodsCount, roundVars, Succeeded, IInv, TypeOK, Pods, NoIndex
  <2>4. Abs!Publish
    BY <1>4, <2>1, <2>2, <2>3
       DEF EndRound, setActivePodsCount, Abs!Publish, Abs!HighestOf, IsHighest, NoIndex, phaseBar,
           envVars
  <2>5. QED
    BY <2>4 DEF Abs!Next
<1>5. CASE SelectDone \/ SelectTick
  BY <1>5 DEF SelectDone, SelectTick, Abs!Next, Abs!SelectDone,
              Abs!SelectTick, phaseBar, roundVars, envVars, Succeeded
<1>6. CASE Environment
  <2>1. CASE \E i \in Pods : PodChange(i)
    <3>1. PICK i \in Pods : PodChange(i)
      BY <2>1
    <3>2. Abs!PodChange(i)
      BY <3>1 DEF PodChange, Abs!PodChange, phaseBar, roundVars, Succeeded
    <3>3. QED
      BY <3>2 DEF Abs!Next, Abs!Pods, Pods
  <2>2. CASE Tick
    <3>1. tpc \in TrackerPCs \ {"stopped"}
      BY <2>2 DEF Tick, IInv, TypeOK
    <3>2. Abs!Tick
      BY <2>2, <3>1 DEF Tick, Abs!Tick, phaseBar, roundVars, Succeeded,
                        TrackerPCs
    <3>3. QED
      BY <3>2 DEF Abs!Next
  <2>3. CASE Cancel
    BY <2>3 DEF Cancel, Abs!Next, Abs!Cancel, phaseBar, roundVars, Succeeded
  <2>4. QED
    BY <1>6, <2>1, <2>2, <2>3 DEF Environment
<1>7. ASSUME NEW i \in Pods, Load(i) \/ Cas(i)
      PROVE  [Abs!Next]_Abs!avars
  BY <1>7 DEF Load, Cas, Finish, phaseBar, envVars, Succeeded
<1>8. ASSUME NEW i \in Pods, Probe(i)
      PROVE  [Abs!Next]_Abs!avars
  <2>1. PICK ok \in IF up[i] THEN BOOLEAN ELSE {FALSE} :
                  /\ active' = [active EXCEPT ![i] = ok]
                  /\ IF ok THEN wpc' = [wpc EXCEPT ![i] = "load"] /\ UNCHANGED wg
                           ELSE Finish(i)
    BY <1>8 DEF Probe
  <2>2. /\ UNCHANGED << up, cancelled, tickPending, tpc, firstUpdateDone,
                       activePodsCount >>
        /\ wpc[i] = "probe"
        /\ active \in [Pods -> BOOLEAN]
    BY <1>8 DEF Probe, envVars, IInv, TypeOK
  <2>3. CASE ok
    <3>1. up[i]
      BY <2>1, <2>3
    <3>2. i \notin Succeeded
      BY <2>2 DEF IInv, Succeeded
    <3>3. tpc \in {"spawn", "wait"}
      BY <2>2 DEF Quiet, RunningWorkers
    <3>4. Succeeded' = Succeeded \cup {i}
      BY <2>1, <2>2, <2>3 DEF Succeeded
    <3>5. Abs!Observe(i)
      BY <2>2, <3>1, <3>3, <3>4, <3>2 DEF Abs!Observe, phaseBar
    <3>6. QED
      BY <3>5 DEF Abs!Next, Abs!Pods, Pods
  <2>4. CASE ~ok
    <3>1. Succeeded' = Succeeded
      BY <2>1, <2>2, <2>4 DEF Succeeded, IInv
    <3>2. QED
      BY <2>2, <3>1 DEF phaseBar
  <2>5. QED
    BY <2>3, <2>4
<1>9. QED
  BY <1>1, <1>2, <1>3, <1>4, <1>5, <1>6, <1>7, <1>8 DEF Next, Tracker, Worker

(* PodTracker implements AbstractTracker (the property Refinement that TLC *)
(* checks): for every MaxReplicas and every interleaving of its goroutines, *)
(* the tracker's behaviour is one of the abstract tracker's, whose rounds  *)
(* publish the highest replica seen up plus one in a single step.          *)
THEOREM RefinementHolds == Spec => Refinement
<1>1. Init => IInv /\ Quiet
  BY InitIInv, InitQuiet
<1>2. IInv /\ Quiet /\ [Next]_vars => (IInv /\ Quiet)'
  BY NextIInv, NextQuiet
<1>3. QED
  BY <1>1, <1>2, InitRefines, RefineStep, PTL DEF Spec, Refinement, Abs!Spec
=============================================================================
