----------------------------- MODULE SecretInit -----------------------------
(***************************************************************************)
(* The two secret bootstrap programs that run as init containers:         *)
(*                                                                         *)
(*  - server/cmd/serversecretinit: reads numaflow-server-secret, generates *)
(*    server.secretkey and admin.initial-password for the keys that are    *)
(*    missing and, if one was missing, sets Data to the generated keys and *)
(*    Updates the secret;                                                  *)
(*  - secret-init/cmd: reads numaflow-server-pass-secret, generates both   *)
(*    keys and Updates the secret with them, every time.                   *)
(*                                                                         *)
(* Several pods may run the same program at once, and a pod reruns its     *)
(* init container after a failure or a restart.  Update sends the object   *)
(* returned by Get, resourceVersion included, so the API server refuses it *)
(* (409 Conflict) if the secret changed since that Get.  A failed call may *)
(* still have been applied.  An administrator may delete a key at any      *)
(* time (kubectl edit), e.g. the initial password once it was changed.     *)
(***************************************************************************)
EXTENDS Naturals

CONSTANTS
  Procs,        \* the init container instances
  ServerProcs,  \* those that run serversecretinit; the others run secret-init
  MaxGen,       \* bound on the values generated in a run (crypto/rand draws)
  MaxRestarts,  \* bound on the reruns of each instance
  MaxEdits      \* bound on the administrator's key deletions

ASSUME SecretInitAssumption ==
  /\ ServerProcs \subseteq Procs
  /\ MaxGen \in Nat /\ MaxRestarts \in Nat /\ MaxEdits \in Nat

SecretKey == "server.secretkey"
PasswordKey == "admin.initial-password"
Keys == {SecretKey, PasswordKey}

(* numaflow-server-secret and numaflow-server-pass-secret.               *)
Secrets == {"server", "pass"}

SecretOf(p) == IF p \in ServerProcs THEN "server" ELSE "pass"

(* A generated value is a number in 1 .. MaxGen, all distinct; Absent      *)
(* marks a key that is not in Data.                                        *)
Absent == 0
Values == 0 .. MaxGen
DataMaps == [Keys -> Values]
NoData == [k \in Keys |-> Absent]

VARIABLES
  data,      \* secret -> its Data
  rv,        \* secret -> its resourceVersion
  pc,        \* instance -> "get", "update", "done" or "failed"
  seenRv,    \* instance -> the resourceVersion of the object it read
  out,       \* instance -> the Data it will Update the secret with
  gen,       \* the number of values generated so far
  restarts,  \* instance -> its reruns so far
  edits      \* the administrator's deletions so far

vars == << data, rv, pc, seenRv, out, gen, restarts, edits >>

TypeOK ==
  /\ data \in [Secrets -> DataMaps]
  /\ rv \in [Secrets -> Nat]
  /\ pc \in [Procs -> {"get", "update", "done", "failed"}]
  /\ seenRv \in [Procs -> Nat]
  /\ out \in [Procs -> DataMaps]
  /\ gen \in Values
  /\ restarts \in [Procs -> 0 .. MaxRestarts]
  /\ edits \in 0 .. MaxEdits

(* Both secrets exist (the install manifests create them) without keys.   *)
Init ==
  /\ data = [s \in Secrets |-> NoData]
  /\ rv = [s \in Secrets |-> 0]
  /\ pc = [p \in Procs |-> "get"]
  /\ seenRv = [p \in Procs |-> 0]
  /\ out = [p \in Procs |-> NoData]
  /\ gen = 0
  /\ restarts = [p \in Procs |-> 0]
  /\ edits = 0

-----------------------------------------------------------------------------
(* Two fresh values: generateRandomBytes(32) for the secret key and        *)
(* generateRandomBytes(8) for the password.                                *)
Fresh == [k \in Keys |-> IF k = SecretKey THEN gen + 1 ELSE gen + 2]

(* A Get that fails, or a generateRandomBytes that fails: return err.     *)
GetFail(p) ==
  /\ pc[p] = "get"
  /\ pc' = [pc EXCEPT ![p] = "failed"]
  /\ UNCHANGED << data, rv, seenRv, out, gen, restarts, edits >>

(* Mutant: serversecretinit generates both keys whether or not they exist. *)
ServerGetAll(p) ==
  /\ pc[p] = "get"
  /\ p \in ServerProcs
  /\ gen + 2 <= MaxGen
  /\ seenRv' = [seenRv EXCEPT ![p] = rv["server"]]
  /\ out' = [out EXCEPT ![p] = Fresh]
  /\ gen' = gen + 2
  /\ pc' = [pc EXCEPT ![p] = "update"]
  /\ UNCHANGED << data, rv, restarts, edits >>

(* serversecretinit: Get the secret, generate each missing key into       *)
(* secretMap; if one was missing, k8sSecret.Data = secretMap and go on to  *)
(* the Update, else return nil.                                            *)
ServerGet(p) ==
  /\ pc[p] = "get"
  /\ p \in ServerProcs
  /\ LET d       == data["server"]
         missing == {k \in Keys : d[k] = Absent}
     IN  IF missing = {}
           THEN /\ pc' = [pc EXCEPT ![p] = "done"]
                /\ UNCHANGED << seenRv, out, gen >>
           ELSE /\ gen + 2 <= MaxGen
                /\ seenRv' = [seenRv EXCEPT ![p] = rv["server"]]
                /\ out' = [out EXCEPT ![p] =
                             [k \in Keys |-> IF k \in missing THEN Fresh[k]
                                                              ELSE Absent]]
                /\ gen' = gen + 2
                /\ pc' = [pc EXCEPT ![p] = "update"]
  /\ UNCHANGED << data, rv, restarts, edits >>

(* secret-init: Get the secret, generate both keys, set Data to them.      *)
PassGet(p) ==
  /\ pc[p] = "get"
  /\ p \notin ServerProcs
  /\ gen + 2 <= MaxGen
  /\ seenRv' = [seenRv EXCEPT ![p] = rv["pass"]]
  /\ out' = [out EXCEPT ![p] = Fresh]
  /\ gen' = gen + 2
  /\ pc' = [pc EXCEPT ![p] = "update"]
  /\ UNCHANGED << data, rv, restarts, edits >>

(* The Update is applied: the object's resourceVersion is still current.  *)
(* lost: the reply is lost and the program returns an error all the same. *)
UpdateApplied(p, lost) ==
  LET s == SecretOf(p) IN
  /\ pc[p] = "update"
  /\ rv[s] = seenRv[p]
  /\ data' = [data EXCEPT ![s] = out[p]]
  /\ rv' = [rv EXCEPT ![s] = rv[s] + 1]
  /\ pc' = [pc EXCEPT ![p] = IF lost THEN "failed" ELSE "done"]
  /\ UNCHANGED << seenRv, out, gen, restarts, edits >>

(* The Update is refused (409 Conflict on a stale resourceVersion) or     *)
(* fails before it is applied: return an error.                            *)
UpdateFail(p) ==
  /\ pc[p] = "update"
  /\ pc' = [pc EXCEPT ![p] = "failed"]
  /\ UNCHANGED << data, rv, seenRv, out, gen, restarts, edits >>

Update(p) == UpdateApplied(p, FALSE) \/ UpdateApplied(p, TRUE) \/ UpdateFail(p)

(* The kubelet reruns the init container: after it failed, after it        *)
(* finished (the pod restarted), or when the pod dies in the middle.       *)
Restart(p) ==
  /\ pc[p] # "get"
  /\ restarts[p] < MaxRestarts
  /\ pc' = [pc EXCEPT ![p] = "get"]
  /\ restarts' = [restarts EXCEPT ![p] = restarts[p] + 1]
  /\ UNCHANGED << data, rv, seenRv, out, gen, edits >>

(* The administrator deletes a key of numaflow-server-secret.             *)
AdminDelete(k) ==
  /\ edits < MaxEdits
  /\ data["server"][k] # Absent
  /\ data' = [data EXCEPT !["server"][k] = Absent]
  /\ rv' = [rv EXCEPT !["server"] = rv["server"] + 1]
  /\ edits' = edits + 1
  /\ UNCHANGED << pc, seenRv, out, gen, restarts >>

Next ==
  \/ \E p \in Procs :
       GetFail(p) \/ ServerGet(p) \/ PassGet(p) \/ Update(p) \/ Restart(p)
  \/ \E k \in Keys : AdminDelete(k)

Spec == Init /\ [][Next]_vars

-----------------------------------------------------------------------------
(* The server secret's keys are never rotated: no step replaces a present *)
(* value of server.secretkey or admin.initial-password by another one,     *)
(* however many serversecretinit instances read, generate and Update at    *)
(* once (sessions signed with the key and the password handed out stay     *)
(* valid).                                                                 *)
NoRotationStep ==
  \A k \in Keys :
    data["server"][k] # Absent /\ data'["server"][k] # Absent
      => data'["server"][k] = data["server"][k]

NoRotation == [][NoRotationStep]_vars

(* serversecretinit only adds the keys that are missing: a step of an init *)
(* instance never removes a key of numaflow-server-secret or changes it.  *)
KeepStep ==
  (edits' = edits) =>
    \A k \in Keys :
      data["server"][k] # Absent => data'["server"][k] = data["server"][k]

ExistingKeysKept == [][KeepStep]_vars

(* Until the administrator deletes a key, serversecretinit keeps every key *)
(* it finds: the instances racing on an empty secret fill it once, and a   *)
(* stale Update is refused, so the key loss of ExistingKeysKept needs an   *)
(* administrator's edit first.                                             *)
KeptUntilEdit == [][edits = 0 => KeepStep]_vars
=============================================================================
