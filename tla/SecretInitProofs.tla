-------------------------- MODULE SecretInitProofs --------------------------
(***************************************************************************)
(* Proofs about the server secret bootstrap, for any number of instances,  *)
(* reruns and administrator edits: the values of numaflow-server-secret    *)
(* are never rotated, because the resourceVersion check refuses every      *)
(* Update built from a stale read.                                         *)
(***************************************************************************)
EXTENDS SecretInit, TLAPS

(* The inductive invariant.  A serversecretinit instance never read a      *)
(* version newer than the secret's; and one about to Update with the       *)
(* secret's current version only adds keys that are missing from it (its  *)
(* read is still current, since every change of Data bumps the version).  *)
Fresher ==
  \A p \in ServerProcs :
    /\ seenRv[p] <= rv["server"]
    /\ pc[p] = "update" /\ seenRv[p] = rv["server"] =>
         \A k \in Keys : out[p][k] # Absent => data["server"][k] = Absent

IInv == TypeOK /\ Fresher
-----------------------------------------------------------------------------
(* Two fresh values of a run within its bound are values of Data.          *)
LEMMA FreshType ==
  ASSUME gen \in Values, gen + 2 <= MaxGen
  PROVE  Fresh \in DataMaps
BY SecretInitAssumption DEF Fresh, DataMaps, Values, Keys

LEMMA InitIInv == Init => IInv
BY SecretInitAssumption
   DEF Init, IInv, TypeOK, Fresher, DataMaps, NoData, Values, Absent, Secrets

(* Every step keeps IInv: one case per action, and for each the instances *)
(* whose read it can make stale or current.                                *)
LEMMA NextIInv == IInv /\ [Next]_vars => IInv'
<1> SUFFICES ASSUME IInv, [Next]_vars PROVE IInv'
  OBVIOUS
<1>0. TypeOK /\ Fresher
  BY DEF IInv
<1> USE SecretInitAssumption DEF Secrets, SecretOf
<1>1. ASSUME NEW p \in Procs, GetFail(p)
      PROVE  IInv'
  BY <1>0, <1>1 DEF GetFail, IInv, TypeOK, Fresher
<1>2. ASSUME NEW p \in Procs, ServerGet(p)
      PROVE  IInv'
  <2> DEFINE missing == {k \in Keys : data["server"][k] = Absent}
  <2>1. CASE missing = {}
    BY <1>0, <1>2, <2>1 DEF ServerGet, IInv, TypeOK, Fresher
  <2>2. CASE missing # {}
    <3>1. /\ gen + 2 <= MaxGen
          /\ seenRv' = [seenRv EXCEPT ![p] = rv["server"]]
          /\ out' = [out EXCEPT ![p] = [k \in Keys |-> IF k \in missing
                                                      THEN Fresh[k]
                                                      ELSE Absent]]
          /\ gen' = gen + 2
          /\ pc' = [pc EXCEPT ![p] = "update"]
          /\ UNCHANGED << data, rv, restarts, edits >>
      BY <1>2, <2>2 DEF ServerGet
    <3>2. Fresh \in DataMaps
      BY <1>0, <3>1, FreshType DEF TypeOK
    <3>3. TypeOK'
      BY <1>0, <3>1, <3>2 DEF TypeOK, DataMaps, Values, Absent
    <3>4. Fresher'
      BY <1>0, <1>2, <3>1 DEF Fresher, TypeOK
    <3>5. QED
      BY <3>3, <3>4 DEF IInv
  <2>3. QED
    BY <2>1, <2>2
<1>3. ASSUME NEW p \in Procs, PassGet(p)
      PROVE  IInv'
  <2>1. Fresh \in DataMaps
    BY <1>0, <1>3, FreshType DEF PassGet, TypeOK
  <2>2. TypeOK'
    BY <1>0, <1>3, <2>1 DEF PassGet, TypeOK, Values
  <2>3. Fresher'
    BY <1>0, <1>3 DEF PassGet, Fresher, TypeOK
  <2>4. QED
    BY <2>2, <2>3 DEF IInv
<1>4. ASSUME NEW p \in Procs, NEW lost \in BOOLEAN, UpdateApplied(p, lost)
      PROVE  IInv'
  <2>1. TypeOK'
    BY <1>0, <1>4 DEF UpdateApplied, TypeOK, SecretOf, Secrets
  <2>2. CASE p \in ServerProcs
    <3>1. /\ rv'["server"] = rv["server"] + 1
          /\ pc'[p] \in {"done", "failed"}
          /\ \A q \in Procs \ {p} : pc'[q] = pc[q]
          /\ seenRv' = seenRv /\ out' = out
      BY <1>0, <1>4, <2>2 DEF UpdateApplied, SecretOf, TypeOK, Secrets
    <3>2. Fresher'
      BY <1>0, <3>1 DEF Fresher, TypeOK
    <3>3. QED
      BY <2>1, <3>2 DEF IInv
  <2>3. CASE p \notin ServerProcs
    <3>1. /\ rv'["server"] = rv["server"] /\ data'["server"] = data["server"]
          /\ \A q \in ServerProcs : pc'[q] = pc[q]
          /\ seenRv' = seenRv /\ out' = out
      BY <1>0, <1>4, <2>3 DEF UpdateApplied, SecretOf, TypeOK, Secrets
    <3>2. Fresher'
      BY <1>0, <3>1 DEF Fresher
    <3>3. QED
      BY <2>1, <3>2 DEF IInv
  <2>4. QED
    BY <2>2, <2>3
<1>5. ASSUME NEW p \in Procs, UpdateFail(p) \/ Restart(p)
      PROVE  IInv'
  BY <1>0, <1>5 DEF UpdateFail, Restart, IInv, TypeOK, Fresher
<1>6. ASSUME NEW k \in Keys, AdminDelete(k)
      PROVE  IInv'
  <2>1. TypeOK'
    BY <1>0, <1>6 DEF AdminDelete, TypeOK, DataMaps, Values, Absent, Secrets
  <2>2. rv'["server"] = rv["server"] + 1 /\ UNCHANGED << pc, seenRv, out >>
    BY <1>0, <1>6 DEF AdminDelete, TypeOK, Secrets
  <2>3. Fresher'
    BY <1>0, <2>2 DEF Fresher, TypeOK
  <2>4. QED
    BY <2>1, <2>3 DEF IInv
<1>7. CASE UNCHANGED vars
  BY <1>0, <1>7 DEF vars, IInv, TypeOK, Fresher
<1>8. QED
  BY <1>1, <1>2, <1>3, <1>4, <1>5, <1>6, <1>7 DEF Next, Update

(* Under IInv no step replaces a present key of the server secret.         *)
LEMMA StepKeepsValues == IInv /\ [Next]_vars => [NoRotationStep]_vars
<1> SUFFICES ASSUME IInv, [Next]_vars PROVE NoRotationStep
  OBVIOUS
<1>0. TypeOK /\ Fresher
  BY DEF IInv
<1> USE SecretInitAssumption DEF Secrets, SecretOf
<1>1. ASSUME NEW p \in Procs, NEW lost \in BOOLEAN, UpdateApplied(p, lost)
      PROVE  NoRotationStep
  <2>1. CASE p \in ServerProcs
    <3>1. /\ rv["server"] = seenRv[p] /\ pc[p] = "update"
          /\ data'["server"] = out[p]
      BY <1>0, <1>1, <2>1 DEF UpdateApplied, SecretOf, TypeOK, Secrets
    <3>2. \A k \in Keys : out[p][k] # Absent => data["server"][k] = Absent
      BY <1>0, <2>1, <3>1 DEF Fresher
    <3>3. QED
      BY <3>2, <3>1 DEF NoRotationStep
  <2>2. CASE p \notin ServerProcs
    BY <1>0, <1>1, <2>2 DEF UpdateApplied, SecretOf, NoRotationStep, TypeOK,
                            Secrets
  <2>3. QED
    BY <2>1, <2>2
<1>2. ASSUME NEW k \in Keys, AdminDelete(k)
      PROVE  NoRotationStep
  BY <1>0, <1>2 DEF AdminDelete, NoRotationStep, TypeOK, DataMaps, Keys,
                    Secrets
<1>3. CASE UNCHANGED data
  BY <1>3 DEF NoRotationStep
<1>4. QED
  BY <1>1, <1>2, <1>3 DEF Next, Update, GetFail, ServerGet, PassGet,
                          UpdateFail, Restart, vars

(* The keys of numaflow-server-secret are never rotated (NoRotation), for  *)
(* any number of serversecretinit and secret-init instances, reruns and    *)
(* administrator deletions.                                                *)
THEOREM NoRotationHolds == Spec => NoRotation
<1>1. IInv /\ [][Next]_vars => [][NoRotationStep]_vars
  BY NextIInv, StepKeepsValues, PTL
<1>2. QED
  BY InitIInv, <1>1, PTL DEF Spec, NoRotation

-----------------------------------------------------------------------------
(* While the administrator has deleted nothing, the server secret is empty *)
(* or holds both keys, and an instance about to Update generated both: it  *)
(* read the secret empty, since a read of the full secret ends the run.    *)
Filled ==
  \/ data["server"] = NoData
  \/ \A k \in Keys : data["server"][k] # Absent

NoEditInv ==
  edits = 0 =>
    /\ Filled
    /\ \A p \in ServerProcs :
         pc[p] = "update" => \A k \in Keys : out[p][k] # Absent

KInv == IInv /\ NoEditInv

(* Fresh values are never Absent.                                          *)
LEMMA FreshPresent ==
  ASSUME gen \in Values
  PROVE  \A k \in Keys : Fresh[k] # Absent
BY SecretInitAssumption DEF Fresh, Values, Absent, Keys

LEMMA InitKInv == Init => KInv
BY InitIInv, SecretInitAssumption DEF Init, KInv, NoEditInv, Filled, Secrets

LEMMA NextKInv == KInv /\ [Next]_vars => KInv'
<1> SUFFICES ASSUME KInv, [Next]_vars PROVE KInv'
  OBVIOUS
<1>0. TypeOK /\ Fresher /\ NoEditInv /\ IInv'
  BY NextIInv DEF KInv, IInv
<1> USE SecretInitAssumption DEF Secrets, SecretOf
<1> SUFFICES ASSUME edits' = 0 PROVE NoEditInv'
  BY <1>0 DEF KInv, NoEditInv
<1>1. ASSUME NEW p \in Procs, GetFail(p) \/ PassGet(p) \/ UpdateFail(p)
                                         \/ Restart(p)
      PROVE  NoEditInv'
  <2>1. /\ data' = data /\ edits' = edits
        /\ \A q \in ServerProcs : pc'[q] = "update" => pc[q] = "update" /\ out'[q] = out[q]
    BY <1>0, <1>1 DEF GetFail, PassGet, UpdateFail, Restart, TypeOK
  <2>2. QED
    BY <1>0, <2>1 DEF NoEditInv, Filled
<1>2. ASSUME NEW p \in Procs, ServerGet(p)
      PROVE  NoEditInv'
  <2> DEFINE missing == {k \in Keys : data["server"][k] = Absent}
  <2>1. data' = data /\ edits' = edits /\ edits = 0
    BY <1>2 DEF ServerGet
  <2>2. CASE missing = {}
    BY <1>0, <1>2, <2>1, <2>2 DEF ServerGet, NoEditInv, Filled, TypeOK
  <2>3. CASE missing # {}
    <3>1. missing = Keys
      BY <1>0, <2>1, <2>3 DEF NoEditInv, Filled, NoData
    <3>2. /\ out'[p] = [k \in Keys |-> IF k \in missing THEN Fresh[k]
                                                        ELSE Absent]
          /\ pc'[p] = "update"
          /\ \A q \in Procs \ {p} : pc'[q] = pc[q] /\ out'[q] = out[q]
      BY <1>0, <1>2, <2>3 DEF ServerGet, TypeOK
    <3>3. \A k \in Keys : out'[p][k] # Absent
      BY <1>0, <3>1, <3>2, FreshPresent DEF TypeOK
    <3>4. QED
      BY <1>0, <2>1, <3>2, <3>3 DEF NoEditInv, Filled
  <2>4. QED
    BY <2>2, <2>3
<1>3. ASSUME NEW p \in Procs, NEW lost \in BOOLEAN, UpdateApplied(p, lost)
      PROVE  NoEditInv'
  <2>1. /\ edits' = edits /\ edits = 0 /\ out' = out
        /\ pc'[p] # "update" /\ \A q \in Procs \ {p} : pc'[q] = pc[q]
    BY <1>0, <1>3 DEF UpdateApplied, TypeOK
  <2>2. CASE p \in ServerProcs
    <3>1. /\ rv["server"] = seenRv[p] /\ pc[p] = "update"
          /\ data'["server"] = out[p]
      BY <1>0, <1>3, <2>2 DEF UpdateApplied, TypeOK
    <3>2. \A k \in Keys : out[p][k] # Absent
      BY <1>0, <2>1, <2>2, <3>1 DEF NoEditInv
    <3>3. Filled'
      BY <3>1, <3>2 DEF Filled
    <3>4. QED
      BY <1>0, <2>1, <3>3 DEF NoEditInv
  <2>3. CASE p \notin ServerProcs
    <3>1. data'["server"] = data["server"]
      BY <1>0, <1>3, <2>3 DEF UpdateApplied, TypeOK
    <3>2. QED
      BY <1>0, <2>1, <2>3, <3>1 DEF NoEditInv, Filled
  <2>4. QED
    BY <2>2, <2>3
<1>4. ASSUME NEW k \in Keys, AdminDelete(k)
      PROVE  NoEditInv'
  BY <1>0, <1>4 DEF AdminDelete, TypeOK
<1>5. CASE UNCHANGED vars
  BY <1>0, <1>5 DEF vars, NoEditInv, Filled
<1>6. QED
  BY <1>1, <1>2, <1>3, <1>4, <1>5 DEF Next, Update

(* Under KInv a step with no edit yet keeps every present key: the only    *)
(* Update that gets through is one built from the empty secret.            *)
LEMMA StepKeeps == KInv /\ [Next]_vars => [edits = 0 => KeepStep]_vars
<1> SUFFICES ASSUME KInv, [Next]_vars, edits = 0, edits' = edits
             PROVE  \A k \in Keys :
                      data["server"][k] # Absent => data'["server"][k] = data["server"][k]
  BY DEF KeepStep
<1>0. TypeOK /\ Fresher /\ NoEditInv
  BY DEF KInv, IInv
<1> USE SecretInitAssumption DEF Secrets, SecretOf
<1>1. ASSUME NEW p \in Procs, NEW lost \in BOOLEAN, UpdateApplied(p, lost)
      PROVE  \A k \in Keys :
               data["server"][k] # Absent => data'["server"][k] = data["server"][k]
  <2>1. CASE p \in ServerProcs
    <3>1. rv["server"] = seenRv[p] /\ pc[p] = "update"
      BY <1>0, <1>1, <2>1 DEF UpdateApplied, TypeOK
    <3>2. \A k \in Keys : out[p][k] # Absent
      BY <1>0, <2>1, <3>1 DEF NoEditInv
    <3>3. \A k \in Keys : data["server"][k] = Absent
      BY <1>0, <2>1, <3>1, <3>2 DEF Fresher
    <3>4. QED
      BY <3>3
  <2>2. CASE p \notin ServerProcs
    BY <1>0, <1>1, <2>2 DEF UpdateApplied, TypeOK
  <2>3. QED
    BY <2>1, <2>2
<1>2. ASSUME NEW k \in Keys, AdminDelete(k)
      PROVE  FALSE
  BY <1>2 DEF AdminDelete
<1>3. CASE UNCHANGED data
  BY <1>3
<1>4. QED
  BY <1>1, <1>2, <1>3 DEF Next, Update, GetFail, ServerGet, PassGet,
                          UpdateFail, Restart, vars

(* Until the administrator deletes a key, no step of the init instances   *)
(* removes or changes a key of numaflow-server-secret (KeptUntilEdit), for *)
(* any number of racing instances and reruns: the loss ExistingKeysKept    *)
(* exhibits needs an edit first.                                           *)
THEOREM KeptUntilEditHolds == Spec => KeptUntilEdit
<1>1. KInv /\ [][Next]_vars => [][edits = 0 => KeepStep]_vars
  BY NextKInv, StepKeeps, PTL
<1>2. QED
  BY InitKInv, <1>1, PTL DEF Spec, KeptUntilEdit
=============================================================================
