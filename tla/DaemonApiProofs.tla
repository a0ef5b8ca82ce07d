--------------------------- MODULE DaemonApiProofs ---------------------------
(***************************************************************************)
(* Proofs about the call path of a daemon query, for any number of         *)
(* request slots: the results stay well typed, every request is answered  *)
(* exactly once, and the status a service method returned reaches the     *)
(* caller unless the transport lost the reply.                             *)
(***************************************************************************)
EXTENDS DaemonApi, TLAPS

(* status.Convert gives every result a code of the taxonomy.               *)
LEMMA CodeOfType ==
  ASSUME NEW x \in Results
  PROVE  CodeOf(x) \in Codes
BY DEF CodeOf, Results, Codes

(* Every result a service method may return is a well-formed result.       *)
LEMMA ServiceResultsType ==
  ASSUME NEW m
  PROVE  ServiceResults(m) \subseteq {Msg, IsbErr, NotFoundErr, UnimplementedStub}
BY DEF ServiceResults

LEMMA ResultsType ==
  /\ {Msg, IsbErr, NotFoundErr, UnimplementedStub, NoResult} \subseteq Results
  /\ \A c \in Codes, w \in Causes : Err(c, w) \in Results
BY DEF Msg, IsbErr, NotFoundErr, UnimplementedStub, NoResult, Err, Results,
       Codes, Causes

-----------------------------------------------------------------------------
(* The inductive invariant.  Once its service method has returned, a       *)
(* request is past the method; what it returned is one of the service's    *)
(* results; on the way back to the gRPC server it still carries that       *)
(* result (the local gateway has no such leg); and the code it is about to *)
(* write, or has written, keeps the status of that result.                 *)
Back(r) ==
  served[r] # NoResult =>
    /\ pc[r] \in {"reply", "write", "done"}
    /\ served[r] \in {Msg, IsbErr, NotFoundErr, UnimplementedStub}
    /\ pc[r] = "reply" =>
         /\ res[r] = served[r]
         /\ ~(entry[r] = "http" /\ gwMode = "local")
    /\ pc[r] = "write" => Acceptable(r, << CodeOf(res[r]) >>)
    /\ pc[r] = "done" => Acceptable(r, writes[r])

IInv ==
  /\ TypeOK
  /\ SingleReply
  /\ \A r \in Reqs : Back(r)

-----------------------------------------------------------------------------
(* Initially every variable has its type.                                 *)
LEMMA InitType == Init => TypeOK
<1> SUFFICES ASSUME Init PROVE TypeOK
  OBVIOUS
<1>1. NoResult \in Results
  BY ResultsType
<1>2. << >> \in Seq(Codes)
  OBVIOUS
<1>3. QED
  BY <1>1, <1>2 DEF Init, TypeOK, PCs, NoMethod

(* Every step keeps each variable in its type: results stay records of the *)
(* taxonomy and the answers written are sequences of codes.                *)
LEMMA TypeStep == TypeOK /\ [Next]_vars => TypeOK'
<1> SUFFICES ASSUME TypeOK, [Next]_vars PROVE TypeOK'
  OBVIOUS
<1> USE DEF TypeOK, Goto, Fail
<1>1. ASSUME NEW r \in Reqs, NEW e \in {"http", "grpc"},
             NEW m \in DaemonMethods \cup MvtxMethods, Arrive(r, e, m)
      PROVE  TypeOK'
  BY <1>1, ResultsType DEF Arrive, PCs
<1>2. ASSUME NEW r \in Reqs, LocalHandle(r) \/ ClientHandle(r) \/ Params(r)
      PROVE  TypeOK'
  BY <1>2, ResultsType DEF LocalHandle, ClientHandle, Params, PCs, Codes,
                           Causes
<1>3. ASSUME NEW r \in Reqs, Invoke(r) \/ Decode(r) \/ Intercept(r)
      PROVE  TypeOK'
  <2>1. Err("Canceled", "transport") \in Results
        /\ Err("Unavailable", "transport") \in Results
        /\ Err("Internal", "transport") \in Results
        /\ Err("PermissionDenied", "interceptor") \in Results
    BY ResultsType DEF Codes, Causes
  <2>2. CASE Invoke(r)
    BY <2>1, <2>2 DEF Invoke, PCs
  <2>3. CASE Decode(r)
    BY <2>1, <2>3 DEF Decode, PCs
  <2>4. CASE Intercept(r)
    BY <2>1, <2>4 DEF Intercept, PCs
  <2>5. QED
    BY <1>3, <2>2, <2>3, <2>4
<1>4. ASSUME NEW r \in Reqs, Serve(r)
      PROVE  TypeOK'
  <2>1. PICK x \in ServiceResults(method[r]) :
              /\ served' = [served EXCEPT ![r] = x]
              /\ res' = [res EXCEPT ![r] = x]
    BY <1>4 DEF Serve
  <2>2. x \in Results
    BY <2>1, ServiceResultsType, ResultsType
  <2>3. QED
    BY <1>4, <2>1, <2>2 DEF Serve, PCs
<1>5. ASSUME NEW r \in Reqs, Reply(r)
      PROVE  TypeOK'
  <2>1. [res[r] EXCEPT !.code = CodeOf(res[r]), !.plain = FALSE] \in Results
    BY CodeOfType DEF Results
  <2>2. QED
    BY <1>5, <2>1, ResultsType DEF Reply, PCs, Codes, Causes
<1>6. ASSUME NEW r \in Reqs, Respond(r)
      PROVE  TypeOK'
  BY <1>6, CodeOfType DEF Respond, PCs
<1>7. CASE RegCtxDone \/ CloseConn
  BY <1>7 DEF RegCtxDone, CloseConn, reqVars
<1>8. CASE UNCHANGED vars
  BY <1>8 DEF vars
<1>9. QED
  BY <1>1, <1>2, <1>3, <1>4, <1>5, <1>6, <1>7, <1>8 DEF Next, Request

(* The variables of the call path always have their types.                *)
THEOREM TypeCorrect == Spec => []TypeOK
BY InitType, TypeStep, PTL DEF Spec
-----------------------------------------------------------------------------
(* The codes the service's results carry to a caller.                     *)
LEMMA ServiceCodes ==
  /\ CodeOf(Msg) = "OK" /\ Msg.cause = "none"
  /\ CodeOf(UnimplementedStub) = "Unimplemented"
  /\ UnimplementedStub.cause = "unsupported"
  /\ CodeOf(IsbErr) = "Unknown" /\ IsbErr.cause = "upstream"
  /\ CodeOf(NotFoundErr) = "Unknown" /\ NotFoundErr.cause = "notfound"
  /\ Msg # NoResult
BY DEF CodeOf, Msg, UnimplementedStub, Err, IsbErr, NotFoundErr, NoResult

(* Initially no service method has returned and nothing is written.        *)
LEMMA InitIInv == Init => IInv
<1> SUFFICES ASSUME Init PROVE IInv
  OBVIOUS
<1>1. TypeOK
  BY InitType
<1>2. SingleReply
  BY DEF Init, SingleReply
<1>3. \A r \in Reqs : Back(r)
  BY DEF Init, Back
<1>4. QED
  BY <1>1, <1>2, <1>3 DEF IInv

(* A step of request r leaves another request's leg of the call path,     *)
(* and so its Back, as it was.                                             *)
LEMMA BackFrame ==
  ASSUME NEW r \in Reqs, NEW s \in Reqs, Back(s),
         pc'[s] = pc[s], served'[s] = served[s], res'[s] = res[s],
         writes'[s] = writes[s], entry'[s] = entry[s], gwMode' = gwMode
  PROVE  Back(s)'
BY DEF Back, Acceptable, Lost

(* Every step keeps the inductive invariant.                               *)
LEMMA NextIInv == IInv /\ [Next]_vars => IInv'
<1> SUFFICES ASSUME IInv, [Next]_vars PROVE IInv'
  OBVIOUS
<1>0. TypeOK /\ TypeOK'
  BY TypeStep DEF IInv
<1> USE DEF Goto, Fail
(* Before its method returns, a request has served = NoResult.            *)
<1>00. \A r \in Reqs :
          pc[r] \in {"idle", "annotate", "params", "invoke", "decode",
                     "intercept", "serve"} => served[r] = NoResult
  BY DEF IInv, Back
<1>1. ASSUME NEW r \in Reqs, NEW e \in {"http", "grpc"},
             NEW m \in DaemonMethods \cup MvtxMethods, Arrive(r, e, m)
      PROVE  IInv'
  <2>1. SingleReply'
    BY <1>0, <1>1 DEF Arrive, SingleReply, IInv, TypeOK
  <2>2. ASSUME NEW s \in Reqs PROVE Back(s)'
    <3>1. CASE s = r
      BY <1>0, <1>1, <3>1 DEF Arrive, Back, TypeOK
    <3>2. CASE s # r
      BY <1>0, <1>1, <3>2, BackFrame DEF Arrive, IInv, TypeOK
    <3>3. QED
      BY <3>1, <3>2
  <2>3. QED
    BY <1>0, <2>1, <2>2 DEF IInv
(* The steps before the method: served stays NoResult, nothing written.    *)
<1>2. ASSUME NEW r \in Reqs,
             \/ LocalHandle(r) \/ ClientHandle(r) \/ Params(r)
             \/ Invoke(r) \/ Decode(r) \/ Intercept(r)
      PROVE  IInv'
  <2>1. served[r] = NoResult /\ pc[r] # "done" /\ served' = served
        /\ writes' = writes /\ entry' = entry /\ gwMode' = gwMode
    BY <1>00, <1>2 DEF LocalHandle, ClientHandle, Params, Invoke, Decode,
                      Intercept
  <2>2. pc'[r] # "done"
    BY <1>0, <1>2 DEF LocalHandle, ClientHandle, Params, Invoke, Decode,
                     Intercept, TypeOK
  <2>3. \A s \in Reqs \ {r} : pc'[s] = pc[s] /\ res'[s] = res[s]
    BY <1>0, <1>2 DEF LocalHandle, ClientHandle, Params, Invoke, Decode,
                     Intercept, TypeOK
  <2>4. SingleReply'
    BY <1>0, <2>1, <2>2, <2>3 DEF SingleReply, IInv, TypeOK
  <2>5. ASSUME NEW s \in Reqs PROVE Back(s)'
    <3>1. CASE s = r
      BY <2>1, <3>1 DEF Back
    <3>2. CASE s # r
      BY <1>0, <2>1, <2>3, <3>2, BackFrame DEF IInv
    <3>3. QED
      BY <3>1, <3>2
  <2>6. QED
    BY <1>0, <2>4, <2>5 DEF IInv
<1>3. ASSUME NEW r \in Reqs, Serve(r)
      PROVE  IInv'
  <2>1. PICK x \in ServiceResults(method[r]) :
              /\ served' = [served EXCEPT ![r] = x]
              /\ res' = [res EXCEPT ![r] = x]
    BY <1>3 DEF Serve
  <2>2. x \in {Msg, IsbErr, NotFoundErr, UnimplementedStub}
    BY <2>1, ServiceResultsType
  <2>3. /\ served'[r] = x /\ res'[r] = x /\ x # NoResult
        /\ \A s \in Reqs \ {r} : /\ served'[s] = served[s]
                                  /\ res'[s] = res[s] /\ pc'[s] = pc[s]
    <3>1. x # NoResult
      BY <2>2 DEF Msg, IsbErr, NotFoundErr, UnimplementedStub, Err, NoResult
    <3>2. QED
      BY <1>0, <1>3, <2>1, <3>1 DEF Serve, TypeOK
  <2>4. SingleReply'
    BY <1>0, <1>3 DEF Serve, SingleReply, IInv, TypeOK
  <2>5. Back(r)'
    <3>1. CASE entry[r] = "http" /\ gwMode = "local"
      <4>1. pc'[r] = "write"
        BY <1>0, <1>3, <3>1 DEF Serve, TypeOK
      <4>2. Acceptable(r, << CodeOf(res[r]) >>)'
        BY <1>3, <2>2, <2>3, <3>1, ServiceCodes DEF Serve, Acceptable
      <4>3. QED
        BY <2>2, <2>3, <4>1, <4>2 DEF Back
    <3>2. CASE ~(entry[r] = "http" /\ gwMode = "local")
      <4>1. pc'[r] = "reply"
        BY <1>0, <1>3, <3>2 DEF Serve, TypeOK
      <4>2. QED
        BY <1>3, <2>2, <2>3, <3>2, <4>1 DEF Serve, Back
    <3>3. QED
      BY <3>1, <3>2
  <2>6. ASSUME NEW s \in Reqs \ {r} PROVE Back(s)'
    BY <1>3, <2>3, BackFrame DEF Serve, IInv
  <2>7. QED
    BY <1>0, <2>4, <2>5, <2>6 DEF IInv
<1>4. ASSUME NEW r \in Reqs, Reply(r)
      PROVE  IInv'
  <2>1. PICK x \in {[res[r] EXCEPT !.code = CodeOf(res[r]), !.plain = FALSE],
                    Err("DeadlineExceeded", "transport")}
                   \cup (IF Closing(r) THEN {Err("Canceled", "transport")}
                                       ELSE {}) :
              res' = [res EXCEPT ![r] = x]
    BY <1>4 DEF Reply
  <2>2. /\ pc'[r] = "write" /\ res'[r] = x /\ served' = served
        /\ writes' = writes /\ entry' = entry /\ gwMode' = gwMode
        /\ \A s \in Reqs \ {r} : res'[s] = res[s] /\ pc'[s] = pc[s]
    BY <1>0, <1>4, <2>1 DEF Reply, TypeOK
  <2>3. SingleReply'
    BY <1>0, <1>4, <2>2 DEF Reply, SingleReply, IInv, TypeOK
  <2>4. Back(r)'
    <3>1. CASE served[r] = NoResult
      BY <2>2, <3>1 DEF Back
    <3>2. CASE served[r] # NoResult
      <4>1. /\ res[r] = served[r] /\ ~(entry[r] = "http" /\ gwMode = "local")
            /\ served[r] \in {Msg, IsbErr, NotFoundErr, UnimplementedStub}
        BY <1>4, <3>2 DEF Reply, IInv, Back
      <4>2. CodeOf(x) = CodeOf(served[r])
            \/ x = Err("DeadlineExceeded", "transport")
            \/ (x = Err("Canceled", "transport") /\ entry[r] = "http")
        <5> DEFINE conv == [res[r] EXCEPT !.code = CodeOf(res[r]),
                                          !.plain = FALSE]
        <5>1. CASE x = conv
          <6>1. res[r] \in Results
            BY <1>0 DEF TypeOK
          <6>2. conv.plain = FALSE /\ conv.code = CodeOf(res[r])
            BY <6>1 DEF Results
          <6>3. QED
            BY <4>1, <5>1, <6>2 DEF CodeOf
        <5>2. CASE x # conv
          BY <2>1, <5>2 DEF Closing
        <5>3. QED
          BY <5>1, <5>2
      <4>3. Acceptable(r, << CodeOf(x) >>)
        BY <4>1, <4>2, ServiceCodes DEF Acceptable, Lost, CodeOf, Err
      <4>4. QED
        BY <2>2, <3>2, <4>1, <4>3 DEF Back, Acceptable, Lost
    <3>3. QED
      BY <3>1, <3>2
  <2>5. ASSUME NEW s \in Reqs \ {r} PROVE Back(s)'
    BY <2>2, BackFrame DEF IInv
  <2>6. QED
    BY <1>0, <2>3, <2>4, <2>5 DEF IInv
<1>5. ASSUME NEW r \in Reqs, Respond(r)
      PROVE  IInv'
  <2>1. writes[r] = << >>
    BY <1>0, <1>5 DEF Respond, IInv, SingleReply, TypeOK
  <2>2. /\ pc'[r] = "done" /\ writes'[r] = << CodeOf(res[r]) >>
        /\ served' = served /\ res' = res /\ entry' = entry
        /\ gwMode' = gwMode
        /\ \A s \in Reqs \ {r} : writes'[s] = writes[s] /\ pc'[s] = pc[s]
    BY <1>0, <1>5, <2>1 DEF Respond, TypeOK
  <2>3. SingleReply'
    <3> SUFFICES ASSUME NEW s \in Reqs
                 PROVE  Len(writes'[s]) = IF pc'[s] = "done" THEN 1 ELSE 0
      BY DEF SingleReply
    <3>1. CASE s = r
      BY <2>2, <3>1
    <3>2. CASE s # r
      BY <2>2, <3>2 DEF IInv, SingleReply
    <3>3. QED
      BY <3>1, <3>2
  <2>4. Back(r)'
    BY <1>5, <2>2 DEF Respond, IInv, Back, Acceptable, Lost
  <2>5. ASSUME NEW s \in Reqs \ {r} PROVE Back(s)'
    BY <2>2, BackFrame DEF IInv
  <2>6. QED
    BY <1>0, <2>3, <2>4, <2>5 DEF IInv
<1>6. CASE RegCtxDone \/ CloseConn \/ UNCHANGED vars
  <2>1. UNCHANGED << gwMode, pc, entry, res, served, writes >>
    BY <1>6 DEF RegCtxDone, CloseConn, reqVars, vars
  <2>2. QED
    BY <1>0, <2>1, BackFrame DEF IInv, SingleReply
<1>7. QED
  BY <1>1, <1>2, <1>3, <1>4, <1>5, <1>6 DEF Next, Request

(* Every request is answered exactly once (SingleReply), for any number   *)
(* of requests in flight.                                                  *)
THEOREM SingleReplyHolds == Spec => []SingleReply
BY InitIInv, NextIInv, PTL DEF Spec, IInv

(* The status a service method returned reaches the caller unchanged,     *)
(* unless the transport lost the reply (StatusPreserved), for any number  *)
(* of requests in flight, in both gateway modes and over gRPC.             *)
THEOREM StatusPreservedHolds == Spec => []StatusPreserved
<1>1. IInv => StatusPreserved
  BY DEF IInv, Back, StatusPreserved
<1>2. QED
  BY InitIInv, NextIInv, <1>1, PTL DEF Spec

-----------------------------------------------------------------------------
(* What the refinement needs beyond IInv.  A request on its way back that *)
(* the method never saw carries an error of the path; the code about to   *)
(* be written is one the abstract specification allows: the status of the *)
(* method's result exactly, or a lost reply's.                             *)
Fwd(r) ==
  /\ pc[r] = "reply" /\ served[r] = NoResult => CodeOf(res[r]) \in AbsD!UnservedCodes
  /\ pc[r] = "write" => CodeOf(res[r]) \in AbsD!Allowed(r)

RInv == IInv /\ \A r \in Reqs : Fwd(r)

(* The codes the abstract specification allows a request.                 *)
LEMMA AllowedCodes ==
  ASSUME NEW r \in Reqs
  PROVE  /\ served[r] = NoResult => AbsD!Allowed(r) = AbsD!UnservedCodes
         /\ served[r] # NoResult =>
              AbsD!Allowed(r) = {CodeOf(served[r])} \cup AbsD!LostCodes(r)
BY DEF AbsD!Allowed

LEMMA InitRInv == Init => RInv
BY InitIInv DEF Init, RInv, Fwd

(* A step of request r leaves another request's Fwd as it was.            *)
LEMMA FwdFrame ==
  ASSUME NEW s \in Reqs, Fwd(s),
         pc'[s] = pc[s], served'[s] = served[s], res'[s] = res[s],
         entry'[s] = entry[s], gwMode' = gwMode
  PROVE  Fwd(s)'
BY DEF Fwd, AbsD!Allowed, AbsD!LostCodes, AbsD!UnservedCodes

(* The codes allowed a request depend only on what its method returned,   *)
(* its entry and the gateway's mode.                                       *)
LEMMA AllowedFrame ==
  ASSUME NEW r \in Reqs, served'[r] = served[r], entry'[r] = entry[r],
         gwMode' = gwMode
  PROVE  AbsD!Allowed(r)' = AbsD!Allowed(r)
BY DEF AbsD!Allowed, AbsD!LostCodes

(* The code of an error of the path is its own.                            *)
LEMMA ErrCode ==
  ASSUME NEW c, NEW w
  PROVE  CodeOf(Err(c, w)) = c
BY DEF CodeOf, Err

LEMMA NextRInv == RInv /\ [Next]_vars => RInv'
<1> SUFFICES ASSUME RInv, [Next]_vars PROVE RInv'
  OBVIOUS
<1>0. IInv /\ IInv' /\ TypeOK /\ TypeOK' /\ \A r \in Reqs : Fwd(r)
  BY NextIInv, TypeStep DEF RInv, IInv
<1> USE DEF Goto, Fail
<1> SUFFICES ASSUME NEW s \in Reqs PROVE Fwd(s)'
  BY <1>0 DEF RInv
<1>1. ASSUME NEW r \in Reqs, NEW e \in {"http", "grpc"},
             NEW m \in DaemonMethods \cup MvtxMethods, Arrive(r, e, m)
      PROVE  Fwd(s)'
  <2>1. CASE s = r
    BY <1>0, <1>1, <2>1 DEF Arrive, Fwd, TypeOK
  <2>2. CASE s # r
    BY <1>0, <1>1, <2>2, FwdFrame DEF Arrive, TypeOK
  <2>3. QED
    BY <2>1, <2>2
<1>2. ASSUME NEW r \in Reqs,
             \/ LocalHandle(r) \/ ClientHandle(r) \/ Params(r)
             \/ Invoke(r) \/ Decode(r) \/ Intercept(r)
      PROVE  Fwd(s)'
  <2>1. pc[r] \in {"annotate", "params", "invoke", "decode", "intercept"}
    BY <1>2 DEF LocalHandle, ClientHandle, Params, Invoke, Decode, Intercept
  <2>2. served[r] = NoResult
    BY <1>0, <2>1 DEF IInv, Back
  <2>3. served' = served /\ entry' = entry /\ gwMode' = gwMode
    BY <1>2 DEF LocalHandle, ClientHandle, Params, Invoke, Decode, Intercept
  <2>4. \A t \in Reqs \ {r} : pc'[t] = pc[t] /\ res'[t] = res[t]
    BY <1>0, <1>2 DEF LocalHandle, ClientHandle, Params, Invoke, Decode,
                     Intercept, TypeOK
  <2>5. CASE s # r
    BY <1>0, <2>3, <2>4, <2>5, FwdFrame
  (* Every error these steps return is one of the path's.                  *)
  <2>6. CASE s = r
    <3>1. \/ pc'[r] \notin {"reply", "write"}
          \/ res'[r] \in {Err("InvalidArgument", "request"),
                          Err("Canceled", "transport"),
                          Err("Unavailable", "transport"),
                          Err("Internal", "transport"),
                          Err("PermissionDenied", "interceptor")}
      BY <1>0, <1>2 DEF LocalHandle, ClientHandle, Params, Invoke, Decode,
                        Intercept, TypeOK
    <3>2. pc'[r] \notin {"reply", "write"} \/ CodeOf(res'[r]) \in AbsD!UnservedCodes
      BY <3>1, ErrCode DEF AbsD!UnservedCodes
    <3>3. AbsD!Allowed(r)' = AbsD!UnservedCodes
      BY <2>2, <2>3, AllowedFrame, AllowedCodes
    <3>4. QED
      BY <2>2, <2>3, <2>6, <3>2, <3>3 DEF Fwd
  <2>7. QED
    BY <2>5, <2>6
<1>3. ASSUME NEW r \in Reqs, Serve(r)
      PROVE  Fwd(s)'
  <2>1. PICK x \in ServiceResults(method[r]) :
              /\ served' = [served EXCEPT ![r] = x]
              /\ res' = [res EXCEPT ![r] = x]
    BY <1>3 DEF Serve
  <2>2. x \in {Msg, IsbErr, NotFoundErr, UnimplementedStub} /\ x # NoResult
    BY <2>1, ServiceResultsType
       DEF Msg, IsbErr, NotFoundErr, UnimplementedStub, Err, NoResult
  <2>3. /\ served'[r] = x /\ res'[r] = x
        /\ entry' = entry /\ gwMode' = gwMode
        /\ \A t \in Reqs \ {r} : /\ served'[t] = served[t]
                                  /\ res'[t] = res[t] /\ pc'[t] = pc[t]
    BY <1>0, <1>3, <2>1 DEF Serve, TypeOK
  <2>4. CASE s = r
    <3>1. CodeOf(res'[r]) \in AbsD!Allowed(r)'
      BY <2>2, <2>3 DEF AbsD!Allowed
    <3>2. QED
      BY <2>2, <2>3, <2>4, <3>1 DEF Fwd
  <2>5. CASE s # r
    BY <1>0, <2>3, <2>5, FwdFrame
  <2>6. QED
    BY <2>4, <2>5
<1>4. ASSUME NEW r \in Reqs, Reply(r)
      PROVE  Fwd(s)'
  <2> DEFINE conv == [res[r] EXCEPT !.code = CodeOf(res[r]), !.plain = FALSE]
  <2>1. PICK x \in {conv, Err("DeadlineExceeded", "transport")}
                   \cup (IF Closing(r) THEN {Err("Canceled", "transport")}
                                       ELSE {}) :
              res' = [res EXCEPT ![r] = x]
    BY <1>4 DEF Reply
  <2>2. /\ pc[r] = "reply" /\ pc'[r] = "write" /\ res'[r] = x
        /\ served' = served /\ entry' = entry /\ gwMode' = gwMode
        /\ \A t \in Reqs \ {r} : res'[t] = res[t] /\ pc'[t] = pc[t]
    BY <1>0, <1>4, <2>1 DEF Reply, TypeOK
  <2>3. CASE s # r
    BY <1>0, <2>2, <2>3, FwdFrame
  <2>4. CASE s = r
    <3>1. CodeOf(x) = CodeOf(res[r])
          \/ CodeOf(x) = "DeadlineExceeded"
          \/ (CodeOf(x) = "Canceled" /\ entry[r] = "http")
      <4>1. CASE x = conv
        <5>1. res[r] \in Results
          BY <1>0 DEF TypeOK
        <5>2. QED
          BY <4>1, <5>1 DEF Results, CodeOf
      <4>2. CASE x = Err("DeadlineExceeded", "transport")
        BY <4>2, ErrCode
      <4>3. CASE x = Err("Canceled", "transport") /\ Closing(r)
        BY <4>3, ErrCode DEF Closing
      <4>4. QED
        BY <2>1, <4>1, <4>2, <4>3
    <3>2. AbsD!Allowed(r)' = AbsD!Allowed(r)
      BY <2>2, AllowedFrame
    <3>3. CodeOf(res'[r]) \in AbsD!Allowed(r)
      <4>1. CASE served[r] = NoResult
        <5>1. CodeOf(res[r]) \in AbsD!UnservedCodes
          BY <1>0, <2>2, <4>1 DEF Fwd
        <5>2. QED
          BY <2>2, <3>1, <4>1, <5>1, AllowedCodes DEF AbsD!UnservedCodes
      <4>2. CASE served[r] # NoResult
        <5>1. res[r] = served[r] /\ ~(entry[r] = "http" /\ gwMode = "local")
          BY <1>0, <2>2, <4>2 DEF IInv, Back
        <5>2. QED
          BY <2>2, <3>1, <4>2, <5>1, AllowedCodes DEF AbsD!LostCodes
      <4>3. QED
        BY <4>1, <4>2
    <3>4. QED
      BY <2>2, <2>4, <3>2, <3>3 DEF Fwd
  <2>5. QED
    BY <2>3, <2>4
<1>5. ASSUME NEW r \in Reqs, Respond(r)
      PROVE  Fwd(s)'
  <2>1. /\ pc'[r] = "done" /\ res' = res /\ served' = served
        /\ entry' = entry /\ gwMode' = gwMode
        /\ \A t \in Reqs \ {r} : pc'[t] = pc[t]
    BY <1>0, <1>5 DEF Respond, TypeOK
  <2>2. CASE s = r
    BY <2>1, <2>2 DEF Fwd
  <2>3. CASE s # r
    BY <1>0, <2>1, <2>3, FwdFrame
  <2>4. QED
    BY <2>2, <2>3
<1>6. CASE RegCtxDone \/ CloseConn \/ UNCHANGED vars
  <2>1. UNCHANGED << gwMode, pc, entry, res, served, writes >>
    BY <1>6 DEF RegCtxDone, CloseConn, reqVars, vars
  <2>2. QED
    BY <1>0, <2>1, FwdFrame
<1>7. QED
  BY <1>1, <1>2, <1>3, <1>4, <1>5, <1>6 DEF Next, Request

-----------------------------------------------------------------------------
(* A step that moves request r between two points of the call path, past  *)
(* arrival and before the answer, leaves every request's phase alone.      *)
LEMMA PhaseHidden ==
  ASSUME NEW r \in Reqs, pc \in [Reqs -> PCs],
         NEW p \in PCs \ {"idle", "done"},
         pc[r] \notin {"idle", "done"}, pc' = [pc EXCEPT ![r] = p]
  PROVE  phaseBar' = phaseBar
BY DEF phaseBar

(* A step that moves request r to the point q changes its phase only.     *)
LEMMA PhaseMoves ==
  ASSUME NEW r \in Reqs, pc \in [Reqs -> PCs], NEW q \in PCs,
         pc' = [pc EXCEPT ![r] = q]
  PROVE  phaseBar' = [phaseBar EXCEPT ![r] = phaseBar'[r]]
BY DEF phaseBar

(* Under RInv every step is a step of AbstractDaemonApi or leaves its     *)
(* variables alone: an arrival is Arrive, the service method's run is     *)
(* Serve, the write of the answer is Answer, and every other step (the mux *)
(* handler, the stubs, the interceptor, the reply, the gateway's context   *)
(* and connection) is hidden.                                              *)
LEMMA RefineStep == RInv /\ [Next]_vars => [AbsD!Next]_(AbsD!avars)
<1> SUFFICES ASSUME RInv, [Next]_vars PROVE [AbsD!Next]_(AbsD!avars)
  OBVIOUS
<1>0. TypeOK /\ SingleReply /\ \A r \in Reqs : Back(r) /\ Fwd(r)
  BY DEF RInv, IInv
<1> USE DEF Goto, Fail
<1>1. ASSUME NEW r \in Reqs, NEW e \in {"http", "grpc"},
             NEW m \in DaemonMethods \cup MvtxMethods, Arrive(r, e, m)
      PROVE  AbsD!Next
  <2>1. phaseBar[r] \in {"idle", "answered"}
    BY <1>1 DEF Arrive, phaseBar
  <2>2. phaseBar' = [phaseBar EXCEPT ![r] = "open"]
    <3>1. pc' = [pc EXCEPT ![r] = IF e = "http" THEN "annotate" ELSE "invoke"]
      BY <1>1 DEF Arrive
    <3>2. phaseBar'[r] = "open"
      BY <1>0, <3>1 DEF phaseBar, TypeOK
    <3>3. QED
      BY <1>0, <3>1, <3>2, PhaseMoves DEF TypeOK, PCs
  <2>3. AbsD!Arrive(r, e, m)
    BY <1>1, <2>1, <2>2 DEF Arrive, AbsD!Arrive
  <2>4. QED
    BY <2>3 DEF AbsD!Next
(* The steps between arrival and the service method, and the reply.       *)
<1>2. ASSUME NEW r \in Reqs,
             \/ LocalHandle(r) \/ ClientHandle(r) \/ Params(r)
             \/ Invoke(r) \/ Decode(r) \/ Intercept(r) \/ Reply(r)
      PROVE  UNCHANGED AbsD!avars
  <2>1. pc[r] \notin {"idle", "done"}
    BY <1>2 DEF LocalHandle, ClientHandle, Params, Invoke, Decode, Intercept,
                Reply
  <2>2. \E p \in PCs \ {"idle", "done"} : pc' = [pc EXCEPT ![r] = p]
    BY <1>2 DEF LocalHandle, ClientHandle, Params, Invoke, Decode, Intercept,
                Reply, PCs
  <2>3. phaseBar' = phaseBar
    BY <1>0, <2>1, <2>2, PhaseHidden DEF TypeOK
  <2>4. UNCHANGED << gwMode, entry, method, served, writes >>
    BY <1>2 DEF LocalHandle, ClientHandle, Params, Invoke, Decode, Intercept,
                Reply
  <2>5. QED
    BY <2>3, <2>4 DEF AbsD!avars
<1>3. ASSUME NEW r \in Reqs, Serve(r)
      PROVE  AbsD!Next
  <2>1. phaseBar[r] = "open" /\ served[r] = NoResult
    BY <1>0, <1>3 DEF Serve, phaseBar, Back
  <2>2. phaseBar' = phaseBar
    <3>1. pc' = [pc EXCEPT ![r] = IF entry[r] = "http" /\ gwMode = "local"
                                    THEN "write" ELSE "reply"]
      BY <1>3 DEF Serve
    <3>2. QED
      BY <1>0, <1>3, <3>1, PhaseHidden DEF Serve, TypeOK, PCs
  <2>3. AbsD!Serve(r)
    BY <1>3, <2>1, <2>2 DEF Serve, AbsD!Serve
  <2>4. QED
    BY <2>3 DEF AbsD!Next
<1>4. ASSUME NEW r \in Reqs, Respond(r)
      PROVE  AbsD!Next
  <2>1. phaseBar[r] = "open"
    BY <1>4 DEF Respond, phaseBar
  <2>2. CodeOf(res[r]) \in AbsD!Allowed(r)
    BY <1>0, <1>4 DEF Respond, Fwd
  <2>3. writes[r] = << >>
    BY <1>0, <1>4 DEF Respond, SingleReply, TypeOK
  <2>4. writes' = [writes EXCEPT ![r] = << CodeOf(res[r]) >>]
    BY <1>4, <2>3 DEF Respond
  <2>5. phaseBar' = [phaseBar EXCEPT ![r] = "answered"]
    <3>1. pc' = [pc EXCEPT ![r] = "done"]
      BY <1>4 DEF Respond
    <3>2. phaseBar'[r] = "answered"
      BY <1>0, <3>1 DEF phaseBar, TypeOK
    <3>3. QED
      BY <1>0, <3>1, <3>2, PhaseMoves DEF TypeOK, PCs
  <2>6. AbsD!Answer(r)
    BY <1>4, <2>1, <2>2, <2>4, <2>5 DEF Respond, AbsD!Answer
  <2>7. QED
    BY <2>6 DEF AbsD!Next
<1>5. CASE RegCtxDone \/ CloseConn \/ UNCHANGED vars
  BY <1>5 DEF RegCtxDone, CloseConn, reqVars, vars, AbsD!avars, phaseBar
<1>6. QED
  BY <1>1, <1>2, <1>3, <1>4, <1>5 DEF Next, Request

(* For any number of request slots, the call path implements              *)
(* AbstractDaemonApi (Refinement): whatever the gateway mode, the          *)
(* interceptor and the closing of the gateway's connection, each request's *)
(* service method runs at most once, the request is answered once with the *)
(* status of the method's result or of a lost reply, and a request the     *)
(* method never saw is never answered OK.                                  *)
THEOREM RefinementHolds == Spec => Refinement
<1>1. Init => AbsD!Init
  BY DEF Init, AbsD!Init, phaseBar
<1>2. RInv /\ [][Next]_vars => [][AbsD!Next]_(AbsD!avars)
  BY NextRInv, RefineStep, PTL
<1>3. QED
  BY <1>1, <1>2, InitRInv, PTL DEF Spec, Refinement, AbsD!Spec
=============================================================================
