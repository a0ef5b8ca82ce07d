------------------------------ MODULE DaemonApi ------------------------------
(***************************************************************************)
(* The call path of a daemon query, from the caller to the service method  *)
(* and back (the generated daemon.pb.gw.go, daemon_grpc.pb.go and          *)
(* mvtxdaemon_grpc.pb.go, and the service methods of                       *)
(* pipeline_metrics_query.go).                                             *)
(*                                                                         *)
(* An HTTP request enters a mux handler of the grpc-gateway.  The gateway  *)
(* is registered in one of two ways: RegisterDaemonServiceHandlerServer    *)
(* calls the DaemonServiceServer directly ("local"), and                  *)
(* RegisterDaemonServiceHandlerFromEndpoint dials the daemon's own gRPC    *)
(* port and goes through the generated client ("endpoint").  A gRPC       *)
(* client may also call either service directly.  On the server side the  *)
(* generated _Handler decodes the request and calls the method, through    *)
(* the server's interceptor if it has one.                                 *)
(*                                                                         *)
(* Data is abstracted to the outcome of each step: a result is a response  *)
(* message or an error, and an error is a gRPC status (its code) or a      *)
(* plain Go error (fmt.Errorf), which the gRPC server and                  *)
(* runtime.HTTPError turn into codes.Unknown (status.Convert).  The field  *)
(* cause records, for the properties, why a service method failed in the   *)
(* terms of the error taxonomy of the daemon's queries.                    *)
(***************************************************************************)
EXTENDS Naturals, Sequences

CONSTANT Reqs   \* the request slots: requests in flight at once

(* DaemonService_ServiceDesc and MonoVertexDaemonService_ServiceDesc.      *)
DaemonMethods == {"ListBuffers", "GetBuffer", "GetVertexMetrics",
                  "GetPipelineWatermarks", "GetPipelineStatus",
                  "GetVertexErrors"}
MvtxMethods == {"GetMonoVertexMetrics", "GetMonoVertexStatus",
                "GetMonoVertexErrors"}

(* The variables each route pattern binds (pattern_DaemonService_*_0).    *)
PathParams == [m \in DaemonMethods |->
                CASE m = "GetBuffer" -> {"pipeline", "buffer"}
                  [] m = "GetVertexMetrics" -> {"pipeline", "vertex"}
                  [] m = "GetVertexErrors" -> {"pipeline", "vertex", "replica"}
                  [] OTHER -> {"pipeline"}]

(* The parameters request_/local_request_ read from pathParams; a missing *)
(* one is InvalidArgument, and runtime.String never fails.                 *)
RequiredParams(m) ==
  CASE m = "GetBuffer" -> {"pipeline", "buffer"}
    [] m = "GetVertexMetrics" -> {"pipeline", "vertex"}
    [] m = "GetVertexErrors" -> {"pipeline", "vertex", "replica"}
    [] OTHER -> {"pipeline"}

Err(c, why) == [code |-> c, plain |-> FALSE, cause |-> why]
Msg == [code |-> "OK", plain |-> FALSE, cause |-> "none"]

(* fmt.Errorf in GetBuffer and listBuffers: the ISB service call failed;  *)
(* and in GetBuffer only, the requested buffer belongs to no vertex of the *)
(* pipeline (listBuffers asks only for buffers that GetAllBuffers lists,    *)
(* each owned by a vertex, so its check at line 305 never fires).          *)
IsbErr == [code |-> "Unknown", plain |-> TRUE, cause |-> "upstream"]
NotFoundErr == [code |-> "Unknown", plain |-> TRUE, cause |-> "notfound"]

(* Mutant: an Unimplemented stub that returns a plain error.               *)
UnimplementedStubPlain ==
  [code |-> "Unimplemented", plain |-> TRUE, cause |-> "unsupported"]

(* The embedded Unimplemented*Server methods: status.Errorf(Unimplemented).*)
UnimplementedStub == Err("Unimplemented", "unsupported")

(* What each service method may return.  PipelineMetadataQuery does not    *)
(* define GetPipelineWatermarks, so the embedded stub answers it; the      *)
(* MonoVertex service's implementation is outside this tree, and any       *)
(* method it does not define is answered by its stub.                      *)
ServiceResults(m) ==
  CASE m = "GetBuffer" -> {Msg, IsbErr, NotFoundErr}
    [] m = "ListBuffers" -> {Msg, IsbErr}
    [] m = "GetPipelineWatermarks" -> {UnimplementedStub}
    [] m \in MvtxMethods -> {Msg, UnimplementedStub}
    [] OTHER -> {Msg}

(* status.Convert: the code a caller receives for a result.                *)
CodeOf(e) == IF e.plain THEN "Unknown" ELSE e.code

NoResult == [code |-> "none", plain |-> FALSE, cause |-> "none"]
NoMethod == "none"

(* The status codes and failure causes that occur on the call path.       *)
Codes == {"OK", "Unknown", "Unimplemented", "InvalidArgument", "Canceled",
          "Unavailable", "Internal", "PermissionDenied", "DeadlineExceeded",
          "none"}
Causes == {"none", "upstream", "notfound", "unsupported", "request",
           "transport", "interceptor"}
Results == [code : Codes, plain : BOOLEAN, cause : Causes]

VARIABLES
  gwMode,       \* how the gateway was registered: "local" or "endpoint"
  interceptor,  \* the gRPC server has a unary interceptor
  regDone,      \* the ctx passed to RegisterDaemonServiceHandlerFromEndpoint is done
  connClosed,   \* the gateway's ClientConn has been closed
  pc,           \* pc[r]: where request r is
  entry,        \* entry[r]: "http" (through the gateway) or "grpc"
  method,       \* method[r]: the RPC of request r
  res,          \* res[r]: the result carried back so far
  served,       \* served[r]: what the service method returned, or NoResult
  writes        \* writes[r]: the codes written to the caller, in order

vars == << gwMode, interceptor, regDone, connClosed, pc, entry, method, res,
           served, writes >>
reqVars == << pc, entry, method, res, served, writes >>

PCs == {"idle", "annotate", "params", "invoke", "decode", "intercept",
        "serve", "reply", "write", "done"}

TypeOK ==
  /\ gwMode \in {"local", "endpoint"}
  /\ interceptor \in BOOLEAN /\ regDone \in BOOLEAN /\ connClosed \in BOOLEAN
  /\ pc \in [Reqs -> PCs]
  /\ entry \in [Reqs -> {"http", "grpc"}]
  /\ method \in [Reqs -> DaemonMethods \cup MvtxMethods \cup {NoMethod}]
  /\ res \in [Reqs -> Results]
  /\ served \in [Reqs -> Results]
  /\ writes \in [Reqs -> Seq(Codes)]

Init ==
  /\ gwMode \in {"local", "endpoint"}
  /\ interceptor \in BOOLEAN
  /\ regDone = FALSE
  /\ connClosed = FALSE
  /\ pc = [r \in Reqs |-> "idle"]
  /\ entry = [r \in Reqs |-> "http"]
  /\ method = [r \in Reqs |-> NoMethod]
  /\ res = [r \in Reqs |-> NoResult]
  /\ served = [r \in Reqs |-> NoResult]
  /\ writes = [r \in Reqs |-> << >>]

Goto(r, p) == pc' = [pc EXCEPT ![r] = p]
Fail(r, e) == /\ res' = [res EXCEPT ![r] = e]
              /\ Goto(r, "write")

-----------------------------------------------------------------------------
(* A caller sends request r: an HTTP GET on a route of the gateway (daemon *)
(* methods only), or a gRPC call.  A finished request's slot takes the     *)
(* next one.                                                               *)
Arrive(r, e, m) ==
  /\ pc[r] \in {"idle", "done"}
  /\ e = "http" => m \in DaemonMethods
  /\ entry' = [entry EXCEPT ![r] = e]
  /\ method' = [method EXCEPT ![r] = m]
  /\ res' = [res EXCEPT ![r] = NoResult]
  /\ served' = [served EXCEPT ![r] = NoResult]
  /\ writes' = [writes EXCEPT ![r] = << >>]
  /\ Goto(r, IF e = "http" THEN "annotate" ELSE "invoke")
  /\ UNCHANGED << gwMode, interceptor, regDone, connClosed >>

(* Mutant: the handler does not return after the HTTPError of a failed     *)
(* AnnotateIncomingContext.                                                *)
LocalHandleNoReturn(r) ==
  /\ pc[r] = "annotate"
  /\ gwMode = "local"
  /\ \/ Goto(r, "params") /\ UNCHANGED writes
     \/ /\ writes' = [writes EXCEPT ![r] = Append(@, "InvalidArgument")]
        /\ Goto(r, "params")
  /\ UNCHANGED << gwMode, interceptor, regDone, connClosed, entry, method, res,
                  served >>

(* The mux handler of RegisterDaemonServiceHandlerServer:                  *)
(* runtime.AnnotateIncomingContext fails on a malformed grpc-timeout or    *)
(* metadata header (InvalidArgument): HTTPError and return.                *)
LocalHandle(r) ==
  /\ pc[r] = "annotate"
  /\ gwMode = "local"
  /\ \/ Goto(r, "params") /\ UNCHANGED res
     \/ Fail(r, Err("InvalidArgument", "request"))
  /\ UNCHANGED << gwMode, interceptor, regDone, connClosed, entry, method,
                  served, writes >>

(* The mux handler of RegisterDaemonServiceHandlerClient, with             *)
(* runtime.AnnotateContext.                                                *)
ClientHandle(r) ==
  /\ pc[r] = "annotate"
  /\ gwMode = "endpoint"
  /\ \/ Goto(r, "params") /\ UNCHANGED res
     \/ Fail(r, Err("InvalidArgument", "request"))
  /\ UNCHANGED << gwMode, interceptor, regDone, connClosed, entry, method,
                  served, writes >>

(* request_/local_request_: read each path parameter into the request     *)
(* message, then call client.X (endpoint) or server.X (local).             *)
Params(r) ==
  /\ pc[r] = "params"
  /\ IF RequiredParams(method[r]) \subseteq PathParams[method[r]]
       THEN Goto(r, IF gwMode = "local" THEN "serve" ELSE "invoke")
            /\ UNCHANGED res
       ELSE Fail(r, Err("InvalidArgument", "request"))
  /\ UNCHANGED << gwMode, interceptor, regDone, connClosed, entry, method,
                  served, writes >>

(* The gateway's ClientConn is closing for this request.                   *)
Closing(r) == entry[r] = "http" /\ connClosed

(* The generated client method: cc.Invoke.  On a closed ClientConn it      *)
(* fails at once (Canceled); the server may be unreachable (Unavailable). *)
Invoke(r) ==
  /\ pc[r] = "invoke"
  /\ IF Closing(r)
       THEN Fail(r, Err("Canceled", "transport"))
       ELSE \/ Goto(r, "decode") /\ UNCHANGED res
            \/ Fail(r, Err("Unavailable", "transport"))
  /\ UNCHANGED << gwMode, interceptor, regDone, connClosed, entry, method,
                  served, writes >>

(* _X_Handler: dec(in) fails (the server's codec answers Internal) and     *)
(* the handler returns the error; else it calls the method directly when   *)
(* interceptor == nil, or hands it to the interceptor.                     *)
Decode(r) ==
  /\ pc[r] = "decode"
  /\ \/ /\ Goto(r, IF interceptor THEN "intercept" ELSE "serve")
        /\ UNCHANGED res
     \/ /\ res' = [res EXCEPT ![r] = Err("Internal", "transport")]
        /\ Goto(r, "reply")
  /\ UNCHANGED << gwMode, interceptor, regDone, connClosed, entry, method,
                  served, writes >>

(* interceptor(ctx, in, info, handler): it calls handler, or returns an    *)
(* error of its own without calling it.                                    *)
Intercept(r) ==
  /\ pc[r] = "intercept"
  /\ \/ Goto(r, "serve") /\ UNCHANGED res
     \/ /\ res' = [res EXCEPT ![r] = Err("PermissionDenied", "interceptor")]
        /\ Goto(r, "reply")
  /\ UNCHANGED << gwMode, interceptor, regDone, connClosed, entry, method,
                  served, writes >>

(* The service method runs.  In local mode its result goes straight back  *)
(* to the mux handler; otherwise the gRPC server sends it.                 *)
Serve(r) ==
  /\ pc[r] = "serve"
  /\ \E x \in ServiceResults(method[r]) :
       /\ served' = [served EXCEPT ![r] = x]
       /\ res' = [res EXCEPT ![r] = x]
  /\ Goto(r, IF entry[r] = "http" /\ gwMode = "local" THEN "write" ELSE "reply")
  /\ UNCHANGED << gwMode, interceptor, regDone, connClosed, entry, method,
                  writes >>

(* The gRPC server sends the result as a status (a plain error becomes     *)
(* Unknown) and cc.Invoke returns it; or the caller's deadline passes      *)
(* first, or the gateway's ClientConn closes under the call.               *)
Reply(r) ==
  /\ pc[r] = "reply"
  /\ \E x \in {[res[r] EXCEPT !.code = CodeOf(res[r]), !.plain = FALSE],
               Err("DeadlineExceeded", "transport")}
              \cup (IF Closing(r) THEN {Err("Canceled", "transport")} ELSE {}) :
       res' = [res EXCEPT ![r] = x]
  /\ Goto(r, "write")
  /\ UNCHANGED << gwMode, interceptor, regDone, connClosed, entry, method,
                  served, writes >>

(* runtime.HTTPError(err) or forward_*_0 (ForwardResponseMessage) writes   *)
(* the answer; a gRPC caller receives the message or the status.           *)
Respond(r) ==
  /\ pc[r] = "write"
  /\ writes' = [writes EXCEPT ![r] = Append(@, CodeOf(res[r]))]
  /\ Goto(r, "done")
  /\ UNCHANGED << gwMode, interceptor, regDone, connClosed, entry, method, res,
                  served >>

(* The ctx given to RegisterDaemonServiceHandlerFromEndpoint ends.         *)
RegCtxDone ==
  /\ gwMode = "endpoint"
  /\ ~regDone
  /\ regDone' = TRUE
  /\ UNCHANGED << gwMode, interceptor, connClosed, reqVars >>

(* The goroutine waiting on <-ctx.Done() closes the ClientConn.            *)
CloseConn ==
  /\ regDone
  /\ ~connClosed
  /\ connClosed' = TRUE
  /\ UNCHANGED << gwMode, interceptor, regDone, reqVars >>

Request(r) ==
  \/ \E e \in {"http", "grpc"}, m \in DaemonMethods \cup MvtxMethods :
       Arrive(r, e, m)
  \/ LocalHandle(r) \/ ClientHandle(r) \/ Params(r) \/ Invoke(r)
  \/ Decode(r) \/ Intercept(r) \/ Serve(r) \/ Reply(r) \/ Respond(r)

Next == (\E r \in Reqs : Request(r)) \/ RegCtxDone \/ CloseConn

Spec == Init /\ [][Next]_vars

-----------------------------------------------------------------------------
(* The answers a call may get when its reply never arrives: the caller's   *)
(* deadline, or the gateway's ClientConn closing.                          *)
Lost(r) ==
  IF entry[r] = "http" /\ gwMode = "local" THEN {}
  ELSE {<< "DeadlineExceeded" >>}
         \cup (IF entry[r] = "http" THEN {<< "Canceled" >>} ELSE {})

(* Every request is answered exactly once, on every path through the mux   *)
(* handler, the client stub and the server handler: each HTTPError is      *)
(* followed by a return, and nothing is written before the answer.         *)
SingleReply ==
  \A r \in Reqs : Len(writes[r]) = IF pc[r] = "done" THEN 1 ELSE 0

(* The answers w that keep the status of what request r's service method *)
(* returned: a response as OK, an unimplemented method as Unimplemented,   *)
(* any failure as an error; or an answer of a lost reply.                  *)
Acceptable(r, w) ==
  CASE served[r].cause = "none" -> w \in {<< "OK" >>} \cup Lost(r)
    [] served[r].cause = "unsupported" -> w \in {<< "Unimplemented" >>} \cup Lost(r)
    [] OTHER -> w # << "OK" >>

(* What a service method returned reaches its caller unchanged, in either *)
(* gateway mode and over gRPC, unless the transport lost the reply: a      *)
(* response as OK, a method the server does not implement as              *)
(* Unimplemented (HTTP 501), and an upstream failure as an error.          *)
StatusPreserved ==
  \A r \in Reqs : pc[r] = "done" /\ served[r] # NoResult => Acceptable(r, writes[r])

(* A buffer that no vertex of the pipeline owns is reported as NotFound   *)
(* (HTTP 404), the error kind spec section 7 says is surfaced to the      *)
(* caller verbatim.                                                        *)
NotFoundSurfaced ==
  \A r \in Reqs :
    pc[r] = "done" /\ served[r].cause = "notfound" =>
      writes[r] \in {<< "NotFound" >>} \cup Lost(r)

-----------------------------------------------------------------------------
(* The refinement mapping to AbstractDaemonApi: a request is idle before   *)
(* its first arrival, answered once written to, and open in between; the   *)
(* layers it passes through are hidden.                                    *)
phaseBar == [r \in Reqs |-> CASE pc[r] = "idle" -> "idle"
                              [] pc[r] = "done" -> "answered"
                              [] OTHER -> "open"]

AbsD == INSTANCE AbstractDaemonApi
          WITH Methods <- DaemonMethods \cup MvtxMethods,
               HttpMethods <- DaemonMethods, phase <- phaseBar

(* The call path implements AbstractDaemonApi: on every path through the   *)
(* gateway, the stubs and the interceptor, a service method runs at most   *)
(* once per request, the request is answered once, with the status of the *)
(* method's result or of a lost reply, and a request the method never saw *)
(* is never answered OK.                                                   *)
Refinement == AbsD!Spec
=============================================================================
