-------------------------- MODULE AbstractDaemonApi --------------------------
(***************************************************************************)
(* What a daemon query promises its caller, without the layers between    *)
(* the caller and the service: a request arrives (an HTTP request only for *)
(* a route of the gateway), its service method runs at most once, and the  *)
(* request is answered exactly once.  The answer is the status the         *)
(* method's result converts to, or, when the reply is lost on the way, the *)
(* caller's deadline or the closing of the gateway's connection.  A        *)
(* request the method never saw is answered with one of the errors of the  *)
(* path (a bad request, the transport, the codec or the interceptor),      *)
(* never OK.                                                               *)
(*                                                                         *)
(* DaemonApi implements this specification: the mux handler, the client   *)
(* stub, the server handler and the interceptor are hidden; the service    *)
(* method's run is Serve and the write of the answer is Answer.            *)
(***************************************************************************)
EXTENDS Sequences

CONSTANTS
  Reqs,               \* the request slots
  Methods,            \* the RPCs of both services
  HttpMethods,        \* the RPCs the gateway has routes for
  ServiceResults(_),  \* what each service method may return
  CodeOf(_),          \* status.Convert: the code a result reaches its caller as
  NoResult,           \* the service method has not run
  NoMethod            \* a slot that has had no request yet

VARIABLES
  gwMode,   \* how the gateway was registered: "local" or "endpoint"
  entry,    \* entry[r]: "http" or "grpc"
  method,   \* method[r]: the RPC of request r
  phase,    \* phase[r]: "idle", "open" or "answered"
  served,   \* served[r]: what the service method returned, or NoResult
  writes    \* writes[r]: the codes written to the caller

avars == << gwMode, entry, method, phase, served, writes >>

(* The codes of a lost reply: the caller's deadline and, through the       *)
(* gateway's ClientConn, its closing; none when the gateway calls the      *)
(* server in process.                                                      *)
LostCodes(r) ==
  IF entry[r] = "http" /\ gwMode = "local" THEN {}
  ELSE {"DeadlineExceeded"} \cup (IF entry[r] = "http" THEN {"Canceled"} ELSE {})

(* The errors of the path before the service method.                      *)
UnservedCodes == {"InvalidArgument", "Canceled", "Unavailable", "Internal",
                  "PermissionDenied", "DeadlineExceeded"}

(* The codes request r may be answered with.                               *)
Allowed(r) ==
  IF served[r] = NoResult THEN UnservedCodes
  ELSE {CodeOf(served[r])} \cup LostCodes(r)

Init ==
  /\ gwMode \in {"local", "endpoint"}
  /\ entry = [r \in Reqs |-> "http"]
  /\ method = [r \in Reqs |-> NoMethod]
  /\ phase = [r \in Reqs |-> "idle"]
  /\ served = [r \in Reqs |-> NoResult]
  /\ writes = [r \in Reqs |-> << >>]

(* A request arrives in a free slot.                                       *)
Arrive(r, e, m) ==
  /\ phase[r] \in {"idle", "answered"}
  /\ e = "http" => m \in HttpMethods
  /\ entry' = [entry EXCEPT ![r] = e]
  /\ method' = [method EXCEPT ![r] = m]
  /\ phase' = [phase EXCEPT ![r] = "open"]
  /\ served' = [served EXCEPT ![r] = NoResult]
  /\ writes' = [writes EXCEPT ![r] = << >>]
  /\ UNCHANGED gwMode

(* The service method runs, once.                                          *)
Serve(r) ==
  /\ phase[r] = "open"
  /\ served[r] = NoResult
  /\ \E x \in ServiceResults(method[r]) : served' = [served EXCEPT ![r] = x]
  /\ UNCHANGED << gwMode, entry, method, phase, writes >>

(* The caller is answered, once.                                           *)
Answer(r) ==
  /\ phase[r] = "open"
  /\ \E c \in Allowed(r) : writes' = [writes EXCEPT ![r] = << c >>]
  /\ phase' = [phase EXCEPT ![r] = "answered"]
  /\ UNCHANGED << gwMode, entry, method, served >>

Next ==
  \E r \in Reqs :
    \/ \E e \in {"http", "grpc"}, m \in Methods : Arrive(r, e, m)
    \/ Serve(r)
    \/ Answer(r)

Spec == Init /\ [][Next]_avars
=============================================================================
