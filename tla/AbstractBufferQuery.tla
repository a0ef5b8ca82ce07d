------------------------- MODULE AbstractBufferQuery -------------------------
(***************************************************************************)
(* What the daemon's buffer queries promise a client, without the loop of *)
(* listBuffers: ListBuffers answers in one step, with an error or with one *)
(* entry per buffer of the pipeline, in GetAllBuffers order, each built    *)
(* from counters the ISB service may report for it; GetBuffer answers      *)
(* with an error or with the entry of one buffer.  The client reads each  *)
(* answer before it sends the next request.                                *)
(*                                                                         *)
(* BufferQuery implements this specification: the iterations of the loop *)
(* are hidden, and the end of the loop (or its first failed lookup) is the *)
(* answer.                                                                 *)
(***************************************************************************)
EXTENDS Integers, Sequences

CONSTANTS
  AllBuffers,   \* the pipeline's buffers, in order
  Counters,     \* what the ISB service may report for a buffer
  Entry(_, _)   \* the BufferInfo of a buffer and its counters

VARIABLE resp   \* the answer the client has not read yet

Buffers == {AllBuffers[k] : k \in DOMAIN AllBuffers}
NoResp == [op |-> "none"]
Positions == 1 .. Len(AllBuffers)

Init == resp = NoResp

(* ListBuffers: an error, or every buffer's entry in order.               *)
List ==
  /\ resp = NoResp
  /\ \/ resp' = [op |-> "list", err |-> TRUE]
     \/ /\ resp'.op = "list"
        /\ \E c \in [Positions -> Counters] :
             resp' = [op |-> "list", err |-> FALSE,
                      buffers |-> [k \in Positions |-> Entry(AllBuffers[k], c[k])]]

(* GetBuffer: an error, or the entry of one buffer.                       *)
Get ==
  /\ resp = NoResp
  /\ \/ resp' = [op |-> "get", err |-> TRUE]
     \/ \E b \in Buffers, c \in Counters :
          resp' = [op |-> "get", err |-> FALSE, buffer |-> Entry(b, c)]

(* The client reads the answer.                                            *)
Reply ==
  /\ resp # NoResp
  /\ resp' = NoResp

Next == List \/ Get \/ Reply

Spec == Init /\ [][Next]_resp
=============================================================================
