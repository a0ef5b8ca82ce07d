--------------------------- MODULE MCBufferQuery ---------------------------
(* Two buffers owned by two vertices: v1 overrides only the buffer length *)
(* and v2 only the usage limit, so each field's override is exercised on  *)
(* its own; counters up to 3 against lengths 2 and 3 reach usage below,   *)
(* at and above the limits 50% and 80%.                                    *)
EXTENDS BufferQuery, TLC

CONSTANTS b1, b2, v1, v2

MCAllBuffers == << b1, b2 >>
MCOwner == (b1 :> v1) @@ (b2 :> v2)
MCVxLength == (v1 :> 3) @@ (v2 :> Unset)
MCVxUsagePct == (v1 :> Unset) @@ (v2 :> 50)
=============================================================================
