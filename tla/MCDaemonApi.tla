---------------------------- MODULE MCDaemonApi ----------------------------
EXTENDS DaemonApi

CONSTANTS r1, r2

MCReqs == {r1, r2}

(* One request slot, reused: requests share only the gateway.            *)
MCReq1 == {r1}
=============================================================================
