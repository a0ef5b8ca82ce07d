---------------------------- MODULE MCSecretInit ----------------------------
(* Two serversecretinit instances racing on numaflow-server-secret and one *)
(* secret-init instance on numaflow-server-pass-secret.                     *)
EXTENDS SecretInit

CONSTANTS s1, s2, q1

MCProcs == {s1, s2, q1}
MCServerProcs == {s1, s2}
=============================================================================
