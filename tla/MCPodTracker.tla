--------------------------- MODULE MCPodTracker ---------------------------
(* Model-checking instance of PodTracker: a MonoVertex scaling up to      *)
(* three replicas, so that two or three workers race on the shared max.   *)
EXTENDS PodTracker

MCMaxReplicas == 3
=============================================================================
