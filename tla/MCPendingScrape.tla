--------------------------- MODULE MCPendingScrape ---------------------------
(* A source vertex "in" and a reduce vertex "red" with two partitions; the *)
(* expositions cover one and several series, two series under the same    *)
(* key, a series without a partition label and no pending family at all.  *)
EXTENDS PendingScrape

MCVertices == {"in", "red"}
MCKind == [v \in MCVertices |-> IF v = "in" THEN "source" ELSE "reduce"]
MCPartitionCount == [v \in MCVertices |-> IF v = "in" THEN 1 ELSE 2]
MCOwnedBuffers ==
  [v \in MCVertices |-> IF v = "in" THEN << >> ELSE << "red-0", "red-1" >>]

(* A request may also name a vertex that is not in the pipeline.          *)
MCRequests == MCVertices \cup {"out"}

S(p, q, n) == [partition |-> p, period |-> q, value |-> n]

MCExpositions ==
  { << S("red-0", "1m", 2) >>,
    << S("red-1", "1m", 1), S("red-0", "5m", 3) >>,
    << S("in", "1m", 4), S("in", "1m", 1) >>,
    << S("", "1m", 1) >>,
    << >> }
=============================================================================
