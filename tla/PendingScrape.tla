---------------------------- MODULE PendingScrape ----------------------------
(***************************************************************************)
(* GetVertexMetrics and getPending (pipeline_metrics_query.go).            *)
(*                                                                         *)
(* getPending GETs the /metrics endpoint of replicas 0 .. metricsCount - 1 *)
(* one after the other (metricsCount is the partition count of a reduce    *)
(* vertex, 1 otherwise), and merges the series of the pending metric into *)
(* partition -> period -> sum.  A failed GET or parse returns nil.         *)
(* GetVertexMetrics then builds one record per partition of the vertex    *)
(* (its owned buffers, plus its own name for a source), with the pendings *)
(* found under that partition name.                                        *)
(*                                                                         *)
(* A replica's exposition is a sequence of series [partition, period,     *)
(* value]; a series without a partition label has partition "" (NoLabel). *)
(* Gauges of pending counts are integers, so int64(Gauge.GetValue()) is    *)
(* the value itself.                                                       *)
(***************************************************************************)
EXTENDS Integers, Sequences, FiniteSetsExt

CONSTANTS
  Vertices,        \* the vertex names of the pipeline
  Kind,            \* vertex -> "source", "reduce" or "map"
  PartitionCount,  \* vertex -> GetPartitionCount()
  OwnedBuffers,    \* vertex -> OwnedBufferNames(...), a sequence
  Requests,        \* the vertex names GetVertexMetrics may be asked for
  Periods,         \* the lookback labels, e.g. "1m", "5m"
  NoLabel,         \* the "" of a missing label
  Expositions      \* the pending series a replica may expose

Labels == (UNION {{OwnedBuffers[v][k] : k \in DOMAIN OwnedBuffers[v]} : v \in Vertices})
            \cup Vertices \cup {NoLabel}
Series == [partition : Labels, period : Periods, value : Nat]

ASSUME PendingScrapeAssumption ==
  /\ Kind \in [Vertices -> {"source", "reduce", "map"}]
  /\ PartitionCount \in [Vertices -> Nat]
  /\ \A v \in Vertices : OwnedBuffers[v] \in Seq(Labels)
  /\ Expositions \subseteq Seq(Series)

(* Absent marks a (partition, period) key not in totalPendingMap; Nil the  *)
(* nil map getPending returns on a failure, NilPendings a nil Pendings.    *)
Absent == -1
Keys == Labels \X Periods
EmptyTotal == [k \in Keys |-> Absent]
Nil == [k \in Keys |-> -2]
NilPendings == [q \in Periods |-> -2]

(* metricsCount: GetPartitionCount() of a reduce vertex, else 1.           *)
MetricsCount(v) == IF Kind[v] = "reduce" THEN PartitionCount[v] ELSE 1

(* bufferList: the owned buffers, and the vertex's name for a source.      *)
BufferList(v) ==
  IF Kind[v] = "source" THEN Append(OwnedBuffers[v], v) ELSE OwnedBuffers[v]

VARIABLES
  spc,      \* "idle", "get", "merge", "build" or "panicked"
  req,      \* the vertex of the request being served
  ridx,     \* the replica being scraped
  cur,      \* the series of its exposition
  sidx,     \* the series being merged
  got,      \* the expositions read so far in this call
  total,    \* totalPendingMap
  result,   \* what getPending returned: Nil or a total
  out       \* the VertexMetrics pendings of the last answer

vars == << spc, req, ridx, cur, sidx, got, total, result, out >>

NoReq == "none"
Totals == [Keys -> Nat \cup {Absent}]

TypeOK ==
  /\ spc \in {"idle", "get", "merge", "build", "panicked"}
  /\ req \in Vertices \cup {NoReq}
  /\ ridx \in Nat
  /\ cur \in Seq(Series)
  /\ sidx \in Nat
  /\ got \in Seq(Seq(Series))
  /\ total \in Totals
  /\ result \in Totals \cup {Nil}
  /\ out \in Seq([Periods -> Nat \cup {Absent}] \cup {NilPendings})

Init ==
  /\ spc = "idle"
  /\ req = NoReq
  /\ ridx = 0
  /\ cur = << >>
  /\ sidx = 1
  /\ got = << >>
  /\ total = EmptyTotal
  /\ result = Nil
  /\ out = << >>

-----------------------------------------------------------------------------
(* GetVertexMetrics for a vertex of the pipeline: getPending starts with   *)
(* an empty totalPendingMap.                                               *)
Call(v) ==
  /\ spc = "idle"
  /\ v \in Vertices
  /\ req' = v
  /\ ridx' = 0
  /\ got' = << >>
  /\ total' = EmptyTotal
  /\ spc' = "get"
  /\ UNCHANGED << cur, sidx, result, out >>

(* GetVertexMetrics for a name that is not a vertex: GetVertex returns nil *)
(* and abstractVertex.OwnedBufferNames dereferences it.                    *)
CallUnknown(v) ==
  /\ spc = "idle"
  /\ v \notin Vertices
  /\ spc' = "panicked"
  /\ UNCHANGED << req, ridx, cur, sidx, got, total, result, out >>

(* Mutant: a failed scrape is skipped and the loop goes on.                *)
ScrapeSkip ==
  /\ spc = "get"
  /\ ridx < MetricsCount(req)
  /\ ridx' = ridx + 1
  /\ UNCHANGED << spc, req, cur, sidx, got, total, result, out >>

(* httpClient.Get of replica ridx, or the parse of its body, fails:       *)
(* getPending returns nil.                                                  *)
ScrapeFail ==
  /\ spc = "get"
  /\ ridx < MetricsCount(req)
  /\ result' = Nil
  /\ spc' = "build"
  /\ UNCHANGED << req, ridx, cur, sidx, got, total, out >>

(* The GET of replica ridx succeeds and its body parses.                   *)
ScrapeOk ==
  /\ spc = "get"
  /\ ridx < MetricsCount(req)
  /\ \E e \in Expositions :
       /\ cur' = e
       /\ got' = Append(got, e)
  /\ sidx' = 1
  /\ spc' = "merge"
  /\ UNCHANGED << req, ridx, total, result, out >>

(* Mutant: a value found for an existing key replaces it.                  *)
AddPendingOverwrite(t, s) ==
  [t EXCEPT ![<< s.partition, s.period >>] = s.value]

(* One metric of the pending family: the labels default to "", a new       *)
(* (partition, period) key is set to the value, an existing one summed.    *)
AddPending(t, s) ==
  LET k == << s.partition, s.period >>
  IN  [t EXCEPT ![k] = IF t[k] = Absent THEN s.value ELSE t[k] + s.value]

MergeSeries ==
  /\ spc = "merge"
  /\ sidx <= Len(cur)
  /\ total' = AddPending(total, cur[sidx])
  /\ sidx' = sidx + 1
  /\ UNCHANGED << spc, req, ridx, cur, got, result, out >>

(* All the metrics of this replica are merged: on to the next one.         *)
NextReplica ==
  /\ spc = "merge"
  /\ sidx > Len(cur)
  /\ ridx' = ridx + 1
  /\ spc' = "get"
  /\ UNCHANGED << req, cur, sidx, got, total, result, out >>

(* The loop ends: return totalPendingMap.                                  *)
ScrapeDone ==
  /\ spc = "get"
  /\ ridx = MetricsCount(req)
  /\ result' = total
  /\ spc' = "build"
  /\ UNCHANGED << req, ridx, cur, sidx, got, total, out >>

(* The pendings of a partition: partitionPendingInfo[partitionName], nil   *)
(* when getPending returned nil or has no such partition.                  *)
PendingsOf(p) ==
  IF result = Nil \/ \A q \in Periods : result[<< p, q >>] = Absent
    THEN NilPendings
    ELSE [q \in Periods |-> result[<< p, q >>]]

(* One VertexMetrics per entry of bufferList, in its order.                *)
Build ==
  /\ spc = "build"
  /\ out' = [k \in 1 .. Len(BufferList(req)) |-> PendingsOf(BufferList(req)[k])]
  /\ spc' = "idle"
  /\ UNCHANGED << req, ridx, cur, sidx, got, total, result >>

(* The steps of a call in progress.                                        *)
Serve ==
  \/ ScrapeFail \/ ScrapeOk \/ MergeSeries \/ NextReplica \/ ScrapeDone
  \/ Build

Next == (\E v \in Requests : Call(v) \/ CallUnknown(v)) \/ Serve

Spec == Init /\ [][Next]_vars

(* Requests that name vertices of the pipeline only.                       *)
NextKnown == (\E v \in Vertices : Call(v)) \/ Serve

SpecKnown == Init /\ [][NextKnown]_vars

-----------------------------------------------------------------------------
(* The reference aggregate of the expositions g: for each key, the sum of *)
(* the values of every series of every replica under that key, or Absent. *)
Merged(g) ==
  LET at(k) == {ri \in UNION {{r} \X DOMAIN g[r] : r \in DOMAIN g} :
                   << g[ri[1]][ri[2]].partition, g[ri[1]][ri[2]].period >> = k}
  IN  [k \in Keys |-> IF at(k) = {} THEN Absent
                      ELSE MapThenSumSet(LAMBDA ri : g[ri[1]][ri[2]].value, at(k))]

(* getPending is all or nothing: once a call's scrape is over, its result *)
(* is nil or the sum, per partition and period, of the series of every one *)
(* of the metricsCount replicas, never a partial map.                      *)
MergeCorrect ==
  spc = "build" =>
    \/ result = Nil
    \/ /\ Len(got) = MetricsCount(req)
       /\ result = Merged(got)

(* A request for a vertex that is not in the pipeline is answered with a   *)
(* NotFound error (spec section 7), never a panic.                          *)
NoPanic == spc # "panicked"
=============================================================================
