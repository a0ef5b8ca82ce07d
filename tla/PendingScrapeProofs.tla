------------------------- MODULE PendingScrapeProofs -------------------------
(***************************************************************************)
(* Proofs about getPending, for every pipeline and every exposition the    *)
(* replicas may serve.  What is proved is the all-or-nothing half of       *)
(* MergeCorrect: a call that reaches the end of its scrape has read every  *)
(* one of its metricsCount replicas exactly once, in order, and returns    *)
(* the map it merged them into, or it returns nil.  That this map is the   *)
(* per-key sum of those expositions is a statement about a fold over a    *)
(* finite set, which the provers cannot reason about for every input; the *)
(* pending_scrape run checks it.                                           *)
(***************************************************************************)
EXTENDS PendingScrape, TLAPS

(* A call that ends its scrape returns nil, or the map it merged from one *)
(* exposition of each of the vertex's metricsCount replicas.               *)
AllOrNothing ==
  spc = "build" =>
    \/ result = Nil
    \/ /\ Len(got) = MetricsCount(req)
       /\ result = total

(* The inductive invariant: a call in progress is for a vertex of the      *)
(* pipeline; while scraping, got holds the expositions of replicas        *)
(* 0 .. ridx - 1 (and, while merging, the one of replica ridx, which is    *)
(* cur), and ridx never passes metricsCount.                               *)
IInv ==
  /\ TypeOK
  /\ spc \in {"get", "merge", "build"} => req \in Vertices
  /\ spc = "get" => Len(got) = ridx /\ ridx <= MetricsCount(req)
  /\ spc = "merge" => Len(got) = ridx + 1 /\ ridx < MetricsCount(req)
  /\ sidx >= 1
  /\ AllOrNothing

-----------------------------------------------------------------------------
USE PendingScrapeAssumption

(* metricsCount is a natural number for every vertex.                      *)
LEMMA MetricsCountNat ==
  ASSUME NEW v \in Vertices
  PROVE  MetricsCount(v) \in Nat
BY DEF MetricsCount

(* Every entry of bufferList is a label, so partitionPendingInfo is        *)
(* indexed by keys of the map.                                              *)
LEMMA BufferListLabels ==
  ASSUME NEW v \in Vertices
  PROVE  BufferList(v) \in Seq(Labels)
<1>1. OwnedBuffers[v] \in Seq(Labels) OBVIOUS
<1>2. v \in Labels BY DEF Labels
<1>. QED BY <1>1, <1>2 DEF BufferList

(* addPending keeps the map a map of pending counts.                       *)
LEMMA AddPendingType ==
  ASSUME NEW t \in Totals, NEW s \in Series
  PROVE  AddPending(t, s) \in Totals
<1>1. << s.partition, s.period >> \in Keys BY DEF Series, Keys
<1>. QED BY <1>1 DEF AddPending, Totals, Series, Absent

(* The pendings of a partition of bufferList are nil or a count per period. *)
LEMMA PendingsOfType ==
  ASSUME NEW p \in Labels, result \in Totals \cup {Nil}
  PROVE  PendingsOf(p) \in [Periods -> Nat \cup {Absent}] \cup {NilPendings}
<1>1. \A q \in Periods : << p, q >> \in Keys BY DEF Keys
<1>. QED BY <1>1 DEF PendingsOf, Totals

LEMMA InitIInv == Init => IInv
<1>1. EmptyTotal \in Totals BY DEF EmptyTotal, Totals, Absent
<1>2. Nil \in Totals \cup {Nil} OBVIOUS
<1>. QED BY <1>1, <1>2 DEF Init, IInv, TypeOK, AllOrNothing

LEMMA NextIInv == IInv /\ [NextKnown]_vars => IInv'
<1> SUFFICES ASSUME IInv, [NextKnown]_vars PROVE IInv' OBVIOUS
<1>0. TypeOK BY DEF IInv
<1>1. ASSUME NEW v \in Vertices, Call(v) PROVE IInv'
  <2>1. EmptyTotal \in Totals BY DEF EmptyTotal, Totals, Absent
  <2>2. MetricsCount(v) \in Nat BY MetricsCountNat
  <2>. QED BY <1>0, <1>1, <2>1, <2>2 DEF Call, IInv, TypeOK, AllOrNothing
<1>2. CASE ScrapeFail
  BY <1>0, <1>2 DEF ScrapeFail, IInv, TypeOK, AllOrNothing
<1>3. CASE ScrapeOk
  <2>1. PICK e \in Expositions : cur' = e /\ got' = Append(got, e)
    BY <1>3 DEF ScrapeOk
  <2>2. e \in Seq(Series) OBVIOUS
  <2>3. req \in Vertices BY <1>3 DEF ScrapeOk, IInv
  <2>4. MetricsCount(req) \in Nat BY <2>3, MetricsCountNat
  <2>. QED BY <1>0, <1>3, <2>1, <2>2, <2>3, <2>4 DEF ScrapeOk, IInv, TypeOK, AllOrNothing
<1>4. CASE MergeSeries
  <2>1. cur[sidx] \in Series BY <1>0, <1>4 DEF MergeSeries, IInv, TypeOK
  <2>2. total' \in Totals BY <1>0, <1>4, <2>1, AddPendingType DEF MergeSeries, TypeOK
  <2>. QED BY <1>0, <1>4, <2>2 DEF MergeSeries, IInv, TypeOK, AllOrNothing
<1>5. CASE NextReplica
  <2>1. req \in Vertices BY <1>5 DEF NextReplica, IInv
  <2>2. MetricsCount(req) \in Nat BY <2>1, MetricsCountNat
  <2>. QED BY <1>0, <1>5, <2>1, <2>2 DEF NextReplica, IInv, TypeOK, AllOrNothing
<1>6. CASE ScrapeDone
  <2>1. req \in Vertices BY <1>6 DEF ScrapeDone, IInv
  <2>2. MetricsCount(req) \in Nat BY <2>1, MetricsCountNat
  <2>. QED BY <1>0, <1>6, <2>1, <2>2 DEF ScrapeDone, IInv, TypeOK, AllOrNothing
<1>7. CASE Build
  <2>1. req \in Vertices BY <1>7 DEF Build, IInv
  <2>2. BufferList(req) \in Seq(Labels) BY <2>1, BufferListLabels
  <2>3. result \in Totals \cup {Nil} BY <1>0 DEF TypeOK
  <2>4. \A k \in 1 .. Len(BufferList(req)) :
          PendingsOf(BufferList(req)[k]) \in [Periods -> Nat \cup {Absent}] \cup {NilPendings}
    BY <2>2, <2>3, PendingsOfType
  <2>5. out' \in Seq([Periods -> Nat \cup {Absent}] \cup {NilPendings})
    BY <1>7, <2>2, <2>4 DEF Build
  <2>. QED BY <1>0, <1>7, <2>5 DEF Build, IInv, TypeOK, AllOrNothing
<1>8. CASE UNCHANGED vars
  BY <1>8 DEF vars, IInv, TypeOK, AllOrNothing
<1>. QED BY <1>1, <1>2, <1>3, <1>4, <1>5, <1>6, <1>7, <1>8 DEF NextKnown, Serve

(* For every pipeline, every call of getPending on one of its vertices     *)
(* that ends its scrape returns nil or the map merged from exactly         *)
(* metricsCount replicas: a failed GET never yields a partial map.         *)
THEOREM AllOrNothingHolds == SpecKnown => []AllOrNothing
<1>1. IInv => AllOrNothing BY DEF IInv
<1>. QED BY InitIInv, NextIInv, <1>1, PTL DEF SpecKnown

(* getPending keeps its state well typed.                                  *)
THEOREM TypeCorrect == SpecKnown => []TypeOK
<1>1. IInv => TypeOK BY DEF IInv
<1>. QED BY InitIInv, NextIInv, <1>1, PTL DEF SpecKnown
=============================================================================
