---------------------------- MODULE BufferQuery ----------------------------
(***************************************************************************)
(* The daemon's buffer queries (pipeline_metrics_query.go): ListBuffers /  *)
(* listBuffers, GetBuffer and getBufferLimits.                             *)
(*                                                                         *)
(* listBuffers walks the pipeline's buffers in order, asks the ISB service *)
(* for each one's counters (a remote call that may fail, and whose answer  *)
(* may change from call to call), resolves the owning vertex's limits and  *)
(* computes usage = min(total / length, (pending + ackPending) / length)   *)
(* in float64 and isFull = usage >= limit.  One failure ends the call with *)
(* an error.  Go float64 division by zero does not panic: x / 0 is +Inf    *)
(* for x > 0 and NaN for x = 0, and every comparison with NaN is false.    *)
(***************************************************************************)
EXTENDS Integers, Sequences

CONSTANTS
  AllBuffers,      \* pipeline.GetAllBuffers(): a sequence of buffer names
  Unknown,         \* a buffer name a GetBuffer caller may send that is not one
  Owner,           \* FindVertexWithBuffer: buffer -> owning vertex
  PlLength,        \* *GetPipelineLimits().BufferMaxLength
  PlUsagePct,      \* *GetPipelineLimits().BufferUsageLimit (percent)
  VxLength,        \* vertex -> its Limits.BufferMaxLength, or Unset
  VxUsagePct,      \* vertex -> its Limits.BufferUsageLimit, or Unset
  Unset,           \* a nil pointer field of the vertex's Limits
  MaxCount         \* the largest counter the ISB service reports in a run

Buffers == {AllBuffers[k] : k \in DOMAIN AllBuffers}

ASSUME BufferQueryAssumption ==
  /\ AllBuffers \in Seq(Buffers)
  /\ Unknown \notin Buffers
  /\ DOMAIN Owner = Buffers
  /\ PlLength \in Nat /\ PlUsagePct \in Nat
  /\ \A v \in {Owner[b] : b \in Buffers} :
       /\ VxLength[v] \in Nat \cup {Unset}
       /\ VxUsagePct[v] \in Nat \cup {Unset}
  /\ MaxCount \in Nat

-----------------------------------------------------------------------------
(* float64 values of the quotients computed here: a rational n / d with   *)
(* d > 0, +Inf or NaN.                                                     *)
Inf == [kind |-> "inf"]
NaN == [kind |-> "nan"]
Num(n, d) == [kind |-> "num", n |-> n, d |-> d]

(* float64(a) / float64(b) for naturals a, b.                              *)
FDiv(a, b) == IF b > 0 THEN Num(a, b) ELSE IF a > 0 THEN Inf ELSE NaN

(* x < y in float64: false whenever NaN is involved.                       *)
FLess(x, y) ==
  CASE x.kind = "nan" \/ y.kind = "nan" -> FALSE
    [] x.kind = "inf"                   -> FALSE
    [] y.kind = "inf"                   -> TRUE
    [] OTHER                            -> x.n * y.d < y.n * x.d

(* x >= y in float64: false whenever NaN is involved.                      *)
FGeq(x, y) == x.kind # "nan" /\ y.kind # "nan" /\ ~FLess(x, y)

-----------------------------------------------------------------------------
(* Mutant: a vertex's usage limit is taken only with its length.          *)
UsagePctPaired(v) ==
  IF VxLength[v] # Unset /\ VxUsagePct[v] # Unset THEN VxUsagePct[v]
                                                  ELSE PlUsagePct

(* getBufferLimits: the pipeline's limits, each field overridden on its   *)
(* own by the vertex's non-nil field; the usage limit is percent / 100.    *)
BufferLength(v) == IF VxLength[v] # Unset THEN VxLength[v] ELSE PlLength
UsagePct(v) == IF VxUsagePct[v] # Unset THEN VxUsagePct[v] ELSE PlUsagePct

getBufferLimits(v) == [length |-> BufferLength(v),
                       limit  |-> Num(UsagePct(v), 100)]

(* What isbSvcClient.GetBufferInfo may answer: any counters up to MaxCount *)
Infos == [pending : 0 .. MaxCount, ackPending : 0 .. MaxCount,
          total : 0 .. MaxCount]

(* The daemon.BufferInfo built for buffer b from info: the usage is the    *)
(* smaller of the two quotients, kept only if strictly smaller.            *)
BufferInfo(b, info) ==
  LET lim   == getBufferLimits(Owner[b])
      byTot == FDiv(info.total, lim.length)
      byPen == FDiv(info.pending + info.ackPending, lim.length)
      usage == IF FLess(byPen, byTot) THEN byPen ELSE byTot
  IN  [buffer |-> b, pending |-> info.pending,
       ackPending |-> info.ackPending, total |-> info.total,
       length |-> lim.length, limit |-> lim.limit, usage |-> usage,
       isFull |-> FGeq(usage, lim.limit)]

-----------------------------------------------------------------------------
VARIABLES
  lpc,     \* "idle" or "listing": where the ListBuffers handler is
  idx,     \* the index into AllBuffers of the buffer being looked up
  acc,     \* the buffers slice built so far
  resp     \* the answer the client has not read yet: NoResp, an error or a result

vars == << lpc, idx, acc, resp >>

NoResp == [op |-> "none"]

Entries == {BufferInfo(b, i) : b \in Buffers, i \in Infos}
Responses ==
  {NoResp} \cup [op : {"list", "get"}, err : {TRUE}]
           \cup [op : {"list"}, err : {FALSE}, buffers : Seq(Entries)]
           \cup [op : {"get"}, err : {FALSE}, buffer : Entries]

TypeOK ==
  /\ lpc \in {"idle", "listing"}
  /\ idx \in 1 .. Len(AllBuffers) + 1
  /\ acc \in Seq(Entries)
  /\ resp \in Responses

Init ==
  /\ lpc = "idle"
  /\ idx = 1
  /\ acc = << >>
  /\ resp = NoResp

(* ListBuffers is called: buffers := []*daemon.BufferInfo{}.  The client  *)
(* sends one request at a time and reads each answer (Reply) first.        *)
ListBuffers ==
  /\ lpc = "idle"
  /\ resp = NoResp
  /\ lpc' = "listing"
  /\ idx' = 1
  /\ acc' = << >>
  /\ UNCHANGED resp

(* One iteration of the loop of listBuffers: GetBufferInfo succeeds and   *)
(* the BufferInfo is appended (the owner lookup cannot fail for a buffer  *)
(* of GetAllBuffers).                                                      *)
ListOne ==
  /\ lpc = "listing"
  /\ idx <= Len(AllBuffers)
  /\ \E info \in Infos :
       acc' = Append(acc, BufferInfo(AllBuffers[idx], info))
  /\ idx' = idx + 1
  /\ UNCHANGED << lpc, resp >>

(* Mutant: a failed lookup is skipped and the loop goes on.                *)
ListFailSkip ==
  /\ lpc = "listing"
  /\ idx <= Len(AllBuffers)
  /\ idx' = idx + 1
  /\ UNCHANGED << lpc, acc, resp >>

(* GetBufferInfo fails: listBuffers returns nil and an error.              *)
ListFail ==
  /\ lpc = "listing"
  /\ idx <= Len(AllBuffers)
  /\ resp' = [op |-> "list", err |-> TRUE]
  /\ lpc' = "idle"
  /\ acc' = << >>
  /\ UNCHANGED idx

(* The loop ends: resp.Buffers = buffers.                                  *)
ListDone ==
  /\ lpc = "listing"
  /\ idx = Len(AllBuffers) + 1
  /\ resp' = [op |-> "list", err |-> FALSE, buffers |-> acc]
  /\ lpc' = "idle"
  /\ acc' = << >>
  /\ UNCHANGED idx

(* GetBuffer(req.Buffer): GetBufferInfo first, then the owner lookup; an  *)
(* error from either is returned.  It runs on its own request goroutine   *)
(* and shares no state with a ListBuffers in progress.                     *)
GetBuffer ==
  /\ lpc = "idle" /\ resp = NoResp
  /\ \E b \in Buffers \cup {Unknown} :
       \/ resp' = [op |-> "get", err |-> TRUE]
       \/ /\ b \in Buffers
          /\ \E info \in Infos :
               resp' = [op |-> "get", err |-> FALSE, buffer |-> BufferInfo(b, info)]
  /\ UNCHANGED << lpc, idx, acc >>

(* The client reads the answer.                                            *)
Reply ==
  /\ resp # NoResp
  /\ resp' = NoResp
  /\ UNCHANGED << lpc, idx, acc >>

Next == ListBuffers \/ ListOne \/ ListFail \/ ListDone \/ GetBuffer \/ Reply

Spec == Init /\ [][Next]_vars

-----------------------------------------------------------------------------
(* The limits a buffer of vertex v is judged by, as the spec resolves     *)
(* them: each field of the vertex's override replaces the pipeline's      *)
(* default on its own.                                                     *)
ResolvedPct(v) == IF VxUsagePct[v] = Unset THEN PlUsagePct ELSE VxUsagePct[v]
ResolvedLength(v) == IF VxLength[v] = Unset THEN PlLength ELSE VxLength[v]

(* A BufferInfo e is correct: usage is min(total, pending + ackPending)   *)
(* over the length, and isFull says usage has reached the vertex's limit. *)
CorrectEntry(e) ==
  LET len == ResolvedLength(Owner[e.buffer])
      pct == ResolvedPct(Owner[e.buffer])
      m   == IF e.total <= e.pending + e.ackPending
               THEN e.total ELSE e.pending + e.ackPending
  IN  len > 0 =>
        /\ e.length = len
        /\ e.usage = Num(m, len)
        /\ e.isFull = (m * 100 >= pct * len)

(* A successful ListBuffers answers for every buffer of the pipeline, in  *)
(* GetAllBuffers order and with each entry computed correctly: a lookup   *)
(* that fails part way never yields a partial list.                       *)
ListComplete ==
  resp.op = "list" /\ ~resp.err =>
    /\ Len(resp.buffers) = Len(AllBuffers)
    /\ \A k \in 1 .. Len(AllBuffers) :
         /\ resp.buffers[k].buffer = AllBuffers[k]
         /\ CorrectEntry(resp.buffers[k])

(* A successful GetBuffer entry is computed correctly.                     *)
GetCorrect ==
  resp.op = "get" /\ ~resp.err => CorrectEntry(resp.buffer)

(* The spec: a zero buffer length is a configuration error that must be   *)
(* surfaced, never a usage figure: no successful answer has length 0.     *)
ZeroLengthSurfaced ==
  /\ resp.op = "list" /\ ~resp.err =>
       \A k \in 1 .. Len(resp.buffers) : resp.buffers[k].length > 0
  /\ resp.op = "get" /\ ~resp.err => resp.buffer.length > 0

-----------------------------------------------------------------------------
(* The refinement mapping to AbstractBufferQuery: the answer is the same  *)
(* variable, the counters are those GetBufferInfo may report, and an       *)
(* entry is the BufferInfo the handlers build.                             *)
AbsQ == INSTANCE AbstractBufferQuery WITH Counters <- Infos, Entry <- BufferInfo

(* ListBuffers is atomic for its client: every step of listBuffers is a   *)
(* step of AbstractBufferQuery or leaves the answer alone, so no partial,  *)
(* reordered or stale list is ever answered.                               *)
Refinement == AbsQ!Spec
=============================================================================
