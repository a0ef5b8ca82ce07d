------------------------- MODULE BufferQueryProofs -------------------------
(***************************************************************************)
(* Proofs about the buffer queries, for every pipeline (any buffers, any   *)
(* limits and overrides) and any counters the ISB service reports: each    *)
(* BufferInfo computes usage and isFull as the exact definitions do, and   *)
(* a successful ListBuffers lists every buffer, in order.                  *)
(***************************************************************************)
EXTENDS BufferQuery, TLAPS

(* The inductive invariant: while listing, the slice built so far holds    *)
(* one correct entry for each buffer before idx, in order.                 *)
AccCorrect ==
  lpc = "listing" =>
    /\ Len(acc) = idx - 1
    /\ \A k \in 1 .. Len(acc) :
         acc[k].buffer = AllBuffers[k] /\ CorrectEntry(acc[k])

IInv == TypeOK /\ AccCorrect /\ ListComplete /\ GetCorrect
-----------------------------------------------------------------------------
(* The limits of the vertex that owns a buffer are natural numbers.        *)
LEMMA LimitsNat ==
  ASSUME NEW b \in Buffers
  PROVE  /\ BufferLength(Owner[b]) \in Nat
         /\ UsagePct(Owner[b]) \in Nat
         /\ BufferLength(Owner[b]) = ResolvedLength(Owner[b])
         /\ UsagePct(Owner[b]) = ResolvedPct(Owner[b])
<1>1. Owner[b] \in {Owner[c] : c \in Buffers}
  OBVIOUS
<1>2. QED
  BY <1>1, BufferQueryAssumption
     DEF BufferLength, UsagePct, ResolvedLength, ResolvedPct

(* Of two quotients over the same positive length, the float64 < compares *)
(* the numerators.                                                         *)
LEMMA SameLengthLess ==
  ASSUME NEW a \in Nat, NEW c \in Nat, NEW d \in Nat, d > 0
  PROVE  FLess(FDiv(a, d), FDiv(c, d)) <=> a < c
<1>1. FDiv(a, d) = Num(a, d) /\ FDiv(c, d) = Num(c, d)
  BY DEF FDiv
<1>2. FLess(Num(a, d), Num(c, d)) <=> a * d < c * d
  BY DEF FLess, Num
<1>3. a * d < c * d <=> a < c
  BY SMT
<1>4. QED
  BY <1>1, <1>2, <1>3

(* Every BufferInfo the handlers build is correct: its usage is the       *)
(* smaller quotient, exactly, and isFull compares it with the limit as    *)
(* m * 100 >= pct * len does.                                              *)
LEMMA EntryCorrect ==
  ASSUME NEW b \in Buffers, NEW info \in Infos
  PROVE  CorrectEntry(BufferInfo(b, info))
<1> DEFINE len == BufferLength(Owner[b])
           pct == UsagePct(Owner[b])
           t   == info.total
           p   == info.pending + info.ackPending
           m   == IF t <= p THEN t ELSE p
           e   == BufferInfo(b, info)
<1>1. /\ len \in Nat /\ pct \in Nat /\ t \in Nat /\ p \in Nat
      /\ len = ResolvedLength(Owner[b]) /\ pct = ResolvedPct(Owner[b])
  BY LimitsNat DEF Infos
<1>2. /\ e.buffer = b /\ e.length = len /\ e.total = t
      /\ e.pending + e.ackPending = p
      /\ e.usage = IF FLess(FDiv(p, len), FDiv(t, len)) THEN FDiv(p, len)
                                                        ELSE FDiv(t, len)
      /\ e.isFull = FGeq(e.usage, Num(pct, 100))
  BY DEF BufferInfo, getBufferLimits
<1> SUFFICES ASSUME len > 0
             PROVE  /\ e.length = len
                    /\ e.usage = Num(m, len)
                    /\ e.isFull = (m * 100 >= pct * len)
  BY <1>1, <1>2 DEF CorrectEntry
<1>3. e.usage = Num(m, len)
  <2>1. FLess(FDiv(p, len), FDiv(t, len)) <=> p < t
    BY <1>1, SameLengthLess
  <2>2. QED
    BY <1>1, <1>2, <2>1 DEF FDiv
<1>4. FGeq(Num(m, len), Num(pct, 100)) = (m * 100 >= pct * len)
  <2>1. m \in Nat
    BY <1>1
  <2>2. QED
    BY <1>1, <2>1 DEF FGeq, FLess, Num
<1>5. QED
  BY <1>2, <1>3, <1>4

-----------------------------------------------------------------------------
LEMMA InitIInv == Init => IInv
BY BufferQueryAssumption
   DEF Init, IInv, TypeOK, Responses, AccCorrect, ListComplete, GetCorrect,
       NoResp

(* Every step keeps IInv; ListOne extends the correct prefix by the entry *)
(* for AllBuffers[idx], and ListDone answers it once idx is past the end. *)
LEMMA NextIInv == IInv /\ [Next]_vars => IInv'
<1> SUFFICES ASSUME IInv, [Next]_vars PROVE IInv'
  OBVIOUS
<1>0. TypeOK /\ AccCorrect /\ ListComplete /\ GetCorrect
  BY DEF IInv
<1> USE BufferQueryAssumption
<1>1. CASE ListBuffers
  BY <1>0, <1>1 DEF ListBuffers, IInv, TypeOK, AccCorrect, ListComplete,
                    GetCorrect
<1>2. CASE ListOne
  <2>1. PICK info \in Infos :
              acc' = Append(acc, BufferInfo(AllBuffers[idx], info))
    BY <1>2 DEF ListOne
  <2>2. /\ lpc = "listing" /\ idx \in 1 .. Len(AllBuffers)
        /\ AllBuffers[idx] \in Buffers
    BY <1>0, <1>2 DEF ListOne, TypeOK, Buffers
  <2> DEFINE new == BufferInfo(AllBuffers[idx], info)
  <2>3. new \in Entries /\ new.buffer = AllBuffers[idx] /\ CorrectEntry(new)
    <3>1. new \in Entries
      BY <2>2 DEF Entries
    <3>2. new.buffer = AllBuffers[idx]
      BY DEF BufferInfo
    <3>3. CorrectEntry(new)
      BY <2>2, EntryCorrect
    <3>4. QED
      BY <3>1, <3>2, <3>3
  <2>4. TypeOK'
    BY <1>0, <1>2, <2>1, <2>2, <2>3 DEF ListOne, TypeOK
  <2>5. AccCorrect'
    <3>1. Len(acc) = idx - 1 /\ acc \in Seq(Entries)
      BY <1>0, <2>2 DEF AccCorrect, TypeOK
    <3>2. /\ Len(acc') = idx /\ idx' = idx + 1
          /\ \A k \in 1 .. Len(acc) : acc'[k] = acc[k]
          /\ acc'[idx] = new
      BY <1>2, <2>1, <2>2, <3>1 DEF ListOne
    <3>3. ASSUME NEW k \in 1 .. Len(acc')
          PROVE  acc'[k].buffer = AllBuffers[k] /\ CorrectEntry(acc'[k])
      <4>1. CASE k <= Len(acc)
        BY <1>0, <2>2, <3>1, <3>2, <4>1 DEF AccCorrect
      <4>2. CASE k = idx
        BY <2>3, <3>2, <4>2
      <4>3. QED
        BY <2>2, <3>1, <3>2, <4>1, <4>2
    <3>4. QED
      BY <1>2, <3>2, <3>3 DEF ListOne, AccCorrect
  <2>6. QED
    BY <1>0, <1>2, <2>4, <2>5 DEF ListOne, IInv, ListComplete, GetCorrect
<1>3. CASE ListFail
  BY <1>0, <1>3 DEF ListFail, IInv, TypeOK, Responses, AccCorrect,
                    ListComplete, GetCorrect
<1>4. CASE ListDone
  <2>1. /\ Len(acc) = Len(AllBuffers)
        /\ \A k \in 1 .. Len(acc) :
              acc[k].buffer = AllBuffers[k] /\ CorrectEntry(acc[k])
    BY <1>0, <1>4 DEF ListDone, AccCorrect
  <2>2. TypeOK'
    <3>1. resp' \in [op : {"list"}, err : {FALSE}, buffers : Seq(Entries)]
      BY <1>0, <1>4 DEF ListDone, TypeOK
    <3>2. resp' \in Responses
      BY <3>1, Zenon DEF Responses
    <3>3. QED
      BY <1>0, <1>4, <3>2 DEF ListDone, TypeOK
  <2>3. QED
    BY <1>4, <2>1, <2>2 DEF ListDone, IInv, AccCorrect, ListComplete,
                            GetCorrect
<1>5. CASE GetBuffer
  <2>1. PICK b \in Buffers \cup {Unknown} :
              \/ resp' = [op |-> "get", err |-> TRUE]
              \/ /\ b \in Buffers
                 /\ \E info \in Infos :
                      resp' = [op |-> "get", err |-> FALSE,
                               buffer |-> BufferInfo(b, info)]
    BY <1>5 DEF GetBuffer
  <2>2. CASE resp' = [op |-> "get", err |-> TRUE]
    BY <1>0, <1>5, <2>2 DEF GetBuffer, IInv, TypeOK, Responses, AccCorrect,
                            ListComplete, GetCorrect
  <2>3. CASE resp' # [op |-> "get", err |-> TRUE]
    <3>1. PICK info \in Infos :
                resp' = [op |-> "get", err |-> FALSE,
                         buffer |-> BufferInfo(b, info)]
      BY <2>1, <2>3
    <3>2. b \in Buffers
      BY <2>1, <2>3
    <3>3. BufferInfo(b, info) \in Entries /\ CorrectEntry(BufferInfo(b, info))
      BY <3>2, EntryCorrect DEF Entries
    <3>4. QED
      BY <1>0, <1>5, <3>1, <3>3 DEF GetBuffer, IInv, TypeOK, Responses,
                                    AccCorrect, ListComplete, GetCorrect
  <2>4. QED
    BY <2>2, <2>3
<1>6. CASE Reply
  BY <1>0, <1>6 DEF Reply, IInv, TypeOK, Responses, NoResp, AccCorrect,
                    ListComplete, GetCorrect
<1>7. CASE UNCHANGED vars
  BY <1>0, <1>7 DEF vars, IInv, TypeOK, AccCorrect, ListComplete, GetCorrect
<1>8. QED
  BY <1>1, <1>2, <1>3, <1>4, <1>5, <1>6, <1>7 DEF Next

(* A successful ListBuffers lists every buffer of the pipeline in order,  *)
(* each entry correct (ListComplete), for every pipeline and counters.    *)
THEOREM ListCompleteHolds == Spec => []ListComplete
BY InitIInv, NextIInv, PTL DEF Spec, IInv

(* A successful GetBuffer entry is correct (GetCorrect), for every        *)
(* pipeline and counters.                                                  *)
THEOREM GetCorrectHolds == Spec => []GetCorrect
BY InitIInv, NextIInv, PTL DEF Spec, IInv

-----------------------------------------------------------------------------
(* What the refinement needs beyond IInv: while listing, no answer is     *)
(* waiting (the client reads each answer before its next request), and    *)
(* each entry of the slice is the BufferInfo of its buffer and of some    *)
(* counters GetBufferInfo may report.                                      *)
ListQuiet == lpc = "listing" => resp = NoResp

AccFromCounters ==
  lpc = "listing" =>
    \A k \in 1 .. Len(acc) : \E i \in Infos : acc[k] = BufferInfo(AllBuffers[k], i)

RInv == IInv /\ ListQuiet /\ AccFromCounters

LEMMA InitRInv == Init => RInv
BY InitIInv DEF Init, RInv, ListQuiet, AccFromCounters

LEMMA NextRInv == RInv /\ [Next]_vars => RInv'
<1> SUFFICES ASSUME RInv, [Next]_vars PROVE RInv'
  OBVIOUS
<1>0. IInv /\ IInv' /\ ListQuiet /\ AccFromCounters /\ TypeOK
  BY NextIInv DEF RInv, IInv
<1> USE BufferQueryAssumption
<1>1. CASE ListBuffers
  BY <1>0, <1>1 DEF ListBuffers, RInv, ListQuiet, AccFromCounters
<1>2. CASE ListOne
  <2>1. PICK info \in Infos :
              acc' = Append(acc, BufferInfo(AllBuffers[idx], info))
    BY <1>2 DEF ListOne
  <2>2. /\ lpc = "listing" /\ idx \in 1 .. Len(AllBuffers)
        /\ Len(acc) = idx - 1 /\ acc \in Seq(Entries)
    BY <1>0, <1>2 DEF ListOne, TypeOK, AccCorrect, IInv
  <2>3. /\ Len(acc') = idx
        /\ \A k \in 1 .. Len(acc) : acc'[k] = acc[k]
        /\ acc'[idx] = BufferInfo(AllBuffers[idx], info)
    BY <2>1, <2>2
  <2>4. ASSUME NEW k \in 1 .. Len(acc')
        PROVE  \E i \in Infos : acc'[k] = BufferInfo(AllBuffers[k], i)
    <3>1. CASE k <= Len(acc)
      BY <1>0, <2>2, <2>3, <3>1 DEF AccFromCounters
    <3>2. CASE k = idx
      BY <2>3, <3>2
    <3>3. QED
      BY <2>2, <2>3, <3>1, <3>2
  <2>5. QED
    BY <1>0, <1>2, <2>4 DEF ListOne, RInv, ListQuiet, AccFromCounters
<1>3. CASE ListFail
  BY <1>0, <1>3 DEF ListFail, RInv, ListQuiet, AccFromCounters
<1>4. CASE ListDone
  BY <1>0, <1>4 DEF ListDone, RInv, ListQuiet, AccFromCounters
<1>5. CASE GetBuffer
  BY <1>0, <1>5 DEF GetBuffer, RInv, ListQuiet, AccFromCounters
<1>6. CASE Reply
  BY <1>0, <1>6 DEF Reply, RInv, ListQuiet, AccFromCounters
<1>7. CASE UNCHANGED vars
  BY <1>0, <1>7 DEF vars, RInv, ListQuiet, AccFromCounters
<1>8. QED
  BY <1>1, <1>2, <1>3, <1>4, <1>5, <1>6, <1>7 DEF Next

(* Under RInv every step is a step of AbstractBufferQuery or leaves the   *)
(* answer unchanged: the loop's iterations are stutters, its end and its   *)
(* first failure are List, GetBuffer is Get and Reply is Reply.            *)
LEMMA RefineStep == RInv /\ [Next]_vars => [AbsQ!Next]_resp
<1> SUFFICES ASSUME RInv, [Next]_vars PROVE [AbsQ!Next]_resp
  OBVIOUS
<1>0. TypeOK /\ AccCorrect /\ ListQuiet /\ AccFromCounters
  BY DEF RInv, IInv
<1> USE BufferQueryAssumption
<1>1. CASE ListBuffers \/ ListOne
  BY <1>1 DEF ListBuffers, ListOne
<1>2. CASE ListFail
  BY <1>0, <1>2 DEF ListFail, ListQuiet, AbsQ!Next, AbsQ!List, AbsQ!NoResp,
                    NoResp
<1>3. CASE ListDone
  <2>1. /\ resp = NoResp /\ lpc = "listing"
        /\ resp' = [op |-> "list", err |-> FALSE, buffers |-> acc]
    BY <1>0, <1>3 DEF ListDone, ListQuiet
  <2>2. /\ acc \in Seq(Entries) /\ Len(acc) = Len(AllBuffers)
        /\ \A k \in AbsQ!Positions :
             \E i \in Infos : acc[k] = BufferInfo(AllBuffers[k], i)
    BY <1>0, <1>3, <2>1 DEF ListDone, TypeOK, AccCorrect, AccFromCounters,
                            AbsQ!Positions
  <2> DEFINE c == [k \in AbsQ!Positions |->
                     CHOOSE i \in Infos : acc[k] = BufferInfo(AllBuffers[k], i)]
  <2>3. c \in [AbsQ!Positions -> Infos]
    BY <2>2
  <2>4. \A k \in AbsQ!Positions : acc[k] = BufferInfo(AllBuffers[k], c[k])
    BY <2>2
  <2>5. acc = [k \in AbsQ!Positions |-> BufferInfo(AllBuffers[k], c[k])]
    BY <2>2, <2>4 DEF AbsQ!Positions
  <2>6. AbsQ!List
    <3>1. resp'.op = "list"
      BY <2>1
    <3>2. QED
      BY <2>1, <2>3, <2>5, <3>1 DEF AbsQ!List, AbsQ!NoResp, NoResp
  <2>7. QED
    BY <2>6 DEF AbsQ!Next
<1>4. CASE GetBuffer
  <2>1. resp = NoResp
    BY <1>4 DEF GetBuffer
  <2>2. PICK b \in Buffers \cup {Unknown} :
              \/ resp' = [op |-> "get", err |-> TRUE]
              \/ /\ b \in Buffers
                 /\ \E info \in Infos :
                      resp' = [op |-> "get", err |-> FALSE,
                               buffer |-> BufferInfo(b, info)]
    BY <1>4 DEF GetBuffer
  <2>3. AbsQ!Buffers = Buffers
    BY DEF AbsQ!Buffers, Buffers
  <2>4. AbsQ!Get
    BY <2>1, <2>2, <2>3 DEF AbsQ!Get, AbsQ!NoResp, NoResp
  <2>5. QED
    BY <2>4 DEF AbsQ!Next
<1>5. CASE Reply
  BY <1>5 DEF Reply, AbsQ!Next, AbsQ!Reply, AbsQ!NoResp, NoResp
<1>6. CASE UNCHANGED vars
  BY <1>6 DEF vars
<1>7. QED
  BY <1>1, <1>2, <1>3, <1>4, <1>5, <1>6 DEF Next

(* For every pipeline and every counters the ISB service may report, the  *)
(* buffer queries implement AbstractBufferQuery: ListBuffers answers as if *)
(* in one step, with an error or every buffer's entry in order.            *)
THEOREM RefinementHolds == Spec => Refinement
<1>1. Init => AbsQ!Init
  BY DEF Init, AbsQ!Init, AbsQ!NoResp, NoResp
<1>2. RInv /\ [][Next]_vars => [][AbsQ!Next]_resp
  BY NextRInv, RefineStep, PTL
<1>3. QED
  BY <1>1, <1>2, InitRInv, PTL DEF Spec, Refinement, AbsQ!Spec
=============================================================================
