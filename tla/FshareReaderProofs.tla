-------------------------- MODULE FshareReaderProofs --------------------------
(***************************************************************************)
(* Proofs about the ring and its lock-free reader, for every ring size,    *)
(* every set of record lengths and every interleaving: types and the ring's*)
(* layout, records taken intact, nothing passed over, the refinement of    *)
(* RecordFeed, and the join at a chain start.                              *)
(***************************************************************************)
EXTENDS FshareReader, TLAPS

USE DEF RecHdr
-----------------------------------------------------------------------------
(***************************************************************************)
(* Offsets                                                                 *)
(***************************************************************************)
LEMMA Sizes ==
    /\ DATA_SZ \in Nat /\ DATA_SZ > 0
    /\ SeqMod \in Nat /\ SeqMod > 4
BY RingAssumption

LEMMA LensBound ==
    ASSUME NEW l \in Lens
    PROVE  l \in Nat /\ l > 0 /\ l < DATA_SZ
<1>1. l \in Nat \ {0}
  BY RingAssumption
<1>2. 1 + l <= DATA_SZ
  BY RingAssumption
<1> QED
  BY <1>1, <1>2, Sizes

\* Reducing an offset below twice the ring size lands in the ring.
LEMMA WrapType ==
    ASSUME NEW o \in Nat, o < 2 * DATA_SZ
    PROVE  Wrap(o) \in Cells
BY Sizes DEF Wrap, Cells

\* Two offsets less than a ring apart are the same cell only if equal.
LEMMA WrapInjective ==
    ASSUME NEW t \in Cells, NEW x \in Cells, NEW y \in Cells,
           Wrap(t + x) = Wrap(t + y)
    PROVE  x = y
BY Sizes DEF Wrap, Cells

\* Moving the tail over n cells does not move what lies behind them.
LEMMA WrapShift ==
    ASSUME NEW t \in Cells, NEW n \in Nat, NEW x \in Cells, n <= x
    PROVE  Wrap(Wrap(t + n) + (x - n)) = Wrap(t + x)
BY Sizes DEF Wrap, Cells

\* The difference of two sequence numbers is a sequence number.
LEMMA SubType ==
    ASSUME NEW a \in Int, NEW b \in Int
    PROVE  Sub(a, b) \in 0 .. SeqMod - 1
BY RingAssumption DEF Sub

LEMMA SeqIncType ==
    ASSUME NEW s \in 0 .. SeqMod - 1
    PROVE  SeqInc(s) \in 0 .. SeqMod - 1
BY RingAssumption DEF SeqInc
-----------------------------------------------------------------------------
(***************************************************************************)
(* The writer keeps the ring well formed                                   *)
(***************************************************************************)
RingInv == RingTypeOK /\ RingLayout /\ CopyingNewest

\* What a published record is made of.
LEMMA RecordOf ==
    ASSUME RingTypeOK, NEW n \in 1 .. Len(log)
    PROVE  /\ log[n] \in Record
           /\ log[n].at \in Nat /\ log[n].seq \in 0 .. SeqMod - 1
           /\ log[n].len \in Nat \ {0} /\ log[n].len < DATA_SZ
           /\ Size(log[n]) = 1 + log[n].len
<1>1. log[n] \in Record
  BY DEF RingTypeOK
<1>2. log[n].len \in Lens
  BY <1>1 DEF Record
<1>3. log[n].len \in Nat \ {0} /\ log[n].len < DATA_SZ
  BY <1>2, LensBound
<1> QED
  BY <1>1, <1>3 DEF Record, Size

LEMMA LiveRange ==
    ASSUME RingTypeOK, NEW n \in Live
    PROVE  n \in 1 .. Len(log) /\ oldest \in 1 .. Len(log)
BY DEF RingTypeOK, Live

\* The arithmetic of the next lemma.
LEMMA OffsetInRing ==
    ASSUME NEW at \in Nat, NEW len \in Nat, NEW b \in Nat,
           NEW v \in 0 .. DATA_SZ, NEW k \in 0 .. len,
           b <= at, at + (1 + len) <= b + v
    PROVE  at - b \in Nat /\ (at - b) + k \in Cells
BY Sizes DEF Cells

\* Cell k of a live record is less than a ring away from the tail.
LEMMA LiveCell ==
    ASSUME RingInv, NEW n \in Live, NEW k \in 0 .. log[n].len
    PROVE  /\ log[n].at - vtail \in Nat
           /\ (log[n].at - vtail) + k \in Cells
           /\ Addr(n, k) = Wrap(tail + ((log[n].at - vtail) + k))
           /\ Addr(n, k) \in Cells
<1>1. /\ n \in 1 .. Len(log)
      /\ log[n].at \in Nat /\ log[n].len \in Nat
      /\ Size(log[n]) = 1 + log[n].len
  BY LiveRange, RecordOf DEF RingInv
<1>2. /\ vtail <= log[n].at
      /\ log[n].at + Size(log[n]) <= vtail + valid
  BY DEF RingInv, RingLayout, Contiguous
<1>3. vtail \in Nat /\ valid \in 0 .. DATA_SZ /\ tail \in Cells
  BY DEF RingInv, RingTypeOK
<1>4. /\ log[n].at - vtail \in Nat
      /\ (log[n].at - vtail) + k \in Cells
  <2>1. log[n].at + (1 + log[n].len) <= vtail + valid
    BY <1>1, <1>2
  <2> QED
    BY <1>1, <1>2, <1>3, <2>1, OffsetInRing
<1>5. Addr(n, k) = Wrap(tail + ((log[n].at - vtail) + k))
  <2>1. tail + (log[n].at - vtail) + k = tail + ((log[n].at - vtail) + k)
    BY <1>1, <1>3, <1>4, Sizes DEF Cells
  <2> QED
    BY <2>1 DEF Addr
<1>6. Addr(n, k) \in Cells
  BY <1>3, <1>4, <1>5, WrapType, Sizes DEF Cells
<1> QED
  BY <1>4, <1>5, <1>6

\* Two different cells of live records are at different offsets.
LEMMA LiveCellsDisjoint ==
    ASSUME RingInv,
           NEW m \in Live, NEW j \in 0 .. log[m].len,
           NEW n \in Live, NEW k \in 0 .. log[n].len,
           Addr(m, j) = Addr(n, k)
    PROVE  m = n /\ j = k
<1> DEFINE x == (log[m].at - vtail) + j
           y == (log[n].at - vtail) + k
<1>1. x \in Cells /\ Addr(m, j) = Wrap(tail + x)
  BY LiveCell
<1>2. y \in Cells /\ Addr(n, k) = Wrap(tail + y)
  BY LiveCell
<1>3. tail \in Cells
  BY DEF RingInv, RingTypeOK
<1> HIDE DEF x, y
<1>4. x = y
  BY <1>1, <1>2, <1>3, WrapInjective
<1> USE DEF x, y
<1>5. m \in 1 .. Len(log) /\ n \in 1 .. Len(log)
  BY LiveRange DEF RingInv
<1>6. /\ log[m].at \in Nat /\ log[m].len \in Nat
      /\ log[n].at \in Nat /\ log[n].len \in Nat
      /\ Size(log[m]) = 1 + log[m].len /\ Size(log[n]) = 1 + log[n].len
      /\ vtail \in Nat
  BY <1>5, RecordOf DEF RingInv, RingTypeOK
<1>7. log[m].at + j = log[n].at + k
  BY <1>4, <1>6
<1>8. m < n => log[m].at + Size(log[m]) <= log[n].at
  BY DEF RingInv, RingLayout, Contiguous
<1>9. n < m => log[n].at + Size(log[n]) <= log[m].at
  BY DEF RingInv, RingLayout, Contiguous
<1>10. ~(m < n) /\ ~(n < m)
  BY <1>6, <1>7, <1>8, <1>9
<1> QED
  BY <1>5, <1>6, <1>7, <1>10

LEMMA RingInvInit ==
    RingInit => RingInv
<1> SUFFICES ASSUME RingInit PROVE RingInv
  OBVIOUS
<1> USE DEF RingInit
<1>1. RingTypeOK
  <2>1. mem \in [Cells -> Cell]
    <3>1. [id |-> 0, k |-> 0] \in Cell
      BY DEF Cell
    <3> QED
      BY <3>1
  <2>2. tail \in Cells /\ valid \in 0 .. DATA_SZ
    BY Sizes DEF Cells
  <2>3. seq \in 0 .. SeqMod - 1 /\ cursor \in 0 .. SeqMod - 1
    BY Sizes, RingAssumption DEF RingAssumption
  <2>4. log \in Seq(Record) /\ oldest \in Nat \ {0} /\ oldest <= Len(log) + 1
    OBVIOUS
  <2>5. /\ pending \in BOOLEAN /\ filter \in {"none", "hires", "audio"}
        /\ wpc \in {"idle", "fit", "copy", "notify"}
        /\ wrec \in [type : Types, len : Lens]
        /\ wk \in Nat /\ eras \in Nat /\ vtail \in Nat
    OBVIOUS
  <2> HIDE DEF RingInit
  <2> QED
    BY <2>1, <2>2, <2>3, <2>4, <2>5 DEF RingTypeOK
<1>2. Live = {}
  BY DEF Live
<1>3. RingLayout
  BY <1>2 DEF RingLayout, Contiguous, InPlace
<1>4. CopyingNewest
  BY DEF CopyingNewest
<1> QED
  BY <1>1, <1>3, <1>4 DEF RingInv

\* Popping leaves every remaining record, and every cell of it, where it is.
LEMMA PopTailKeepsAddr ==
    ASSUME RingInv, PopTail, NEW n \in Live', NEW k \in 0 .. log[n].len
    PROVE  n \in Live /\ Addr(n, k)' = Addr(n, k)
<1> DEFINE d == Size(log[oldest])
           x == (log[n].at - vtail) + k
<1>1. /\ tail' = Wrap(tail + d) /\ vtail' = vtail + d
      /\ oldest' = oldest + 1 /\ log' = log /\ oldest \in Live
  BY DEF PopTail
<1>2. oldest \in Nat
  BY DEF RingInv, RingTypeOK
<1>3. n \in Live /\ oldest < n
  BY <1>1, <1>2 DEF Live
<1>4. /\ x \in Cells /\ Addr(n, k) = Wrap(tail + x)
      /\ log[n].at - vtail \in Nat
  BY <1>3, LiveCell
<1>5. /\ log[oldest].at = vtail
      /\ log[oldest].at + Size(log[oldest]) <= log[n].at
  BY <1>1, <1>3 DEF RingInv, RingLayout, Contiguous
<1>6. d \in Nat /\ vtail \in Nat /\ log[n].at \in Nat
  <2>1. RingTypeOK
    BY DEF RingInv
  <2>2. n \in 1 .. Len(log) /\ oldest \in 1 .. Len(log)
    BY <1>3, <2>1, LiveRange
  <2>3. log[oldest].len \in Nat /\ d = 1 + log[oldest].len
    BY <2>1, <2>2, RecordOf
  <2> QED
    BY <2>1, <2>2, <2>3, RecordOf DEF RingTypeOK
<1>7. d <= x
  BY <1>5, <1>6
<1>8. tail \in Cells
  BY DEF RingInv, RingTypeOK
<1>9. Addr(n, k)' = Wrap(Wrap(tail + d) + (log[n].at - (vtail + d)) + k)
  BY <1>1 DEF Addr, Wrap
<1>10. Wrap(tail + d) \in Int
  BY <1>6, <1>8, Sizes DEF Wrap, Cells
<1>11. Wrap(tail + d) + (log[n].at - (vtail + d)) + k
         = Wrap(tail + d) + (x - d)
  BY <1>6, <1>10
<1>12. Wrap(Wrap(tail + d) + (x - d)) = Wrap(tail + x)
  <2> HIDE DEF d, x
  <2> QED
    BY <1>4, <1>6, <1>7, <1>8, WrapShift
<1> QED
  BY <1>3, <1>4, <1>9, <1>11, <1>12

\* What a step must leave alone for the ring to stay as it is.
ringVars == <<mem, valid, tail, wpc, wrec, wk, past>>

LEMMA RingFrame ==
    ASSUME RingInv, UNCHANGED <<ringVars, seq>>,
           pending' \in BOOLEAN, cursor' \in 0 .. SeqMod - 1,
           filter' \in {"none", "hires", "audio"}, eras' \in Nat
    PROVE  RingInv'
<1> USE DEF ringVars, past
<1>1. RingTypeOK'
  BY DEF RingInv, RingTypeOK, Cell
<1>2. Contiguous'
  BY DEF RingInv, RingLayout, Contiguous, Live
<1>3. InPlace'
  BY DEF RingInv, RingLayout, InPlace, Live, Committed, Addr
<1>4. CopyingNewest'
  BY DEF RingInv, CopyingNewest, Live
<1> QED
  BY <1>1, <1>2, <1>3, <1>4 DEF RingInv, RingLayout

LEMMA BeginWriteInv ==
    ASSUME RingInv, BeginWrite
    PROVE  RingInv'
<1> USE DEF BeginWrite, shared, slot, past
<1>1. RingTypeOK'
  BY DEF RingInv, RingTypeOK, Cell
<1>2. Contiguous'
  BY DEF RingInv, RingLayout, Contiguous, Live
<1>3. InPlace'
  BY DEF RingInv, RingLayout, InPlace, Live, Committed, Addr
<1>4. CopyingNewest'
  BY DEF CopyingNewest
<1> QED
  BY <1>1, <1>2, <1>3, <1>4 DEF RingInv, RingLayout

LEMMA EraResetInv ==
    ASSUME RingInv, EraReset
    PROVE  RingInv'
<1> USE DEF EraReset, slot, past
<1>1. RingTypeOK'
  <2>1. eras' \in Nat /\ seq' \in 0 .. SeqMod - 1
    BY Sizes DEF RingInv, RingTypeOK
  <2> QED
    BY <2>1 DEF RingInv, RingTypeOK, Cell
<1>2. Contiguous'
  BY DEF RingInv, RingLayout, Contiguous, Live
<1>3. InPlace'
  BY DEF RingInv, RingLayout, InPlace, Live, Committed, Addr
<1>4. CopyingNewest'
  BY DEF CopyingNewest
<1> QED
  BY <1>1, <1>2, <1>3, <1>4 DEF RingInv, RingLayout

LEMMA NotifyInv ==
    ASSUME RingInv, Notify
    PROVE  RingInv'
<1> USE DEF Notify, shared, past
<1>1. RingTypeOK'
  <2>1. pending' \in BOOLEAN
    BY DEF RingInv, RingTypeOK
  <2> QED
    BY <2>1 DEF RingInv, RingTypeOK, Cell
<1>2. Contiguous'
  BY DEF RingInv, RingLayout, Contiguous, Live
<1>3. InPlace'
  BY DEF RingInv, RingLayout, InPlace, Live, Committed, Addr
<1>4. CopyingNewest'
  BY DEF CopyingNewest
<1> QED
  BY <1>1, <1>2, <1>3, <1>4 DEF RingInv, RingLayout

LEMMA PopTailInv ==
    ASSUME RingInv, PopTail
    PROVE  RingInv'
<1> DEFINE d == Size(log[oldest])
<1>1. /\ valid' = valid - d /\ tail' = Wrap(tail + d) /\ vtail' = vtail + d
      /\ oldest' = oldest + 1 /\ oldest \in Live
      /\ UNCHANGED <<mem, seq, slot, writer, log>>
  BY DEF PopTail
<1>2. RingTypeOK
  BY DEF RingInv
<1>3. oldest \in 1 .. Len(log)
  BY <1>1, <1>2, LiveRange
<1>4. /\ d \in Nat /\ d <= DATA_SZ
      /\ vtail \in Nat /\ valid \in Nat /\ valid <= DATA_SZ
  <2>1. log[oldest].len \in Nat /\ log[oldest].len < DATA_SZ
        /\ d = 1 + log[oldest].len
    BY <1>2, <1>3, RecordOf
  <2>2. vtail \in Nat /\ valid \in Nat /\ valid <= DATA_SZ
    BY <1>2, Sizes DEF RingTypeOK
  <2> HIDE DEF d
  <2> QED
    BY <2>1, <2>2, Sizes
<1>5. log[oldest].at = vtail /\ log[oldest].at + d <= vtail + valid
  BY <1>1 DEF RingInv, RingLayout, Contiguous
<1>6. \A n \in Live' : n \in Live /\ oldest < n
  BY <1>1, <1>3 DEF Live
<1>7. RingTypeOK'
  <2>1. tail' \in Cells
    <3>1. tail \in Nat /\ tail < DATA_SZ
      BY <1>2, Sizes DEF RingTypeOK, Cells
    <3> HIDE DEF d
    <3>2. tail + d \in Nat /\ tail + d < 2 * DATA_SZ
      BY <1>4, <3>1, Sizes
    <3> QED
      BY <1>1, <3>2, WrapType
  <2>2. valid' \in 0 .. DATA_SZ /\ vtail' \in Nat
    <3> HIDE DEF d
    <3> QED
      BY <1>1, <1>4, <1>5, Sizes
  <2>3. oldest' \in Nat \ {0} /\ oldest' <= Len(log') + 1
    BY <1>1, <1>3
  <2> QED
    BY <1>1, <1>2, <2>1, <2>2, <2>3 DEF RingTypeOK, Cell, slot, writer
<1>8. Contiguous'
  <2>1. ASSUME oldest' \notin Live' PROVE valid' = 0
    <3>1. oldest = Len(log)
      BY <1>1, <1>3, <2>1 DEF Live
    <3>2. log[Len(log)].at + Size(log[Len(log)]) = vtail + valid
      BY <1>1 DEF RingInv, RingLayout, Contiguous
    <3> QED
      BY <1>1, <1>4, <1>5, <3>1, <3>2
  <2>2. ASSUME oldest' \in Live'
        PROVE  /\ log'[oldest'].at = vtail'
               /\ log'[Len(log')].at + Size(log'[Len(log')]) = vtail' + valid'
    <3>1. oldest + 1 \in Live
      BY <1>1, <1>6, <2>2
    <3>2. log[oldest + 1].at = log[oldest].at + d
      BY <1>1, <3>1 DEF RingInv, RingLayout, Contiguous
    <3>3. log[Len(log)].at + Size(log[Len(log)]) = vtail + valid
      BY <1>1 DEF RingInv, RingLayout, Contiguous
    <3>4. (vtail + d) + (valid - d) = vtail + valid
      BY <1>4
    <3> QED
      BY <1>1, <1>5, <3>2, <3>3, <3>4
  <2>3. \A n \in Live' : n + 1 \in Live' =>
           log'[n+1].at = log'[n].at + Size(log'[n])
    BY <1>1, <1>6 DEF RingInv, RingLayout, Contiguous
  <2>4. ASSUME NEW n \in Live'
        PROVE  /\ vtail' <= log'[n].at
               /\ log'[n].at + Size(log'[n]) <= vtail' + valid'
    <3>1. log[oldest].at + d <= log[n].at
      BY <1>1, <1>6 DEF RingInv, RingLayout, Contiguous
    <3>2. log[n].at + Size(log[n]) <= vtail + valid
      BY <1>6 DEF RingInv, RingLayout, Contiguous
    <3>3. (vtail + d) + (valid - d) = vtail + valid
      BY <1>4
    <3> QED
      BY <1>1, <1>5, <3>1, <3>2, <3>3
  <2>5. \A m, n \in Live' : m < n =>
           log'[m].at + Size(log'[m]) <= log'[n].at
    BY <1>1, <1>6 DEF RingInv, RingLayout, Contiguous
  <2> QED
    BY <2>1, <2>2, <2>3, <2>4, <2>5 DEF Contiguous
<1>9. InPlace'
  <2>1. ASSUME NEW n \in Live', NEW k \in 0 .. log'[n].len,
               Committed(n)' \/ k < wk'
        PROVE  mem'[Addr(n, k)'] = [id |-> n, k |-> k]
    <3>1. n \in Live /\ Addr(n, k)' = Addr(n, k)
      BY <1>1, PopTailKeepsAddr
    <3>2. Committed(n) \/ k < wk
      BY <1>1, <2>1 DEF Committed, writer
    <3>3. mem[Addr(n, k)] = [id |-> n, k |-> k]
      BY <1>1, <3>1, <3>2 DEF RingInv, RingLayout, InPlace
    <3> QED
      BY <1>1, <3>1, <3>3
  <2>2. ASSUME NEW a \in Cells, mem'[a].id \in Live'
        PROVE  /\ mem'[a].k <= log'[mem'[a].id].len
               /\ a = Addr(mem[a].id, mem[a].k)'
    <3>1. PICK n : n = mem[a].id
      OBVIOUS
    <3>2. PICK k : k = mem[a].k
      OBVIOUS
    <3>3. n \in Live' /\ n \in Live
      BY <1>1, <1>6, <2>2, <3>1
    <3>4. k <= log[n].len /\ a = Addr(n, k)
      BY <3>1, <3>2, <3>3 DEF RingInv, RingLayout, InPlace
    <3>5. k \in Nat
      BY <1>2, <3>2 DEF RingTypeOK, Cell
    <3>6. log[n].len \in Nat
      BY <1>2, <3>3, LiveRange, RecordOf
    <3>7. k \in 0 .. log[n].len
      BY <3>4, <3>5, <3>6
    <3>8. Addr(n, k)' = Addr(n, k)
      BY <3>3, <3>7, PopTailKeepsAddr
    <3> QED
      BY <1>1, <3>1, <3>2, <3>4, <3>8 DEF Addr
  <2> QED
    BY <1>1, <2>1, <2>2 DEF InPlace
<1>10. CopyingNewest'
  BY <1>1 DEF CopyingNewest, PopTail, writer
<1> QED
  BY <1>7, <1>8, <1>9, <1>10 DEF RingInv, RingLayout

\* Publishing appends one record; the others keep their place.
LEMMA PublishAppends ==
    ASSUME RingTypeOK, Publish
    PROVE  /\ Len(log') = Len(log) + 1
           /\ \A n \in 1 .. Len(log) : log'[n] = log[n]
           /\ log'[Len(log')].at = vtail + valid
           /\ log'[Len(log')].len = wrec.len
           /\ log'[Len(log')].type = wrec.type
           /\ log'[Len(log')].seq = seq'
           /\ log'[Len(log')] \in Record
           /\ log' \in Seq(Record)
<1> DEFINE r == [type |-> wrec.type, len |-> wrec.len,
                 seq |-> SeqInc(seq), at |-> vtail + valid]
<1>1. log' = Append(log, r) /\ seq' = SeqInc(seq)
  BY DEF Publish
<1>2. r \in Record
  <2>1. SeqInc(seq) \in 0 .. SeqMod - 1
    BY SeqIncType DEF RingTypeOK
  <2>2. vtail + valid \in Nat
    BY Sizes DEF RingTypeOK
  <2>3. wrec.type \in Types /\ wrec.len \in Lens
    BY DEF RingTypeOK
  <2> QED
    BY <2>1, <2>2, <2>3 DEF Record
<1>3. log \in Seq(Record)
  BY DEF RingTypeOK
<1>4. /\ r.at = vtail + valid /\ r.len = wrec.len /\ r.type = wrec.type
      /\ r.seq = SeqInc(seq)
  OBVIOUS
<1> HIDE DEF r
<1> QED
  BY <1>1, <1>2, <1>3, <1>4

LEMMA PublishInv ==
    ASSUME RingInv, Publish
    PROVE  RingInv'
<1> DEFINE d == Size(wrec)
           L == Len(log)
<1>1. RingTypeOK
  BY DEF RingInv
<1>2. /\ valid' = valid + d /\ valid + d <= DATA_SZ
      /\ wk' = 0 /\ wpc = "fit" /\ wpc' = "copy"
      /\ UNCHANGED <<mem, tail, slot, wrec, eras, oldest, vtail>>
  BY DEF Publish
<1>3. /\ Len(log') = L + 1
      /\ \A n \in 1 .. L : log'[n] = log[n]
      /\ log'[L + 1].at = vtail + valid /\ log'[L + 1].len = wrec.len
      /\ log'[L + 1].type = wrec.type /\ log'[L + 1].seq = seq'
      /\ log'[L + 1] \in Record /\ log' \in Seq(Record)
  BY <1>1, PublishAppends
<1>4. L \in Nat /\ oldest \in Nat /\ oldest > 0 /\ oldest <= L + 1
  BY <1>1 DEF RingTypeOK
<1>5. /\ d \in Nat /\ d > 0 /\ vtail \in Nat /\ valid \in Nat
      /\ log'[L + 1].at + Size(log'[L + 1]) = vtail + (valid + d)
  <2>1. wrec.len \in Nat /\ d = 1 + wrec.len
    BY <1>1, LensBound DEF RingTypeOK, Size
  <2>2. vtail \in Nat /\ valid \in Nat
    BY <1>1, Sizes DEF RingTypeOK
  <2>3. Size(log'[L + 1]) = d
    BY <1>3 DEF Size
  <2> HIDE DEF d, L
  <2> QED
    BY <1>3, <2>1, <2>2, <2>3
<1>6. \A n : n \in Live' <=> (n \in Live \/ n = L + 1)
  BY <1>2, <1>3, <1>4 DEF Live
<1>7. \A n \in Live : n \in 1 .. L /\ log'[n] = log[n]
  BY <1>3, <1>4 DEF Live
<1> HIDE DEF d
<1>8. RingTypeOK'
  <2>1. valid' \in 0 .. DATA_SZ
    BY <1>2, <1>5, Sizes
  <2>2. seq' \in 0 .. SeqMod - 1
    BY <1>1, SeqIncType DEF Publish, RingTypeOK
  <2>3. mem' \in [Cells -> Cell']
    <3>1. \A c \in Cell : c \in Cell'
      BY <1>3, <1>4 DEF Cell
    <3> QED
      BY <1>1, <1>2, <3>1 DEF RingTypeOK
  <2>4. oldest' \in Nat \ {0} /\ oldest' <= Len(log') + 1
    BY <1>2, <1>3, <1>4
  <2>5. wpc' \in {"idle", "fit", "copy", "notify"} /\ wk' \in Nat
    BY <1>2
  <2> QED
    BY <1>1, <1>2, <1>3, <2>1, <2>2, <2>3, <2>4, <2>5 DEF RingTypeOK, slot
<1>9. Contiguous'
  <2>1. oldest' \in Live'
    BY <1>2, <1>3, <1>4 DEF Live
  <2>2. log'[oldest'].at = vtail'
    <3>1. CASE oldest \in Live
      BY <1>2, <1>7, <3>1 DEF RingInv, RingLayout, Contiguous
    <3>2. CASE oldest \notin Live
      <4>1. oldest = L + 1 /\ valid = 0
        BY <1>4, <3>2 DEF RingInv, RingLayout, Contiguous, Live
      <4> QED
        BY <1>2, <1>3, <1>5, <4>1
    <3> QED
      BY <3>1, <3>2
  <2>3. log'[Len(log')].at + Size(log'[Len(log')]) = vtail' + valid'
    BY <1>2, <1>3, <1>5
  <2>4. ASSUME NEW n \in Live', n + 1 \in Live'
        PROVE  log'[n+1].at = log'[n].at + Size(log'[n])
    <3>1. n \in Live /\ n \in 1 .. L
      BY <1>3, <1>4, <1>6, <1>7, <2>4 DEF Live
    <3>2. CASE n = L
      <4>1. oldest \in Live
        BY <1>4, <3>1 DEF Live
      <4>2. log[L].at + Size(log[L]) = vtail + valid
        BY <4>1 DEF RingInv, RingLayout, Contiguous
      <4> QED
        BY <1>3, <1>7, <3>1, <3>2, <4>2
    <3>3. CASE n # L
      <4>1. n + 1 \in Live
        BY <1>4, <3>1, <3>3 DEF Live
      <4> QED
        BY <1>7, <3>1, <4>1 DEF RingInv, RingLayout, Contiguous
    <3> QED
      BY <3>2, <3>3
  <2>5. ASSUME NEW n \in Live'
        PROVE  /\ vtail' <= log'[n].at
               /\ log'[n].at + Size(log'[n]) <= vtail' + valid'
    <3>1. CASE n = L + 1
      BY <1>2, <1>3, <1>5, <3>1
    <3>2. CASE n \in Live
      <4>1. /\ vtail <= log[n].at
            /\ log[n].at + Size(log[n]) <= vtail + valid
        BY <3>2 DEF RingInv, RingLayout, Contiguous
      <4>2. log[n].at \in Nat /\ Size(log[n]) \in Nat
        BY <1>1, <1>7, <3>2, RecordOf
      <4> QED
        BY <1>2, <1>5, <1>7, <3>2, <4>1, <4>2
    <3> QED
      BY <1>6, <3>1, <3>2
  <2>6. ASSUME NEW m \in Live', NEW n \in Live', m < n
        PROVE  log'[m].at + Size(log'[m]) <= log'[n].at
    <3>1. m \in Live
      BY <1>3, <1>4, <2>6, <1>6 DEF Live
    <3>2. CASE n = L + 1
      <4>1. log[m].at + Size(log[m]) <= vtail + valid
        BY <3>1 DEF RingInv, RingLayout, Contiguous
      <4> QED
        BY <1>3, <1>7, <3>1, <3>2, <4>1
    <3>3. CASE n \in Live
      BY <1>7, <2>6, <3>1, <3>3 DEF RingInv, RingLayout, Contiguous
    <3> QED
      BY <1>6, <3>2, <3>3
  <2> QED
    BY <2>1, <2>2, <2>3, <2>4, <2>5, <2>6 DEF Contiguous
<1>10. \A n \in Live : \A k : Addr(n, k)' = Addr(n, k)
  BY <1>2, <1>7 DEF Addr
<1>11. InPlace'
  <2>1. ASSUME NEW n \in Live', NEW k \in 0 .. log'[n].len,
               Committed(n)' \/ k < wk'
        PROVE  mem'[Addr(n, k)'] = [id |-> n, k |-> k]
    <3>1. ~(k < wk')
      <4>1. log'[n].len \in Nat
        BY <1>3, <1>6, <1>7, <1>1, RecordOf, LensBound DEF Record
      <4> QED
        BY <1>2, <4>1
    <3>2. n < L + 1
      BY <1>2, <1>3, <2>1, <3>1 DEF Committed
    <3>3. n \in Live
      BY <1>4, <1>6, <3>2
    <3>4. Committed(n)
      BY <1>2 DEF Committed
    <3>5. mem[Addr(n, k)] = [id |-> n, k |-> k]
      BY <1>7, <3>3, <3>4 DEF RingInv, RingLayout, InPlace
    <3> QED
      BY <1>2, <1>10, <3>3, <3>5
  <2>2. ASSUME NEW a \in Cells, mem'[a].id \in Live'
        PROVE  /\ mem'[a].k <= log'[mem'[a].id].len
               /\ a = Addr(mem[a].id, mem[a].k)'
    <3>1. PICK n : n = mem[a].id
      OBVIOUS
    <3>2. PICK k : k = mem[a].k
      OBVIOUS
    <3>3. n \in 0 .. L
      BY <1>1, <3>1 DEF RingTypeOK, Cell
    <3>4. n \in Live
      BY <1>2, <1>4, <1>6, <2>2, <3>1, <3>3
    <3>5. k <= log[n].len /\ a = Addr(n, k)
      BY <3>1, <3>2, <3>4 DEF RingInv, RingLayout, InPlace
    <3>6. Addr(n, k)' = Addr(n, k) /\ log'[n] = log[n]
      BY <1>7, <1>10, <3>4
    <3> QED
      BY <1>2, <3>1, <3>2, <3>5, <3>6 DEF Addr
  <2> QED
    BY <1>2, <2>1, <2>2 DEF InPlace
<1>12. CopyingNewest'
  <2>1. Len(log') \in Live'
    BY <1>3, <1>6
  <2>2. wrec'.len \in Nat
    BY <1>1, <1>2, LensBound DEF RingTypeOK
  <2> QED
    BY <1>2, <1>3, <2>1, <2>2 DEF CopyingNewest
<1> QED
  BY <1>8, <1>9, <1>11, <1>12 DEF RingInv, RingLayout

LEMMA CopyInInv ==
    ASSUME RingInv, CopyIn
    PROVE  RingInv'
<1> DEFINE L == Len(log)
<1>1. RingTypeOK
  BY DEF RingInv
<1>2. /\ wpc = "copy" /\ wk' = wk + 1
      /\ mem' = [mem EXCEPT ![Addr(L, wk)] = [id |-> L, k |-> wk]]
      /\ wpc' = IF wk = wrec.len THEN "notify" ELSE "copy"
      /\ UNCHANGED <<valid, tail, seq, slot, wrec, eras, past>>
  BY DEF CopyIn
<1>3. /\ L \in Live /\ log[L].len = wrec.len /\ log[L].type = wrec.type
      /\ log[L].seq = seq /\ wk <= wrec.len
  BY <1>2 DEF RingInv, CopyingNewest
<1>4. wk \in Nat /\ wrec.len \in Nat /\ wk \in 0 .. log[L].len /\ L \in Nat
  <2>1. wk \in Nat /\ wrec.len \in Lens
    BY <1>1 DEF RingTypeOK
  <2>2. L \in Nat
    BY <1>1 DEF RingTypeOK
  <2> QED
    BY <1>3, <2>1, <2>2, LensBound
<1>5. Addr(L, wk) \in Cells
  BY <1>3, <1>4, LiveCell
<1>6. Live' = Live /\ log' = log
  BY <1>2 DEF Live, past
<1>7. \A n, k : Addr(n, k)' = Addr(n, k)
  BY <1>2 DEF Addr, past
<1>8. mem'[Addr(L, wk)] = [id |-> L, k |-> wk]
  BY <1>1, <1>2, <1>5 DEF RingTypeOK
<1>9. \A a \in Cells : a # Addr(L, wk) => mem'[a] = mem[a]
  BY <1>1, <1>2 DEF RingTypeOK
<1>10. RingTypeOK'
  <2>1. mem' \in [Cells -> Cell]
    <3>1. [id |-> L, k |-> wk] \in Cell
      BY <1>4 DEF Cell
    <3> QED
      BY <1>1, <1>2, <3>1 DEF RingTypeOK
  <2>2. Cell' = Cell
    BY <1>6 DEF Cell
  <2>3. wk' \in Nat
    BY <1>2, <1>4
  <2>4. wpc' \in {"idle", "fit", "copy", "notify"}
    BY <1>2
  <2> QED
    BY <1>1, <1>2, <2>1, <2>2, <2>3, <2>4 DEF RingTypeOK, slot, past
<1>11. Contiguous'
  BY <1>2, <1>6 DEF RingInv, RingLayout, Contiguous, past
<1>12. InPlace'
  <2>1. ASSUME NEW n \in Live', NEW k \in 0 .. log'[n].len,
               Committed(n)' \/ k < wk'
        PROVE  mem'[Addr(n, k)'] = [id |-> n, k |-> k]
    <3>1. n \in Live /\ k \in 0 .. log[n].len
      BY <1>6
    <3>2. CASE n = L /\ k = wk
      BY <1>7, <1>8, <3>2
    <3>3. CASE ~(n = L /\ k = wk)
      <4>1. Addr(n, k) # Addr(L, wk)
        BY <1>3, <1>4, <3>1, <3>3, LiveCellsDisjoint
      <4>2. Addr(n, k) \in Cells
        BY <3>1, LiveCell
      <4>3. Committed(n) \/ k < wk
        <5>1. n \in 1 .. L
          BY <1>1, <3>1, LiveRange
        <5>2. CASE n < L
          BY <5>2 DEF Committed
        <5>3. CASE n = L
          <6>1. k \in Nat /\ k <= wrec.len
            BY <1>3, <1>4, <3>1, <5>3
          <6>2. Committed(n)' => wk = wrec.len
            BY <1>2, <1>6, <5>3, <1>4 DEF Committed
          <6> QED
            BY <1>2, <1>4, <2>1, <3>3, <5>3, <6>1, <6>2
        <5> QED
          BY <1>4, <5>1, <5>2, <5>3
      <4>4. mem[Addr(n, k)] = [id |-> n, k |-> k]
        BY <3>1, <4>3 DEF RingInv, RingLayout, InPlace
      <4> QED
        BY <1>7, <1>9, <4>1, <4>2, <4>4
    <3> QED
      BY <3>2, <3>3
  <2>2. ASSUME NEW a \in Cells, mem'[a].id \in Live'
        PROVE  /\ mem'[a].k <= log'[mem'[a].id].len
               /\ a = Addr(mem'[a].id, mem'[a].k)
    <3>1. CASE a = Addr(L, wk)
      BY <1>3, <1>6, <1>8, <3>1
    <3>2. CASE a # Addr(L, wk)
      <4>1. mem'[a] = mem[a]
        BY <1>9, <3>2
      <4> QED
        BY <1>6, <2>2, <4>1 DEF RingInv, RingLayout, InPlace
    <3> QED
      BY <3>1, <3>2
  <2>3. ASSUME NEW a \in Cells
        PROVE  Addr(mem[a].id, mem[a].k)' = Addr(mem'[a].id, mem'[a].k)
    BY <1>2 DEF Addr, past
  <2> QED
    BY <2>1, <2>2, <2>3 DEF InPlace
<1>13. CopyingNewest'
  <2>1. ASSUME wpc' = "copy" PROVE wk' <= wrec'.len
    BY <1>2, <1>3, <1>4, <2>1
  <2> QED
    BY <1>2, <1>3, <1>6, <2>1 DEF CopyingNewest
<1> QED
  BY <1>10, <1>11, <1>12, <1>13 DEF RingInv, RingLayout

\* Every step of the writer keeps the ring well formed.
LEMMA WriterInv ==
    ASSUME RingInv, WriterNext
    PROVE  RingInv'
BY BeginWriteInv, PopTailInv, PublishInv, CopyInInv, NotifyInv, EraResetInv
   DEF WriterNext, WriteStep
-----------------------------------------------------------------------------
(***************************************************************************)
(* The reader                                                              *)
(***************************************************************************)
ReaderInv == ReaderTypeOK /\ SampleOK /\ MatchOK

LEMMA IInvParts == IInv <=> RingInv /\ ReaderInv
BY DEF IInv, RingInv, ReaderInv, TypeOK

LEMMA IInvInit == Init => IInv
<1> SUFFICES ASSUME Init PROVE RingInv /\ ReaderInv
  BY IInvParts
<1>1. RingInv
  BY RingInvInit DEF Init
<1>2. ReaderTypeOK
  <2>1. ReaderInit
    BY DEF Init
  <2>2. off \in Cells
    BY <2>1, Sizes DEF ReaderInit, Cells
  <2>3. /\ newest \in 0 .. SeqMod - 1 /\ best \in 0 .. SeqMod - 1
        /\ slot_cursor \in 0 .. SeqMod - 1 /\ base \in 0 .. SeqMod - 1
    BY <2>1, Sizes DEF ReaderInit
  <2>4. Len(log) \in Nat
    BY <1>1 DEF RingInv, RingTypeOK
  <2>5. nid \in 0 .. Len(log) /\ rid \in 0 .. Len(log) /\ join \in 0 .. Len(log)
    BY <2>1, <2>4 DEF ReaderInit
  <2>6. payload \in Seq([id : Nat, k : Nat]) /\ fed \in Seq(Nat)
    BY <2>1 DEF ReaderInit
  <2>7. /\ rpc = "off" /\ rpc # "copy" /\ rpc # "take"
        /\ left \in Int /\ rat \in Nat
        /\ last_valid \in Nat /\ stall_anchors \in Nat /\ starts \in Nat
    BY <2>1 DEF ReaderInit
  <2>8. /\ got \in BOOLEAN /\ last_emit \in BOOLEAN /\ stop_flag \in BOOLEAN
        /\ misread \in BOOLEAN
    BY <2>1 DEF ReaderInit
  <2> QED
    BY <2>2, <2>3, <2>5, <2>6, <2>7, <2>8 DEF ReaderTypeOK
<1>3. SampleOK /\ MatchOK
  BY DEF Init, ReaderInit, SampleOK, MatchOK
<1> QED
  BY <1>1, <1>2, <1>3 DEF ReaderInv

\* The writer never changes a published record, never takes back a commit,
\* and does not move the records it keeps.
LEMMA WriterMonotone ==
    ASSUME RingInv, WriterNext
    PROVE  /\ Len(log) \in Nat /\ Len(log') \in Nat /\ Len(log) <= Len(log')
           /\ oldest \in Nat /\ oldest' \in Nat /\ oldest <= oldest'
           /\ \A n \in 1 .. Len(log) :
                /\ log'[n] = log[n]
                /\ Committed(n) => Committed(n)'
                /\ n \in Live' => n \in Live /\ Addr(n, 0)' = Addr(n, 0)
<1>1. RingTypeOK /\ Len(log) \in Nat /\ oldest \in Nat
  BY DEF RingInv, RingTypeOK
<1>2. CASE PopTail
  <2>1. \A n \in 1 .. Len(log) : log'[n] = log[n] /\ Committed(n) => Committed(n)'
    BY <1>2 DEF PopTail, Committed, writer
  <2>2. ASSUME NEW n \in Live'
        PROVE  n \in Live /\ Addr(n, 0)' = Addr(n, 0)
    <3>1. n \in Live
      BY <1>1, <1>2, <2>2 DEF Live, PopTail
    <3>2. 0 \in 0 .. log[n].len
      BY <1>1, <3>1, LiveRange, RecordOf
    <3> QED
      BY <1>2, <3>1, <3>2, PopTailKeepsAddr
  <2> QED
    BY <1>1, <1>2, <2>1, <2>2 DEF PopTail, Committed, writer
<1>3. CASE Publish
  <2>1. Len(log') = Len(log) + 1 /\ \A n \in 1 .. Len(log) : log'[n] = log[n]
    BY <1>1, <1>3, PublishAppends
  <2>2. oldest' = oldest /\ tail' = tail /\ vtail' = vtail
    BY <1>3 DEF Publish
  <2>3. \A n \in 1 .. Len(log) : Committed(n)'
    BY <1>1, <2>1 DEF Committed
  <2>4. \A n \in 1 .. Len(log) : Addr(n, 0)' = Addr(n, 0)
    BY <2>1, <2>2 DEF Addr
  <2>5. \A n \in 1 .. Len(log) : n \in Live' => n \in Live
    BY <1>1, <2>1, <2>2 DEF Live
  <2> QED
    BY <1>1, <2>1, <2>2, <2>3, <2>4, <2>5
<1>4. CASE CopyIn
  BY <1>1, <1>4 DEF CopyIn, Committed, Addr, Live, past
<1>5. CASE BeginWrite \/ Notify \/ EraReset
  BY <1>1, <1>5
     DEF BeginWrite, Notify, EraReset, Committed, Addr, Live, past, shared
<1> QED
  BY <1>2, <1>3, <1>4, <1>5 DEF WriterNext, WriteStep

\* So nothing the reader holds is invalidated by a step of the writer.
LEMMA WriterKeepsReader ==
    ASSUME RingInv, ReaderInv, WriterAction
    PROVE  ReaderInv'
<1>1. WriterNext /\ UNCHANGED reader
  BY DEF WriterAction
<1>2. /\ Len(log) \in Nat /\ Len(log') \in Nat /\ Len(log) <= Len(log')
      /\ oldest \in Nat /\ oldest' \in Nat /\ oldest <= oldest'
      /\ \A n \in 1 .. Len(log) :
           /\ log'[n] = log[n]
           /\ Committed(n) => Committed(n)'
           /\ n \in Live' => n \in Live /\ Addr(n, 0)' = Addr(n, 0)
  BY <1>1, WriterMonotone
<1>3. UNCHANGED <<rpc, off, left, newest, nid, rat, misread, best, rid, payload,
                  got, slot_cursor, last_valid, last_emit, stall_anchors,
                  stop_flag, starts, fed, base, join>>
  BY <1>1 DEF reader, walk, match, watchdog
<1>4. nid \in 0 .. Len(log) /\ rid \in 0 .. Len(log) /\ join \in 0 .. Len(log)
  BY DEF ReaderInv, ReaderTypeOK
<1>5. ReaderTypeOK'
  <2>1. nid' \in 0 .. Len(log') /\ rid' \in 0 .. Len(log') /\ join' \in 0 .. Len(log')
    BY <1>2, <1>3, <1>4
  <2>2. /\ rpc = "copy" => rid # 0 /\ Len(payload) < log[rid].len
        /\ rpc = "take" => rid # 0 /\ Len(payload) = log[rid].len
    BY DEF ReaderInv, ReaderTypeOK
  <2>3. rid # 0 => log'[rid] = log[rid]
    BY <1>2, <1>4
  <2>4. rpc' = "copy" => rid' # 0 /\ Len(payload') < log'[rid'].len
    BY <1>3, <2>2, <2>3
  <2>5. rpc' = "take" => rid' # 0 /\ Len(payload') = log'[rid'].len
    BY <1>3, <2>2, <2>3
  <2> QED
    BY <1>3, <2>1, <2>4, <2>5 DEF ReaderInv, ReaderTypeOK
<1>6. SampleOK'
  BY <1>2, <1>3, <1>4 DEF ReaderInv, SampleOK
<1>7. MatchOK'
  <2>1. PICK n : n = rid
    OBVIOUS
  <2> SUFFICES ASSUME rpc \in {"copy", "take"}, n \in oldest' .. nid
               PROVE  Committed(n)' /\ off = Addr(n, 0)' /\ PayloadSoFar
    BY <1>3, <2>1 DEF MatchOK, PayloadSoFar, Addr, Committed
  <2>2. n \in oldest .. nid /\ n \in Live' /\ n \in 1 .. Len(log)
    BY <1>2, <1>4, <2>1 DEF Live, RingInv, RingTypeOK
  <2>3. Committed(n) /\ off = Addr(n, 0) /\ PayloadSoFar
    BY <2>1, <2>2 DEF ReaderInv, MatchOK
  <2> QED
    BY <1>2, <2>2, <2>3
<1> QED
  BY <1>5, <1>6, <1>7 DEF ReaderInv

\* A step of the reader process, of its supervisor or of a signal.
ReaderSide == ReaderStep \/ Start \/ Term \/ Kill

LEMMA ReaderSideShared ==
    ASSUME ReaderSide
    PROVE  UNCHANGED <<mem, valid, tail, seq, wpc, wrec, wk, eras, log, oldest,
                       vtail>>
BY DEF ReaderSide, ReaderStep, Start, Term, Kill, ReadValid, ReadSeq,
       ClaimWalk, ClaimWalkEnd, ClaimSeed, ClaimFilter, Poll, WalkSkip,
       WalkJump, WalkMatch, WalkEnd, CopyOut, Take, NoneForUs, WatchQuiet,
       WatchAnchor, WatchGiveUp, Emit, Stop, shared, writer, past

\* The cursor claim_slot starts from is a sequence number.
LEMMA SeedType ==
    ASSUME RingTypeOK, ReaderTypeOK
    PROVE  Seed \in 0 .. SeqMod - 1
<1>1. best \in 0 .. SeqMod - 1 /\ seq \in 0 .. SeqMod - 1
  BY DEF RingTypeOK, ReaderTypeOK
<1> QED
  BY <1>1, Sizes DEF Seed

LEMMA ReaderSideSlot ==
    ASSUME RingTypeOK, ReaderTypeOK, ReaderSide
    PROVE  /\ pending' \in BOOLEAN
           /\ cursor' \in 0 .. SeqMod - 1
           /\ filter' \in {"none", "hires", "audio"}
<1>1. /\ pending \in BOOLEAN /\ cursor \in 0 .. SeqMod - 1
      /\ filter \in {"none", "hires", "audio"}
      /\ seq \in 0 .. SeqMod - 1 /\ newest \in 0 .. SeqMod - 1
  BY DEF RingTypeOK, ReaderTypeOK
<1>2. pending' \in BOOLEAN
  BY <1>1
  DEF ReaderSide, ReaderStep, Start, Term, Kill, ReadValid, ReadSeq,
      ClaimWalk, ClaimWalkEnd, ClaimSeed, ClaimFilter, Poll, WalkSkip,
      WalkJump, WalkMatch, WalkEnd, CopyOut, Take, NoneForUs, WatchQuiet,
      WatchAnchor, WatchGiveUp, Emit, Stop, Release, slot
<1>3. filter' \in {"none", "hires", "audio"}
  <2>1. Mine \in {"hires", "audio"}
    BY ReaderAssumption
  <2> QED
    BY <1>1, <2>1
    DEF ReaderSide, ReaderStep, Start, Term, Kill, ReadValid, ReadSeq,
        ClaimWalk, ClaimWalkEnd, ClaimSeed, ClaimFilter, Poll, WalkSkip,
        WalkJump, WalkMatch, WalkEnd, CopyOut, Take, NoneForUs, WatchQuiet,
        WatchAnchor, WatchGiveUp, Emit, Stop, Release, slot
<1>4. cursor' \in 0 .. SeqMod - 1
  <2>1. CASE ClaimSeed
    BY <2>1, SeedType DEF ClaimSeed
  <2>2. CASE Take
    <3>1. rid \in 1 .. Len(log)
      BY <2>2 DEF Take, ReaderTypeOK, RingTypeOK
    <3> QED
      BY <2>2, <3>1, RecordOf DEF Take
  <2>3. CASE NoneForUs \/ WatchAnchor
    BY <1>1, <2>3 DEF NoneForUs, WatchAnchor
  <2>4. CASE WatchGiveUp \/ Stop
    BY <2>4, Sizes DEF WatchGiveUp, Stop, Release
  <2>5. CASE ~(ClaimSeed \/ Take \/ NoneForUs \/ WatchAnchor \/ WatchGiveUp
                 \/ Stop)
    <3>1. cursor' = cursor
      BY <2>5
      DEF ReaderSide, ReaderStep, Start, Term, Kill, ReadValid, ReadSeq,
          ClaimWalk, ClaimWalkEnd, ClaimFilter, Poll, WalkSkip,
          WalkJump, WalkMatch, WalkEnd, CopyOut, WatchQuiet, Emit, slot
    <3> QED
      BY <1>1, <3>1
  <2> QED
    BY <2>1, <2>2, <2>3, <2>4, <2>5
<1> QED
  BY <1>2, <1>3, <1>4

LEMMA ReaderSideRing ==
    ASSUME RingInv, ReaderInv, ReaderSide
    PROVE  RingInv'
<1>1. UNCHANGED <<ringVars, seq>> /\ eras' \in Nat
  BY ReaderSideShared DEF ringVars, past, RingInv, RingTypeOK
<1> QED
  BY <1>1, ReaderSideSlot, RingFrame DEF RingInv, ReaderInv

\* The type invariant in two halves: Boolean flags, and the rest.
FlagsOK == /\ got \in BOOLEAN /\ last_emit \in BOOLEAN
           /\ stop_flag \in BOOLEAN /\ misread \in BOOLEAN
HeldOK == /\ rpc = "copy" => rid # 0 /\ Len(payload) < log[rid].len
          /\ rpc = "take" => rid # 0 /\ Len(payload) = log[rid].len
NumbersOK ==
    /\ rpc \in {"off", "cValid", "cSeq", "cWalk", "cSeed", "cFilter", "poll",
                "rValid", "rSeq", "walk", "copy", "take", "none", "watch",
                "emit", "gone"}
    /\ off \in Cells /\ left \in Int /\ rat \in Nat
    /\ newest \in 0 .. SeqMod - 1 /\ best \in 0 .. SeqMod - 1
    /\ slot_cursor \in 0 .. SeqMod - 1 /\ base \in 0 .. SeqMod - 1
    /\ nid \in 0 .. Len(log) /\ rid \in 0 .. Len(log) /\ join \in 0 .. Len(log)
    /\ payload \in Seq([id : Nat, k : Nat])
    /\ last_valid \in Nat /\ stall_anchors \in Nat /\ starts \in Nat
    /\ fed \in Seq(Nat)

LEMMA ReaderTypeParts == ReaderTypeOK <=> NumbersOK /\ FlagsOK /\ HeldOK
BY DEF ReaderTypeOK, NumbersOK, FlagsOK, HeldOK

\* What a header that passes the walk's tests is worth.
LEMMA MatchedHeader ==
    ASSUME RingTypeOK, NumbersOK, Walkable(mem[off])
    PROVE  /\ mem[off].id \in 1 .. Len(log) /\ mem[off].k = 0
           /\ log[mem[off].id].seq \in 0 .. SeqMod - 1
           /\ log[mem[off].id].seq # newest
           /\ log[mem[off].id].len > 0
           /\ Wrap(off + Size(log[mem[off].id])) \in Cells
           /\ left - Size(log[mem[off].id]) \in Int
           /\ rat + Size(log[mem[off].id]) \in Nat
<1>1. off \in Cells /\ left \in Int /\ rat \in Nat
  BY DEF NumbersOK
<1>2. mem[off].id \in 0 .. Len(log)
  BY <1>1 DEF RingTypeOK, Cell
<1>3. mem[off].id \in 1 .. Len(log) /\ mem[off].k = 0
  BY <1>2 DEF Walkable, MagicOK, RingTypeOK
<1> DEFINE r == log[mem[off].id]
<1>4. /\ r.seq \in 0 .. SeqMod - 1 /\ r.len \in Nat \ {0} /\ r.len < DATA_SZ
      /\ Size(r) = 1 + r.len
  BY <1>3, RecordOf
<1>5. off \in Nat /\ off < DATA_SZ
  BY <1>1, Sizes DEF Cells
<1>6. r.seq # newest
  BY DEF Walkable
<1> HIDE DEF r
<1>7. off + Size(r) \in Nat /\ off + Size(r) < 2 * DATA_SZ
  BY <1>4, <1>5, Sizes
<1>8. Wrap(off + Size(r)) \in Cells
  BY <1>7, WrapType
<1>9. left - Size(r) \in Int /\ rat + Size(r) \in Nat
  BY <1>1, <1>4
<1> QED
  BY <1>3, <1>4, <1>6, <1>8, <1>9 DEF r

LEMMA ReaderSideFlags ==
    ASSUME FlagsOK, ReaderSide
    PROVE  FlagsOK'
BY Zenon
DEF FlagsOK, ReaderSide, ReaderStep, Start, Term, Kill, ReadValid, ReadSeq,
    ClaimWalk, ClaimWalkEnd, ClaimSeed, ClaimFilter, Poll, WalkSkip,
    WalkJump, WalkMatch, WalkEnd, CopyOut, Take, NoneForUs, WatchQuiet,
    WatchAnchor, WatchGiveUp, Emit, Stop, Release, ProcessOver, WalkOver,
    RoundOver, Rest, Misread, Advance, walk, match, watchdog

LEMMA Zeros ==
    ASSUME RingTypeOK
    PROVE  /\ 0 \in Cells /\ 0 \in 0 .. SeqMod - 1 /\ 0 \in 0 .. Len(log)
           /\ Len(log) \in 0 .. Len(log)
           /\ tail \in Cells /\ vtail \in Nat /\ valid \in Nat
           /\ seq \in 0 .. SeqMod - 1
           /\ <<>> \in Seq([id : Nat, k : Nat]) /\ <<>> \in Seq(Nat)
BY Sizes DEF RingTypeOK, Cells

LEMMA ReaderSideNumbers ==
    ASSUME RingTypeOK, ReaderTypeOK, ReaderSide
    PROVE  NumbersOK'
<1> USE DEF walk, match, watchdog
<1>1. NumbersOK
  BY ReaderTypeParts
<1>2. UNCHANGED log
  BY ReaderSideShared
<1>3. CASE Start \/ Term \/ Kill
  <2>1. CASE Start
    <3>1. starts' \in Nat
      BY <1>1, <2>1 DEF Start, NumbersOK
    <3>2. off' \in Cells /\ rat' \in Nat /\ rpc' \in {"cSeed", "cValid"}
      BY <2>1, Zeros DEF Start
    <3> QED
      BY <1>1, <1>2, <2>1, <3>1, <3>2, Zeros DEF Start, NumbersOK
  <2>2. CASE Term
    BY <1>1, <1>2, <2>2 DEF Term, NumbersOK
  <2>3. CASE Kill
    BY <1>1, <1>2, <2>3, Zeros
    DEF Kill, NumbersOK, ProcessOver, WalkOver, RoundOver
  <2> QED
    BY <1>3, <2>1, <2>2, <2>3
<1>4. CASE ReadValid \/ ReadSeq
  <2>1. CASE ReadValid
    BY <1>1, <1>2, <2>1, Zeros DEF ReadValid, NumbersOK
  <2>2. CASE ReadSeq
    BY <1>1, <1>2, <2>2, Zeros DEF ReadSeq, NumbersOK
  <2> QED
    BY <1>4, <2>1, <2>2
<1>5. CASE ClaimWalk
  <2>1. Walkable(mem[off])
    BY <1>5 DEF ClaimWalk
  <2>2. /\ off' \in Cells /\ left' \in Int /\ rat' \in Nat
        /\ newest' = newest /\ nid' = nid
    BY <1>1, <1>5, <2>1, MatchedHeader DEF ClaimWalk, Advance
  <2>3. best' \in 0 .. SeqMod - 1 /\ join' \in 0 .. Len(log)
    <3>1. /\ mem[off].id \in 0 .. Len(log)
          /\ log[mem[off].id].seq \in 0 .. SeqMod - 1
      BY <1>1, <2>1, MatchedHeader DEF RingTypeOK
    <3> QED
      BY <1>1, <1>5, <3>1 DEF ClaimWalk, NumbersOK
  <2> QED
    BY <1>1, <1>2, <1>5, <2>2, <2>3 DEF ClaimWalk, NumbersOK
<1>6. CASE ClaimWalkEnd \/ ClaimSeed \/ ClaimFilter
  <2>1. CASE ClaimWalkEnd
    BY <1>1, <1>2, <2>1 DEF ClaimWalkEnd, NumbersOK
  <2>2. CASE ClaimSeed
    BY <1>1, <1>2, <2>2 DEF ClaimSeed, NumbersOK
  <2>3. CASE ClaimFilter
    BY <1>1, <1>2, <2>3, SeedType, Zeros DEF ClaimFilter, NumbersOK, WalkOver
  <2> QED
    BY <1>6, <2>1, <2>2, <2>3
<1>7. CASE Poll
  <2>1. off' \in Cells /\ rat' \in Nat /\ base' \in 0 .. SeqMod - 1
        /\ rpc' \in {"rValid", "watch"}
    BY <1>1, <1>7, Zeros DEF Poll, NumbersOK
  <2> QED
    BY <1>1, <1>2, <1>7, <2>1 DEF Poll, NumbersOK
<1>8. CASE WalkSkip
  <2>1. Walkable(mem[off])
    BY <1>8 DEF WalkSkip
  <2>2. /\ off' \in Cells /\ left' \in Int /\ rat' \in Nat
        /\ newest' = newest /\ nid' = nid
    BY <1>1, <1>8, <2>1, MatchedHeader DEF WalkSkip, Advance
  <2> QED
    BY <1>1, <1>2, <1>8, <2>2 DEF WalkSkip, NumbersOK
<1>9. CASE WalkJump
  <2>1. log[mem[off].id].seq \in 0 .. SeqMod - 1
    BY <1>1, <1>9, MatchedHeader DEF WalkJump
  <2> DEFINE s == log[mem[off].id].seq
  <2>2. Sub(s, 1) \in 0 .. SeqMod - 1
    <3>1. s \in Int
      BY <2>1, Sizes
    <3> HIDE DEF s
    <3> QED
      BY <3>1, SubType
  <2> QED
    BY <1>1, <1>2, <1>9, <2>2 DEF WalkJump, NumbersOK
<1>10. CASE WalkMatch
  <2>1. mem[off].id \in 0 .. Len(log)
    BY <1>1, <1>10, MatchedHeader DEF WalkMatch, RingTypeOK
  <2> QED
    BY <1>1, <1>2, <1>10, <2>1, Zeros DEF WalkMatch, NumbersOK
<1>11. CASE WalkEnd
  BY <1>1, <1>2, <1>11 DEF WalkEnd, NumbersOK
<1>12. CASE CopyOut
  <2>1. mem[Wrap(off + 1 + Len(payload))] \in [id : Nat, k : Nat]
    <3>1. rid \in 1 .. Len(log) /\ Len(payload) < log[rid].len
      BY <1>12 DEF CopyOut, ReaderTypeOK, RingTypeOK
    <3>2. log[rid].len \in Nat /\ log[rid].len < DATA_SZ
      BY <3>1, RecordOf
    <3>3. off \in Nat /\ off < DATA_SZ /\ Len(payload) \in Nat
      BY <1>1, Sizes DEF NumbersOK, Cells
    <3>4. off + 1 + Len(payload) \in Nat /\ off + 1 + Len(payload) < 2 * DATA_SZ
      BY <3>1, <3>2, <3>3, Sizes
    <3>5. Wrap(off + 1 + Len(payload)) \in Cells
      BY <3>4, WrapType
    <3>6. mem[Wrap(off + 1 + Len(payload))] \in Cell
      BY <3>5 DEF RingTypeOK
    <3> QED
      BY <3>6 DEF Cell, RingTypeOK
  <2>2. payload' \in Seq([id : Nat, k : Nat])
    <3>1. payload \in Seq([id : Nat, k : Nat])
      BY <1>1 DEF NumbersOK
    <3> QED
      BY <1>12, <2>1, <3>1 DEF CopyOut
  <2> QED
    BY <1>1, <1>2, <1>12, <2>2 DEF CopyOut, NumbersOK
<1>13. CASE Take
  <2>1. log[rid].seq \in 0 .. SeqMod - 1
    <3>1. rid \in 1 .. Len(log)
      BY <1>13 DEF Take, ReaderTypeOK, RingTypeOK
    <3> QED
      BY <3>1, RecordOf
  <2> QED
    BY <1>1, <1>2, <1>13, <2>1, Zeros DEF Take, NumbersOK, WalkOver
<1>14. CASE NoneForUs
  <2>1. slot_cursor' \in 0 .. SeqMod - 1
    BY <1>1, <1>14 DEF NoneForUs, NumbersOK
  <2> QED
    BY <1>1, <1>2, <1>14, <2>1, Zeros DEF NoneForUs, NumbersOK, WalkOver
<1>15. CASE WatchQuiet
  <2>1. rpc' \in {"emit", "poll"} /\ stall_anchors' \in Nat
    BY <1>1, <1>15 DEF WatchQuiet, Rest, NumbersOK
  <2>2. last_valid' \in Nat
    BY <1>1, <1>15, Zeros DEF WatchQuiet, NumbersOK
  <2> QED
    BY <1>1, <1>2, <1>15, <2>1, <2>2 DEF WatchQuiet, Rest, NumbersOK
<1>16. CASE WatchAnchor
  <2>1. rpc' \in {"emit", "poll"} /\ stall_anchors' \in Nat
    BY <1>1, <1>16 DEF WatchAnchor, Rest, NumbersOK
  <2> QED
    BY <1>1, <1>2, <1>16, <2>1, Zeros DEF WatchAnchor, Rest, NumbersOK
<1>17. CASE WatchGiveUp \/ Stop
  <2>1. Release /\ UNCHANGED <<starts, fed>>
    BY <1>17 DEF WatchGiveUp, Stop
  <2>2. /\ rpc' = "gone" /\ off' = 0 /\ left' = 0 /\ newest' = 0 /\ nid' = 0
        /\ rat' = 0 /\ base' = 0 /\ rid' = 0 /\ payload' = <<>>
        /\ best' = 0 /\ join' = 0 /\ slot_cursor' = 0
        /\ last_valid' = 0 /\ stall_anchors' = 0
    BY <2>1 DEF Release, ProcessOver, WalkOver, RoundOver
  <2> QED
    BY <1>1, <1>2, <2>1, <2>2, Zeros DEF NumbersOK
<1>18. CASE Emit
  <2>1. fed' \in Seq(Nat)
    <3>1. fed \in Seq(Nat) /\ rid \in Nat
      BY <1>1 DEF NumbersOK, RingTypeOK
    <3> QED
      BY <1>18, <3>1 DEF Emit
  <2> QED
    BY <1>1, <1>2, <1>18, <2>1, Zeros DEF Emit, RoundOver, NumbersOK
<1> QED
  BY <1>3, <1>4, <1>5, <1>6, <1>7, <1>8, <1>9, <1>10, <1>11, <1>12, <1>13,
     <1>14, <1>15, <1>16, <1>17, <1>18
  DEF ReaderSide, ReaderStep

LEMMA ReaderSideHeld ==
    ASSUME RingTypeOK, ReaderTypeOK, ReaderSide
    PROVE  HeldOK'
<1>1. NumbersOK /\ HeldOK
  BY ReaderTypeParts
<1>2. log' = log
  BY ReaderSideShared
<1>3. CASE WalkMatch
  <2>1. rpc' = "copy" /\ rid' = mem[off].id /\ payload' = <<>>
    BY <1>3 DEF WalkMatch
  <2>2. mem[off].id # 0 /\ log[mem[off].id].len > 0
    <3>1. mem[off].id \in 1 .. Len(log) /\ log[mem[off].id].len > 0
      BY <1>1, <1>3, MatchedHeader DEF WalkMatch
    <3> QED
      BY <3>1
  <2>3. Len(payload') = 0
    BY <2>1
  <2> QED
    BY <1>2, <2>1, <2>2, <2>3 DEF HeldOK
<1>4. CASE CopyOut
  <2>1. /\ rid' = rid /\ rid # 0 /\ Len(payload) < log[rid].len
        /\ rpc' = IF Len(payload) + 1 = log[rid].len THEN "take" ELSE "copy"
    BY <1>1, <1>4 DEF CopyOut, HeldOK
  <2>2. Len(payload') = Len(payload) + 1 /\ Len(payload) \in Nat
    BY <1>1, <1>4 DEF CopyOut, NumbersOK
  <2>3. log[rid].len \in Nat
    <3>1. rid \in 1 .. Len(log)
      BY <1>1, <2>1 DEF NumbersOK, RingTypeOK
    <3> QED
      BY <3>1, RecordOf
  <2> QED
    BY <1>2, <2>1, <2>2, <2>3 DEF HeldOK
<1>5. CASE Term
  BY <1>1, <1>2, <1>5 DEF Term, HeldOK, match
<1>6. CASE (ReaderStep /\ ~WalkMatch /\ ~CopyOut) \/ Start \/ Kill
  <2>1. rpc' \notin {"copy", "take"}
    BY <1>6, Zenon
    DEF ReaderStep, Start, Kill, ReadValid, ReadSeq, ClaimWalk, ClaimWalkEnd,
        ClaimSeed, ClaimFilter, Poll, WalkSkip, WalkJump, WalkEnd, Take,
        NoneForUs, WatchQuiet, WatchAnchor, WatchGiveUp, Emit, Stop, Release,
        Rest
  <2> QED
    BY <2>1 DEF HeldOK
<1> QED
  BY <1>3, <1>4, <1>5, <1>6 DEF ReaderSide

LEMMA ReaderSideType ==
    ASSUME RingTypeOK, ReaderTypeOK, ReaderSide
    PROVE  ReaderTypeOK'
<1>1. NumbersOK' /\ FlagsOK' /\ HeldOK'
  BY ReaderTypeParts, ReaderSideNumbers, ReaderSideFlags, ReaderSideHeld
<1> QED
  BY <1>1 DEF ReaderTypeOK, NumbersOK, FlagsOK, HeldOK

\* The reader moves no record and copies none: the ring's predicates, read
\* as functions of a record's index, are what they were.
LEMMA ReaderSideFrame ==
    ASSUME ReaderSide, NEW n, NEW k
    PROVE  /\ Committed(n)' <=> Committed(n)
           /\ Addr(n, k)' = Addr(n, k)
           /\ log' = log /\ oldest' = oldest
BY ReaderSideShared DEF Committed, Addr

\* The walk is under way, and a match is being copied, only where the rpc
\* says so: every other step leaves those states.
LEMMA ReaderSideWalks ==
    ASSUME ReaderSide, ~ReadSeq, rpc' \in {"cWalk", "walk", "copy", "take"}
    PROVE  /\ rpc \in {"cWalk", "walk", "copy", "take"}
           /\ newest' = newest /\ nid' = nid
<1>1. ClaimWalk \/ WalkSkip \/ WalkJump \/ WalkMatch \/ CopyOut \/ Term
  BY DEF ReaderSide, ReaderStep, Start, Kill, ReadValid, ClaimWalkEnd,
         ClaimSeed, ClaimFilter, Poll, WalkEnd, Take, NoneForUs, WatchQuiet,
         WatchAnchor, WatchGiveUp, Emit, Stop, Release, Rest
<1>2. newest' = newest /\ nid' = nid
  BY <1>1 DEF ClaimWalk, WalkSkip, WalkJump, WalkMatch, CopyOut, Term, Advance,
              walk
<1>3. rpc \in {"cWalk", "walk", "copy", "take"}
  BY <1>1 DEF ClaimWalk, WalkSkip, WalkJump, WalkMatch, CopyOut, Term
<1> QED
  BY <1>2, <1>3

LEMMA ReaderSideSample ==
    ASSUME RingInv, ReaderInv, ReaderSide
    PROVE  SampleOK'
<1>1. PICK n : n = nid'
  OBVIOUS
<1> SUFFICES ASSUME rpc' \in {"cWalk", "walk", "copy", "take"}, n # 0
             PROVE  Committed(n) \/ newest' = log[n].seq
  <2>1. Committed(n)' <=> Committed(n)
    BY ReaderSideFrame
  <2>2. log' = log
    BY ReaderSideFrame
  <2> QED
    BY <1>1, <2>1, <2>2 DEF SampleOK, Committed
<1>2. CASE ReadSeq
  <2>1. newest' = seq /\ n = Len(log)
    BY <1>1, <1>2 DEF ReadSeq
  <2> QED
    BY <2>1 DEF RingInv, CopyingNewest, Committed
<1>3. CASE ~ReadSeq
  <2>1. /\ rpc \in {"cWalk", "walk", "copy", "take"}
        /\ newest' = newest /\ nid' = nid
    BY <1>3, ReaderSideWalks
  <2> QED
    BY <1>1, <2>1 DEF ReaderInv, SampleOK, Committed
<1> QED
  BY <1>2, <1>3

\* A header the walk accepts, of a live record that was published when the
\* newest number was sampled, is the header of a complete record.
LEMMA MatchedComplete ==
    ASSUME RingInv, ReaderInv, Walkable(mem[off]),
           rpc \in {"cWalk", "walk"},
           NEW n, n = mem[off].id, n \in oldest .. nid
    PROVE  Committed(n) /\ off = Addr(n, 0)
<1>1. RingTypeOK /\ NumbersOK
  BY ReaderTypeParts DEF RingInv, ReaderInv
<1>2. n \in 1 .. Len(log) /\ mem[off].k = 0 /\ log[n].seq # newest
  BY <1>1, MatchedHeader
<1>3. nid \in 0 .. Len(log) /\ oldest \in Nat /\ Len(log) \in Nat /\ off \in Cells
  BY <1>1 DEF NumbersOK, RingTypeOK
<1>4. n \in Live
  BY <1>2, <1>3 DEF Live
<1>5. off = Addr(n, 0)
  BY <1>2, <1>3, <1>4 DEF RingInv, RingLayout, InPlace
<1>6. CASE n < nid
  BY <1>2, <1>3, <1>5, <1>6 DEF Committed
<1>7. CASE n = nid
  <2>1. nid # 0
    BY <1>2, <1>7
  <2>2. Committed(nid) \/ newest = log[nid].seq
    BY <2>1 DEF ReaderInv, SampleOK
  <2> QED
    BY <1>2, <1>5, <1>7, <2>2
<1> QED
  BY <1>2, <1>3, <1>6, <1>7

\* The next payload cell of a complete live record is where the copy looks.
LEMMA NextCell ==
    ASSUME RingInv, NEW n \in Live, Committed(n), off = Addr(n, 0),
           NEW j \in Nat, j < log[n].len
    PROVE  mem[Wrap(off + 1 + j)] = [id |-> n, k |-> j + 1]
<1>1. RingTypeOK /\ RingLayout
  BY DEF RingInv
<1>2. n \in 1 .. Len(log)
  BY <1>1, LiveRange
<1>3. /\ log[n].at \in Nat /\ log[n].len \in Nat /\ Size(log[n]) = 1 + log[n].len
  BY <1>1, <1>2, RecordOf
<1>4. /\ vtail \in Nat /\ valid \in Nat /\ valid <= DATA_SZ /\ tail \in Nat
      /\ tail < DATA_SZ
  BY <1>1, Sizes DEF RingTypeOK, Cells
<1>5. vtail <= log[n].at /\ log[n].at + Size(log[n]) <= vtail + valid
  BY <1>1 DEF RingLayout, Contiguous
<1> DEFINE x == log[n].at - vtail
<1>6. x \in Nat /\ x + 1 + log[n].len <= DATA_SZ
  BY <1>3, <1>4, <1>5, Sizes
<1>7. off = Wrap(tail + x + 0) /\ Addr(n, j + 1) = Wrap(tail + x + (j + 1))
  BY DEF Addr
<1>8. j + 1 \in 0 .. log[n].len /\ mem[Addr(n, j + 1)] = [id |-> n, k |-> j + 1]
  BY <1>1, <1>3 DEF RingLayout, InPlace
<1> HIDE DEF x
<1>9. x + 1 + j < DATA_SZ
  BY <1>3, <1>6, Sizes
<1>10. Wrap(off + 1 + j) = Wrap(tail + x + (j + 1))
  BY <1>4, <1>6, <1>7, <1>9, Sizes DEF Wrap
<1> QED
  BY <1>7, <1>8, <1>10

LEMMA ReaderSideMatch ==
    ASSUME RingInv, ReaderInv, ReaderSide
    PROVE  MatchOK'
<1>1. PICK n : n = rid'
  OBVIOUS
<1> SUFFICES ASSUME rpc' \in {"copy", "take"}, n \in oldest .. nid'
             PROVE  Committed(n) /\ off' = Addr(n, 0) /\ PayloadSoFar'
  <2>1. /\ Committed(n)' <=> Committed(n)
        /\ Addr(n, 0)' = Addr(n, 0)
        /\ oldest' = oldest
    BY ReaderSideFrame
  <2> QED
    BY <1>1, <2>1 DEF MatchOK, Committed, Addr
<1>2. RingTypeOK /\ NumbersOK /\ HeldOK
  BY ReaderTypeParts DEF RingInv, ReaderInv
<1>3. CASE WalkMatch
  <2>1. /\ n = mem[off].id /\ nid' = nid /\ off' = off /\ payload' = <<>>
        /\ rpc = "walk" /\ Walkable(mem[off])
    BY <1>1, <1>3 DEF WalkMatch
  <2>2. Committed(n) /\ off = Addr(n, 0)
    BY <2>1, MatchedComplete
  <2>3. PayloadSoFar'
    BY <2>1 DEF PayloadSoFar
  <2> QED
    BY <2>1, <2>2, <2>3
<1>4. CASE CopyOut
  <2>1. /\ rpc = "copy" /\ rid' = rid /\ off' = off /\ nid' = nid
        /\ payload' = Append(payload, mem[Wrap(off + 1 + Len(payload))])
    BY <1>4 DEF CopyOut, walk
  <2>2. Committed(n) /\ off = Addr(n, 0) /\ PayloadSoFar
    BY <1>1, <2>1 DEF ReaderInv, MatchOK
  <2>3. n \in Live
    BY <1>2, <2>1 DEF Live, NumbersOK, RingTypeOK
  <2>4. Len(payload) \in Nat /\ Len(payload) < log[n].len
    BY <1>1, <1>2, <2>1 DEF NumbersOK, HeldOK
  <2>5. mem[Wrap(off + 1 + Len(payload))] = [id |-> n, k |-> Len(payload) + 1]
    BY <2>2, <2>3, <2>4, NextCell
  <2>6. PayloadSoFar'
    <3>1. payload \in Seq([id : Nat, k : Nat])
      BY <1>2 DEF NumbersOK
    <3> QED
      BY <1>1, <2>1, <2>2, <2>5, <3>1 DEF PayloadSoFar
  <2> QED
    BY <2>1, <2>2, <2>6
<1>5. CASE Term
  BY <1>1, <1>5 DEF Term, walk, match, ReaderInv, MatchOK, PayloadSoFar
<1>6. CASE (ReaderStep /\ ~WalkMatch /\ ~CopyOut) \/ Start \/ Kill
  <2>1. rpc' \notin {"copy", "take"}
    BY <1>6, Zenon
    DEF ReaderStep, Start, Kill, ReadValid, ReadSeq, ClaimWalk, ClaimWalkEnd,
        ClaimSeed, ClaimFilter, Poll, WalkSkip, WalkJump, WalkEnd, Take,
        NoneForUs, WatchQuiet, WatchAnchor, WatchGiveUp, Emit, Stop, Release,
        Rest
  <2> QED
    BY <2>1
<1> QED
  BY <1>3, <1>4, <1>5, <1>6 DEF ReaderSide
-----------------------------------------------------------------------------
(***************************************************************************)
(* The theorems                                                            *)
(***************************************************************************)
LEMMA Stutter ==
    ASSUME IInv, UNCHANGED vars
    PROVE  IInv'
<1>1. RingInv /\ ReaderInv
  BY IInvParts
<1>2. UNCHANGED <<mem, valid, tail, seq, pending, cursor, filter, wpc, wrec, wk,
                  eras, log, oldest, vtail>>
  BY DEF vars, shared, slot, writer, past
<1>3. UNCHANGED reader
  BY DEF vars
<1>4. UNCHANGED <<rpc, off, left, newest, nid, rat, misread, best, rid, payload,
                  got, slot_cursor, last_valid, last_emit, stall_anchors,
                  stop_flag, starts, fed, base, join>>
  BY <1>3 DEF reader, walk, match, watchdog
<1>5. RingInv'
  <2>1. /\ pending \in BOOLEAN /\ cursor \in 0 .. SeqMod - 1
        /\ filter \in {"none", "hires", "audio"} /\ eras \in Nat
    BY <1>1 DEF RingInv, RingTypeOK
  <2>2. UNCHANGED <<ringVars, seq>>
    BY <1>2 DEF ringVars, past
  <2>3. /\ pending' \in BOOLEAN /\ cursor' \in 0 .. SeqMod - 1
        /\ filter' \in {"none", "hires", "audio"} /\ eras' \in Nat
    BY <1>2, <2>1
  <2> QED
    BY <1>1, <2>2, <2>3, RingFrame
<1>6. ReaderTypeOK'
  BY <1>1, <1>2, <1>4 DEF ReaderInv, ReaderTypeOK
<1>7. SampleOK'
  BY <1>1, <1>2, <1>4 DEF ReaderInv, SampleOK, Committed
<1>8. MatchOK'
  BY <1>1, <1>2, <1>4 DEF ReaderInv, MatchOK, Committed, Addr, PayloadSoFar
<1> QED
  BY <1>5, <1>6, <1>7, <1>8 DEF IInv, TypeOK, RingInv

LEMMA IInvNext ==
    ASSUME IInv, Next
    PROVE  IInv'
<1>1. RingInv /\ ReaderInv
  BY IInvParts
<1>2. CASE WriterAction
  <2>1. RingInv'
    BY <1>1, <1>2, WriterInv DEF WriterAction
  <2>2. ReaderInv'
    BY <1>1, <1>2, WriterKeepsReader
  <2> QED
    BY <2>1, <2>2
    DEF IInv, TypeOK, RingInv, ReaderInv
<1>3. CASE ReaderSide
  <2>1. RingInv'
    BY <1>1, <1>3, ReaderSideRing
  <2>2. ReaderTypeOK' /\ SampleOK' /\ MatchOK'
    BY <1>1, <1>3, ReaderSideType, ReaderSideSample, ReaderSideMatch
    DEF RingInv, ReaderInv
  <2> QED
    BY <2>1, <2>2 DEF IInv, TypeOK, RingInv
<1> QED
  BY <1>2, <1>3 DEF Next, ReaderSide

\* The inductive invariant holds in every reachable state.
THEOREM InductiveInvariant == Spec => []IInv
<1>1. IInv /\ [Next]_vars => IInv'
  BY IInvNext, Stutter
<1> QED
  BY <1>1, IInvInit, PTL DEF Spec

\* Every variable keeps its type, and every index of a record or of a cell
\* that the writer or the reader uses is one of the ring.
THEOREM TypeCorrect == Spec => []TypeOK
<1>1. IInv => TypeOK
  BY DEF IInv
<1> QED
  BY <1>1, InductiveInvariant, PTL

\* fshare_write keeps the live records end to end, and no copy of a new
\* record overwrites a byte of a live one, for every ring size, wrap-around
\* included.
THEOREM RingStaysWellFormed == Spec => []RingLayout
<1>1. IInv => RingLayout
  BY DEF IInv
<1> QED
  BY <1>1, InductiveInvariant, PTL

\* The lock-free read: a record reader_loop takes is complete and unmixed
\* unless the writer lapped the reader, however their loads and stores
\* interleave.
THEOREM TakenRecordsAreIntact == Spec => []TakenIntact
<1>1. IInv => TakenIntact
  <2> SUFFICES ASSUME IInv, rpc = "take", rid \in oldest .. nid
               PROVE  PayloadWhole
    BY DEF TakenIntact
  <2>1. Len(payload) = log[rid].len
    BY DEF IInv, TypeOK, ReaderTypeOK
  <2>2. PayloadSoFar
    BY DEF IInv, MatchOK
  <2> QED
    BY <2>1, <2>2 DEF PayloadWhole
<1> QED
  BY <1>1, InductiveInvariant, PTL
-----------------------------------------------------------------------------
(***************************************************************************)
(* The addresses of all records, given up ones included, and the walk:     *)
(* nothing wanted is passed over                                           *)
(***************************************************************************)

\* The address just past record n, the end of what is published with it.
End(n) == IF n = 0 THEN 0 ELSE log[n].at + Size(log[n])

\* Records are numbered from 1 on and lie one after the other.
LogOrder ==
    /\ \A n \in 1 .. Len(log) : log[n].seq >= 1
    /\ vtail + valid = End(Len(log))
    /\ \A m, n \in 1 .. Len(log) : m < n => End(m) <= log[n].at

\* What the walk may still read was published when newest was sampled.
WalkReach ==
    /\ rpc = "rValid" => rat <= vtail /\ base = slot_cursor
    /\ rpc = "rSeq" => /\ left >= 0 /\ rat + left <= End(Len(log))
                       /\ base = slot_cursor
    /\ rpc = "walk" => left >= 0 /\ rat + left <= End(nid)

\* The walk behind it, the live records contain nothing wanted.
WalkedOver ==
    rpc \in {"rValid", "rSeq", "walk"} /\ ~misread =>
        \A n \in Live : log[n].at < rat => ~EntryWanted(base, log[n])

\* After a jump the record at the walk's address, if its header is still to
\* be read there, is the one jumped to, or the newest, which ends the walk.
JumpAgain ==
    rpc = "walk" /\ ~misread /\ left > 0 /\ slot_cursor # base =>
        \A n \in 1 .. Len(log) : log[n].at = rat =>
            \/ mem[off] # [id |-> n, k |-> 0] /\ (Committed(n) \/ wk > 0)
            \/ n = nid /\ newest = log[n].seq
            \/ Class(log[n].type) = Mine /\ slot_cursor = Sub(log[n].seq, 1)

\* What was taken is the first record wanted.
MatchFirst ==
    rpc \in {"copy", "take"} /\ ~misread =>
        \A n \in oldest .. rid - 1 : ~EntryWanted(base, log[n])

PassInv == LogOrder /\ WalkReach /\ WalkedOver /\ JumpAgain /\ MatchFirst

LEMMA PassInvInit == Init => PassInv
BY DEF Init, RingInit, ReaderInit, PassInv, LogOrder, WalkReach, WalkedOver,
       JumpAgain, MatchFirst, End

LEMMA EndType ==
    ASSUME RingTypeOK, NEW n \in 0 .. Len(log)
    PROVE  End(n) \in Nat /\ (n # 0 => log[n].at < End(n))
<1>1. CASE n = 0
  BY <1>1 DEF End
<1>2. CASE n # 0
  <2>1. n \in 1 .. Len(log)
    BY <1>2 DEF RingTypeOK
  <2> QED
    BY <1>2, <2>1, RecordOf DEF End
<1> QED
  BY <1>1, <1>2

\* A writer's step keeps the address of every record.
LEMMA WriterKeepsEnd ==
    ASSUME RingInv, WriterNext, NEW n \in 0 .. Len(log)
    PROVE  End(n)' = End(n)
<1>1. n # 0 => log'[n] = log[n]
  <2>1. n # 0 => n \in 1 .. Len(log)
    BY DEF RingInv, RingTypeOK
  <2> QED
    BY <2>1, WriterMonotone
<1> QED
  BY <1>1 DEF End, Size

LEMMA WriterKeepsOrder ==
    ASSUME RingInv, LogOrder, WriterNext
    PROVE  LogOrder'
<1>1. RingTypeOK /\ Len(log) \in Nat
  BY DEF RingInv, RingTypeOK
<1>2. \A n \in 0 .. Len(log) : End(n)' = End(n)
  BY WriterKeepsEnd
<1>3. CASE Publish
  <2>0. PICK L : L = Len(log)
    OBVIOUS
  <2>1. /\ Len(log') = L + 1
        /\ \A n \in 1 .. L : log'[n] = log[n]
        /\ log'[L + 1].at = vtail + valid
        /\ log'[L + 1].len = wrec.len /\ log'[L + 1].seq = SeqInc(seq)
    BY <1>1, <1>3, <2>0, PublishAppends DEF Publish
  <2>2. vtail' = vtail /\ valid' = valid + Size(wrec)
    BY <1>3 DEF Publish
  <2>3. vtail \in Nat /\ valid \in Nat /\ wrec.len \in Nat /\ seq \in Nat
    BY <1>1, LensBound, Sizes DEF RingTypeOK
  <2>4. SeqInc(seq) >= 1
    BY <2>3 DEF SeqInc
  <2>5. End(L + 1)' = vtail' + valid'
    <3>1. L + 1 # 0 /\ Size(wrec) = 1 + wrec.len
      BY <1>1, <2>0 DEF Size
    <3>2. End(L + 1)' = log'[L + 1].at + (1 + log'[L + 1].len)
      BY <3>1 DEF End, Size
    <3> QED
      BY <2>1, <2>2, <2>3, <3>1, <3>2
  <2>6. \A n \in 1 .. Len(log)' : log'[n].seq >= 1
    BY <1>1, <2>0, <2>1, <2>4 DEF LogOrder
  <2>7. ASSUME NEW m \in 1 .. Len(log)', NEW n \in 1 .. Len(log)', m < n
        PROVE  End(m)' <= log'[n].at
    <3>1. m \in 1 .. L /\ m \in 0 .. L /\ End(m)' = End(m)
      BY <1>1, <1>2, <2>0, <2>1, <2>7
    <3>2. CASE n \in 1 .. L
      BY <2>0, <2>1, <2>7, <3>1, <3>2 DEF LogOrder
    <3>3. CASE n = L + 1
      <4>1. End(m) <= End(L)
        <5>1. CASE m = L
          <6>1. End(m) \in Nat
            BY <1>1, <2>0, <3>1, EndType
          <6> QED
            BY <5>1, <6>1
        <5>2. CASE m < L
          <6>1. L \in 1 .. L /\ L \in 0 .. L /\ L # 0
            BY <1>1, <2>0, <3>1
          <6>2. log[L].at < End(L) /\ log[L].at \in Nat
            BY <1>1, <2>0, <6>1, EndType, RecordOf
          <6>3. End(m) <= log[L].at
            BY <2>0, <3>1, <5>2, <6>1 DEF LogOrder
          <6>4. End(m) \in Nat /\ End(L) \in Nat
            BY <1>1, <2>0, <3>1, <6>1, EndType
          <6> QED
            BY <6>2, <6>3, <6>4
        <5> QED
          BY <1>1, <2>0, <3>1, <5>1, <5>2
      <4> QED
        BY <2>0, <2>1, <3>1, <3>3, <4>1 DEF LogOrder
    <3> QED
      BY <1>1, <2>0, <2>1, <3>2, <3>3
  <2> QED
    BY <2>0, <2>1, <2>5, <2>6, <2>7 DEF LogOrder
<1>4. CASE ~Publish
  <2>1. log' = log /\ vtail' + valid' = vtail + valid
    <3>1. CASE PopTail
      <4>1. oldest \in 1 .. Len(log)
        BY <1>1, <3>1, LiveRange DEF PopTail
      <4>2. Size(log[oldest]) \in Nat /\ vtail \in Nat /\ valid \in Nat
        BY <1>1, <4>1, RecordOf, Sizes DEF RingTypeOK
      <4>3. /\ log' = log /\ valid' = valid - Size(log[oldest])
            /\ vtail' = vtail + Size(log[oldest])
        BY <3>1 DEF PopTail
      <4> QED
        BY <4>2, <4>3
    <3>2. CASE ~PopTail
      BY <1>4, <3>2
      DEF WriterNext, WriteStep, BeginWrite, CopyIn, Notify, EraReset, past,
          shared
    <3> QED
      BY <3>1, <3>2
  <2> QED
    BY <2>1 DEF LogOrder, End, Size
<1> QED
  BY <1>3, <1>4

\* Records published later end later.
LEMMA EndsAscend ==
    ASSUME RingTypeOK, LogOrder,
           NEW m \in 0 .. Len(log), NEW n \in 0 .. Len(log), m <= n
    PROVE  End(m) <= End(n)
<1>0. Len(log) \in Nat /\ End(m) \in Nat /\ End(n) \in Nat
  BY EndType DEF RingTypeOK
<1>1. CASE m = n
  BY <1>0, <1>1
<1>2. CASE m = 0
  BY <1>0, <1>2 DEF End
<1>3. CASE m # 0 /\ m < n
  <2>1. m \in 1 .. Len(log) /\ n \in 1 .. Len(log) /\ n # 0
    BY <1>0, <1>3
  <2>2. End(m) <= log[n].at
    BY <1>3, <2>1 DEF LogOrder
  <2>3. log[n].at < End(n) /\ log[n].at \in Nat
    BY <2>1, EndType, RecordOf
  <2> QED
    BY <1>0, <2>2, <2>3
<1> QED
  BY <1>1, <1>2, <1>3

\* Where the walk is has been published.
LEMMA WalkBehind ==
    ASSUME RingTypeOK, ReaderTypeOK, LogOrder, WalkReach,
           rpc \in {"rValid", "rSeq", "walk"}
    PROVE  /\ rat <= vtail + valid
           /\ rpc = "walk" => rat + left <= vtail + valid
<1>1. /\ Len(log) \in Nat /\ nid \in 0 .. Len(log) /\ left \in Int /\ rat \in Nat
      /\ vtail \in Nat /\ valid \in Nat
  BY Sizes DEF RingTypeOK, ReaderTypeOK
<1>2. End(nid) \in Nat /\ End(nid) <= End(Len(log))
  <2>1. nid \in 0 .. Len(log) /\ Len(log) \in 0 .. Len(log) /\ nid <= Len(log)
    BY <1>1
  <2> QED
    BY <2>1, EndsAscend, EndType
<1>3. End(Len(log)) = vtail + valid
  BY DEF LogOrder
<1> QED
  BY <1>1, <1>2, <1>3 DEF WalkReach

\* The writer's edges only move forward.
LEMMA WriterEdges ==
    ASSUME RingInv, WriterNext
    PROVE  /\ vtail \in Nat /\ vtail' \in Nat /\ vtail <= vtail'
           /\ valid \in Nat /\ valid' \in Nat
           /\ vtail + valid <= vtail' + valid'
           /\ \A n \in 1 .. Len(log)' :
                n \notin 1 .. Len(log) => log'[n].at = vtail + valid
<1>1. RingTypeOK /\ Len(log) \in Nat
  BY DEF RingInv, RingTypeOK
<1>2. vtail \in Nat /\ valid \in Nat
  BY <1>1, Sizes DEF RingTypeOK
<1>3. vtail' \in Nat /\ valid' \in Nat
  <2>1. RingTypeOK'
    BY WriterInv DEF RingInv
  <2> QED
    BY <2>1, Sizes DEF RingTypeOK
<1>4. CASE PopTail
  <2>1. oldest \in 1 .. Len(log)
    BY <1>1, <1>4, LiveRange DEF PopTail
  <2>2. Size(log[oldest]) \in Nat
    BY <1>1, <2>1, RecordOf
  <2>3. /\ log' = log /\ valid' = valid - Size(log[oldest])
        /\ vtail' = vtail + Size(log[oldest])
    BY <1>4 DEF PopTail
  <2> QED
    BY <1>2, <1>3, <2>2, <2>3
<1>5. CASE Publish
  <2>1. /\ Len(log') = Len(log) + 1
        /\ log'[Len(log')].at = vtail + valid
    BY <1>1, <1>5, PublishAppends
  <2>2. wrec.len \in Nat
    BY <1>1, LensBound DEF RingTypeOK
  <2>3. vtail' = vtail /\ valid' = valid + (1 + wrec.len)
    BY <1>5 DEF Publish, Size
  <2> QED
    BY <1>1, <1>2, <1>3, <2>1, <2>2, <2>3
<1>6. CASE BeginWrite \/ CopyIn \/ Notify \/ EraReset
  <2>1. log' = log /\ vtail' = vtail /\ valid' = valid
    BY <1>6 DEF BeginWrite, CopyIn, Notify, EraReset, past, shared
  <2> QED
    BY <1>2, <2>1
<1> QED
  BY <1>4, <1>5, <1>6 DEF WriterNext, WriteStep

\* A header that has been copied in and is gone does not come back.
LEMMA HeaderGone ==
    ASSUME RingInv, WriterNext, NEW n \in 1 .. Len(log),
           mem[off] # [id |-> n, k |-> 0], Committed(n) \/ wk > 0, off' = off
    PROVE  mem'[off'] # [id |-> n, k |-> 0] /\ (Committed(n)' \/ wk' > 0)
<1>1. RingTypeOK /\ Len(log) \in Nat /\ wk \in Nat
  BY DEF RingInv, RingTypeOK
<1>2. CASE CopyIn
  <2>1. /\ wpc = "copy" /\ log' = log
        /\ mem' = [mem EXCEPT ![Addr(Len(log), wk)] = [id |-> Len(log), k |-> wk]]
        /\ wk' = wk + 1
    BY <1>2 DEF CopyIn, past
  <2>2. mem'[off] # [id |-> n, k |-> 0]
    <3>1. CASE mem'[off] = mem[off]
      BY <3>1
    <3>2. CASE mem'[off] = [id |-> Len(log), k |-> wk]
      BY <1>1, <2>1, <3>2 DEF Committed
    <3>3. mem'[off] = mem[off] \/ mem'[off] = [id |-> Len(log), k |-> wk]
      <4>1. mem \in [Cells -> Cell]
        BY <1>1 DEF RingTypeOK
      <4>2. CASE off \in Cells
        BY <2>1, <4>1, <4>2
      <4>3. CASE off \notin Cells
        BY <2>1, <4>1, <4>3
      <4> QED
        BY <4>2, <4>3
    <3> QED
      BY <3>1, <3>2, <3>3
  <2> QED
    BY <1>1, <2>1, <2>2
<1>3. CASE ~CopyIn
  <2>1. mem' = mem
    BY <1>3 DEF WriterNext, WriteStep, BeginWrite, PopTail, Publish, Notify,
                EraReset, shared
  <2>2. Committed(n)' \/ wk' > 0
    <3>1. CASE Committed(n)
      BY <3>1, WriterMonotone
    <3>2. CASE ~Committed(n)
      BY <1>3, <3>2
      DEF WriterNext, WriteStep, BeginWrite, PopTail, Publish, Notify,
          EraReset, Committed
    <3> QED
      BY <3>1, <3>2
  <2> QED
    BY <2>1, <2>2
<1> QED
  BY <1>2, <1>3

LEMMA WriterKeepsPass ==
    ASSUME RingInv, ReaderInv, PassInv, WriterAction
    PROVE  PassInv'
<1>1. WriterNext /\ UNCHANGED reader
  BY DEF WriterAction
<1>2. UNCHANGED <<rpc, off, left, newest, nid, rat, misread, rid, slot_cursor,
                  base>>
  BY <1>1 DEF reader, walk, match
<1>3. /\ Len(log) \in Nat /\ Len(log') \in Nat /\ Len(log) <= Len(log')
      /\ oldest \in Nat /\ oldest' \in Nat /\ oldest <= oldest'
      /\ \A n \in 1 .. Len(log) :
           log'[n] = log[n] /\ (n \in Live' => n \in Live)
  BY <1>1, WriterMonotone
<1>4. /\ vtail \in Nat /\ vtail' \in Nat /\ vtail <= vtail'
      /\ valid \in Nat /\ valid' \in Nat
      /\ vtail + valid <= vtail' + valid'
      /\ \A n \in 1 .. Len(log)' :
           n \notin 1 .. Len(log) => log'[n].at = vtail + valid
  BY <1>1, WriterEdges
<1>5. RingTypeOK /\ ReaderTypeOK /\ LogOrder
  BY DEF RingInv, ReaderInv, PassInv
<1>6. left \in Int /\ rat \in Nat /\ nid \in 0 .. Len(log) /\ rid \in 0 .. Len(log)
  BY <1>5 DEF ReaderTypeOK
<1>7. LogOrder'
  BY <1>1, <1>5, WriterKeepsOrder
<1>8. /\ rpc \in {"rValid", "rSeq", "walk"} => rat <= vtail + valid
      /\ rpc = "walk" => rat + left <= vtail + valid
  BY <1>5, WalkBehind DEF PassInv
<1>9. WalkReach'
  <2>1. End(nid)' = End(nid)
    <3>1. PICK m \in 0 .. Len(log) : m = nid
      BY <1>6
    <3>2. End(m)' = End(m)
      BY <1>1, WriterKeepsEnd
    <3> QED
      BY <1>2, <3>1, <3>2 DEF End
  <2>2. rpc = "rValid" => rat <= vtail /\ base = slot_cursor
    BY DEF PassInv, WalkReach
  <2>3. rpc = "rSeq" => /\ left >= 0 /\ rat + left <= vtail + valid
                        /\ base = slot_cursor
    BY <1>5 DEF PassInv, WalkReach, LogOrder
  <2>4. rpc = "walk" => left >= 0 /\ rat + left <= End(nid)
    BY DEF PassInv, WalkReach
  <2>5. End(Len(log))' = vtail' + valid'
    BY <1>7 DEF LogOrder
  <2>6. rpc' = "rValid" => rat' <= vtail' /\ base' = slot_cursor'
    BY <1>2, <1>4, <1>6, <2>2
  <2>7. rpc' = "rSeq" => /\ left' >= 0 /\ rat' + left' <= End(Len(log))'
                         /\ base' = slot_cursor'
    <3>1. PICK v, w : v = vtail' /\ w = valid'
      OBVIOUS
    <3>2. v \in Nat /\ w \in Nat /\ vtail + valid <= v + w
      BY <1>4, <3>1
    <3>3. rpc = "rSeq" => left >= 0 /\ rat + left <= v + w /\ base = slot_cursor
      BY <1>4, <1>6, <2>3, <3>2
    <3> QED
      BY <1>2, <2>5, <3>1, <3>3
  <2>8. rpc' = "walk" => left' >= 0 /\ rat' + left' <= End(nid)'
    BY <1>2, <2>1, <2>4
  <2> QED
    BY <2>6, <2>7, <2>8 DEF WalkReach
<1>10. WalkedOver'
  <2> SUFFICES ASSUME rpc \in {"rValid", "rSeq", "walk"}, ~misread,
                      NEW n \in Live', log'[n].at < rat
               PROVE  ~EntryWanted(base, log'[n])
    BY <1>2 DEF WalkedOver
  <2>1. n \in 1 .. Len(log)'
    <3>1. oldest' \in Nat \ {0}
      <4>1. RingTypeOK'
        BY <1>1, WriterInv DEF RingInv
      <4> QED
        BY <4>1 DEF RingTypeOK
    <3> QED
      BY <1>3, <3>1 DEF Live
  <2>2. n \in 1 .. Len(log)
    <3>1. n \notin 1 .. Len(log) => log'[n].at = vtail + valid
      BY <1>4, <2>1
    <3>2. rat <= vtail + valid
      BY <1>8
    <3>3. vtail \in Nat /\ valid \in Nat
      BY <1>4
    <3> QED
      BY <1>6, <3>1, <3>2, <3>3
  <2>3. n \in Live /\ log'[n] = log[n]
    BY <1>3, <2>2
  <2> QED
    BY <2>3 DEF PassInv, WalkedOver
<1>11. JumpAgain'
  <2>1. PICK o : o = off
    OBVIOUS
  <2> SUFFICES ASSUME rpc = "walk", ~misread, left > 0, slot_cursor # base,
                      NEW n \in 1 .. Len(log)', log'[n].at = rat
               PROVE  \/ mem'[o] # [id |-> n, k |-> 0]
                         /\ (Committed(n)' \/ wk' > 0)
                      \/ n = nid /\ newest = log'[n].seq
                      \/ /\ Class(log'[n].type) = Mine
                         /\ slot_cursor = Sub(log'[n].seq, 1)
    BY <1>2, <2>1 DEF JumpAgain, Committed
  <2>2. n \in 1 .. Len(log)
    <3>1. n \notin 1 .. Len(log) => log'[n].at = vtail + valid
      BY <1>4
    <3>2. rat + left <= vtail + valid
      BY <1>8
    <3>3. vtail \in Nat /\ valid \in Nat
      BY <1>4
    <3> QED
      BY <1>6, <3>1, <3>2, <3>3
  <2>3. log'[n] = log[n]
    BY <1>3, <2>2
  <2>4. \/ mem[off] # [id |-> n, k |-> 0] /\ (Committed(n) \/ wk > 0)
        \/ n = nid /\ newest = log[n].seq
        \/ Class(log[n].type) = Mine /\ slot_cursor = Sub(log[n].seq, 1)
    BY <2>2, <2>3 DEF PassInv, JumpAgain
  <2>5. CASE mem[off] # [id |-> n, k |-> 0] /\ (Committed(n) \/ wk > 0)
    BY <1>1, <1>2, <2>1, <2>2, <2>5, HeaderGone
  <2> QED
    BY <2>3, <2>4, <2>5
<1>12. MatchFirst'
  <2> SUFFICES ASSUME rpc \in {"copy", "take"}, ~misread,
                      NEW n \in oldest' .. rid - 1
               PROVE  ~EntryWanted(base, log'[n])
    BY <1>2 DEF MatchFirst
  <2>1. n \in oldest .. rid - 1 /\ n \in 1 .. Len(log)
    BY <1>3, <1>5, <1>6 DEF RingTypeOK
  <2> QED
    BY <1>3, <2>1 DEF PassInv, MatchFirst
<1> QED
  BY <1>7, <1>9, <1>10, <1>11, <1>12 DEF PassInv

\* A cursor just before a record wants that record.
LEMMA JustBefore ==
    ASSUME NEW s \in 1 .. SeqMod - 1
    PROVE  /\ Sub(s, 1) = s - 1
           /\ s - 1 = 0 \/ Sub(s, SeqInc(s - 1)) <= (SeqMod \div 2) - 2
<1>1. SeqMod \in Nat /\ SeqMod > 4 /\ s \in Nat /\ s < SeqMod /\ s >= 1
  BY Sizes
<1>2. (s - 1) % SeqMod = s - 1 /\ 0 % SeqMod = 0
  BY <1>1
<1>3. SeqInc(s - 1) = s
  BY <1>1 DEF SeqInc
<1>4. Sub(s, SeqInc(s - 1)) = 0
  <2>1. s - s = 0
    BY <1>1
  <2> QED
    BY <1>2, <1>3, <2>1 DEF Sub
<1>5. (SeqMod \div 2) - 2 >= 0
  BY <1>1
<1> QED
  BY <1>2, <1>4, <1>5 DEF Sub

\* At the record the walk has reached, the cursor is the one the round
\* began with, or wants the record: what a jump passes over stays passed
\* over, and what it jumps to is taken.
LEMMA AtTheWalk ==
    ASSUME RingInv, ReaderInv, PassInv, rpc = "walk", Walkable(mem[off]),
           ~misread, log[mem[off].id].at = rat
    PROVE  slot_cursor = base \/ EntryWanted(slot_cursor, log[mem[off].id])
<1>1. RingTypeOK /\ NumbersOK
  BY ReaderTypeParts DEF RingInv, ReaderInv
<1>2. PICK n : n = mem[off].id
  OBVIOUS
<1>3. /\ n \in 1 .. Len(log) /\ mem[off].k = 0
      /\ log[n].seq # newest /\ log[n].seq \in 0 .. SeqMod - 1
  BY <1>1, <1>2, MatchedHeader
<1>4. mem[off] = [id |-> n, k |-> 0]
  <2>1. mem[off] \in Cell
    BY <1>1 DEF RingTypeOK, NumbersOK
  <2> QED
    BY <1>2, <1>3, <2>1 DEF Cell
<1>5. left > 0
  BY <1>1 DEF Walkable, NumbersOK
<1>6. CASE slot_cursor # base
  <2>1. Class(log[n].type) = Mine /\ slot_cursor = Sub(log[n].seq, 1)
    BY <1>2, <1>3, <1>4, <1>5, <1>6 DEF PassInv, JumpAgain
  <2>2. log[n].seq >= 1
    BY <1>3 DEF PassInv, LogOrder
  <2>3. log[n].seq \in 1 .. SeqMod - 1
    BY <1>3, <2>2, Sizes
  <2>4. /\ Sub(log[n].seq, 1) = log[n].seq - 1
        /\ log[n].seq - 1 = 0
             \/ Sub(log[n].seq, SeqInc(log[n].seq - 1)) <= (SeqMod \div 2) - 2
    BY <2>3, JustBefore
  <2> QED
    BY <1>2, <2>1, <2>4 DEF EntryWanted
<1> QED
  BY <1>6

LEMMA SkipKeepsPass ==
    ASSUME RingInv, ReaderInv, PassInv, WalkSkip
    PROVE  WalkReach' /\ WalkedOver' /\ JumpAgain'
<1>1. RingTypeOK /\ NumbersOK /\ LogOrder
  BY ReaderTypeParts DEF RingInv, ReaderInv, PassInv
<1>2. PICK n : n = mem[off].id
  OBVIOUS
<1>3. /\ rpc = "walk" /\ Walkable(mem[off]) /\ rpc' = "walk"
      /\ ~EntryWanted(slot_cursor, log[n])
      /\ UNCHANGED <<mem, valid, tail, seq, log, oldest, vtail, wpc, wk, newest,
                     nid, base, slot_cursor>>
      /\ left' = left - Size(log[n]) /\ rat' = rat + Size(log[n])
      /\ misread' = (misread \/ log[n].at # rat)
  BY <1>2 DEF WalkSkip, Advance, Misread, shared, past, writer
<1>4. n \in 1 .. Len(log) /\ Size(log[n]) <= left
  BY <1>1, <1>2, <1>3, MatchedHeader DEF Walkable
<1>5. Size(log[n]) \in Nat /\ left \in Int /\ rat \in Nat /\ nid \in 0 .. Len(log)
  <2>1. Size(log[n]) = 1 + log[n].len /\ log[n].len \in Nat
    BY <1>1, <1>4, RecordOf
  <2>2. Size(log[n]) \in Nat
    BY <2>1
  <2> QED
    BY <1>1, <2>2 DEF NumbersOK
<1>6. WalkReach'
  <2>1. left >= 0 /\ rat + left <= End(nid)
    BY <1>3 DEF PassInv, WalkReach
  <2>2. End(nid) \in Nat /\ End(nid)' = End(nid)
    BY <1>1, <1>3, <1>5, EndType DEF End, Size
  <2>3. left' >= 0 /\ rat' + left' <= End(nid)
    BY <1>3, <1>4, <1>5, <2>1, <2>2
  <2> QED
    BY <1>3, <2>2, <2>3 DEF WalkReach
<1>7. ASSUME ~misread'
      PROVE  slot_cursor = base /\ log[n].at = rat /\ ~misread
  BY <1>2, <1>3, <1>7, AtTheWalk
<1>8. JumpAgain'
  BY <1>3, <1>7 DEF JumpAgain
<1>9. WalkedOver'
  <2> SUFFICES ASSUME ~misread', NEW m \in Live, log[m].at < rat + Size(log[n])
               PROVE  ~EntryWanted(base, log[m])
    BY <1>3 DEF WalkedOver, Live
  <2>1. m \in 1 .. Len(log) /\ log[m].at \in Nat /\ End(m) \in Nat
        /\ log[m].at < End(m)
    <3>1. m \in 1 .. Len(log)
      BY <1>1, LiveRange
    <3>2. m \in 0 .. Len(log) /\ m # 0
      BY <1>1, <3>1 DEF RingTypeOK
    <3> QED
      BY <1>1, <3>1, <3>2, RecordOf, EndType
  <2>2. CASE m = n
    BY <1>3, <1>7, <2>2
  <2>3. CASE m < n
    <3>1. End(m) <= log[n].at
      BY <1>1, <1>4, <2>1, <2>3 DEF LogOrder
    <3>2. log[m].at < rat
      BY <1>5, <1>7, <2>1, <3>1
    <3> QED
      BY <1>3, <1>7, <3>2 DEF PassInv, WalkedOver
  <2>4. CASE m > n
    <3>1. End(n) <= log[m].at
      BY <1>1, <1>4, <2>1, <2>4 DEF LogOrder
    <3>2. End(n) = rat + Size(log[n])
      BY <1>4, <1>7 DEF End
    <3> QED
      BY <1>5, <2>1, <3>1, <3>2
  <2> QED
    BY <1>4, <2>1, <2>2, <2>3, <2>4
<1> QED
  BY <1>6, <1>8, <1>9

LEMMA JumpKeepsPass ==
    ASSUME RingInv, ReaderInv, PassInv, WalkJump
    PROVE  WalkReach' /\ WalkedOver' /\ JumpAgain'
<1>1. RingTypeOK /\ NumbersOK /\ LogOrder
  BY ReaderTypeParts DEF RingInv, ReaderInv, PassInv
<1>2. PICK m : m = mem[off].id
  OBVIOUS
<1>3. /\ rpc = "walk" /\ Walkable(mem[off]) /\ rpc' = "walk"
      /\ EntryWanted(slot_cursor, log[m])
      /\ slot_cursor' = Sub(log[m].seq, 1)
      /\ UNCHANGED <<mem, valid, tail, seq, log, oldest, vtail, wpc, wk, off,
                     left, rat, misread, newest, nid, base>>
  BY <1>2 DEF WalkJump, walk, shared, past, writer
<1>4. m \in 1 .. Len(log) /\ mem[off].k = 0
  BY <1>1, <1>2, <1>3, MatchedHeader
<1>5. WalkReach' /\ WalkedOver'
  BY <1>3 DEF PassInv, WalkReach, WalkedOver, Live, End, Size
<1>6. JumpAgain'
  <2> SUFFICES ASSUME ~misread, left > 0, NEW n \in 1 .. Len(log),
                      log[n].at = rat
               PROVE  \/ /\ mem[off] # [id |-> n, k |-> 0]
                         /\ Committed(n) \/ wk > 0
                      \/ n = nid /\ newest = log[n].seq
                      \/ /\ Class(log[n].type) = Mine
                         /\ slot_cursor' = Sub(log[n].seq, 1)
    BY <1>3 DEF JumpAgain, Committed
  <2>1. CASE n = m
    BY <1>3, <2>1 DEF EntryWanted
  <2>2. CASE n # m
    <3>1. mem[off] # [id |-> n, k |-> 0]
      BY <1>2, <2>2
    <3>2. CASE Committed(n)
      BY <3>1, <3>2
    <3>3. CASE ~Committed(n)
      <4>1. n = Len(log) /\ Len(log) \in Nat /\ nid \in 0 .. Len(log)
            /\ left \in Int /\ rat \in Nat
        BY <1>1, <3>3 DEF Committed, RingTypeOK, NumbersOK
      <4>2. rat + left <= End(nid)
        BY <1>3 DEF PassInv, WalkReach
      <4>3. nid = n
        <5> SUFFICES ASSUME nid # n
                     PROVE  FALSE
          OBVIOUS
        <5>1. End(nid) <= rat
          <6>1. CASE nid = 0
            BY <4>1, <6>1 DEF End
          <6>2. CASE nid # 0
            <7>1. nid \in 1 .. Len(log) /\ nid < n
              BY <4>1, <6>2
            <7> QED
              BY <1>1, <7>1 DEF LogOrder
          <6> QED
            BY <6>1, <6>2
        <5>2. End(nid) \in Nat
          BY <1>1, <4>1, EndType
        <5> QED
          BY <4>1, <4>2, <5>1, <5>2
      <4>4. newest = log[n].seq
        <5>1. nid # 0
          BY <4>3
        <5> QED
          BY <1>3, <3>3, <4>3, <5>1 DEF ReaderInv, SampleOK
      <4> QED
        BY <4>3, <4>4
    <3> QED
      BY <3>2, <3>3
  <2> QED
    BY <2>1, <2>2
<1> QED
  BY <1>5, <1>6

LEMMA MatchKeepsPass ==
    ASSUME RingInv, ReaderInv, PassInv, WalkMatch
    PROVE  MatchFirst'
<1>1. RingTypeOK /\ NumbersOK /\ LogOrder
  BY ReaderTypeParts DEF RingInv, ReaderInv, PassInv
<1>2. PICK n : n = mem[off].id
  OBVIOUS
<1>3. /\ rpc = "walk" /\ Walkable(mem[off]) /\ rid' = n
      /\ misread' = (misread \/ log[n].at # rat)
      /\ log' = log /\ oldest' = oldest /\ base' = base
  BY <1>2 DEF WalkMatch, Misread, past
<1>4. n \in 1 .. Len(log)
  BY <1>1, <1>2, <1>3, MatchedHeader
<1> SUFFICES ASSUME ~misread', NEW m \in oldest .. n - 1
             PROVE  ~EntryWanted(base, log[m])
  BY <1>3 DEF MatchFirst
<1>5. m \in Live /\ m \in 1 .. Len(log) /\ m < n
  BY <1>1, <1>4 DEF Live, RingTypeOK
<1>6. End(m) <= log[n].at
  BY <1>1, <1>4, <1>5 DEF LogOrder
<1>7. log[m].at < End(m) /\ End(m) \in Nat /\ log[m].at \in Nat
  <2>1. m \in 0 .. Len(log) /\ m # 0
    BY <1>1, <1>5 DEF RingTypeOK
  <2> QED
    BY <1>1, <1>5, <2>1, RecordOf, EndType
<1>8. ~misread /\ log[n].at = rat
  BY <1>3, Zenon
<1>9. log[m].at < rat
  <2>1. rat \in Nat
    BY <1>1 DEF NumbersOK
  <2> QED
    BY <1>6, <1>7, <1>8, <2>1
<1> QED
  BY <1>3, <1>5, <1>8, <1>9 DEF PassInv, WalkedOver

LEMMA ReaderKeepsPass ==
    ASSUME RingInv, ReaderInv, PassInv, ReaderSide
    PROVE  PassInv'
<1> USE DEF walk, match
<1>1. RingTypeOK /\ NumbersOK /\ LogOrder
  BY ReaderTypeParts DEF RingInv, ReaderInv, PassInv
<1>2. UNCHANGED <<mem, valid, tail, seq, wpc, wrec, wk, eras, log, oldest,
                  vtail>>
  BY ReaderSideShared
<1>3. LogOrder'
  BY <1>1, <1>2 DEF LogOrder, End, Size
<1>4. CASE Poll \/ ReadValid \/ ReadSeq
  <2>1. MatchFirst' /\ JumpAgain'
    <3>1. CASE rpc' # "walk"
      BY <1>4, <3>1 DEF Poll, ReadValid, ReadSeq, MatchFirst, JumpAgain
    <3>2. CASE rpc' = "walk"
      <4>1. ReadSeq /\ rpc = "rSeq"
        BY <1>4, <3>2 DEF Poll, ReadValid, ReadSeq
      <4>2. base' = slot_cursor'
        BY <4>1 DEF ReadSeq, PassInv, WalkReach
      <4> QED
        BY <3>2, <4>2 DEF MatchFirst, JumpAgain
    <3> QED
      BY <3>1, <3>2
  <2>2. CASE Poll
    <3>1. CASE pending
      <4>1. rpc' = "rValid" /\ rat' = vtail /\ base' = slot_cursor'
        BY <2>2, <3>1 DEF Poll
      <4>2. ASSUME NEW n \in Live
            PROVE  ~(log[n].at < vtail)
        <5>1. vtail <= log[n].at
          BY DEF RingInv, RingLayout, Contiguous
        <5>2. n \in 1 .. Len(log)
          BY <1>1, LiveRange
        <5>3. log[n].at \in Nat /\ vtail \in Nat
          BY <1>1, <5>2, RecordOf DEF RingTypeOK
        <5> QED
          BY <5>1, <5>3
      <4>3. vtail \in Nat
        BY <1>1 DEF RingTypeOK
      <4> QED
        BY <1>2, <1>3, <2>1, <4>1, <4>2, <4>3
        DEF PassInv, WalkReach, WalkedOver, Live
    <3>2. CASE ~pending
      BY <1>3, <2>1, <2>2, <3>2 DEF Poll, PassInv, WalkReach, WalkedOver
    <3> QED
      BY <3>1, <3>2
  <2>3. CASE ReadValid
    <3>1. CASE rpc = "rValid"
      <4>1. /\ rpc' = "rSeq" /\ left' = valid /\ rat' = rat /\ base' = base
            /\ slot_cursor' = slot_cursor /\ misread' = misread
        BY <2>3, <3>1 DEF ReadValid
      <4>2. rat <= vtail /\ base = slot_cursor /\ vtail + valid = End(Len(log))
        BY <3>1 DEF PassInv, WalkReach, LogOrder
      <4>3. rat \in Nat /\ valid \in Nat /\ vtail \in Nat
        BY <1>1, Sizes DEF RingTypeOK, NumbersOK
      <4>4. left' >= 0 /\ rat' + left' <= End(Len(log))
        BY <4>1, <4>2, <4>3
      <4>5. End(Len(log))' = End(Len(log))
        BY <1>2 DEF End, Size
      <4>6. WalkReach'
        BY <4>1, <4>2, <4>4, <4>5 DEF WalkReach
      <4>7. WalkedOver'
        BY <1>2, <3>1, <4>1 DEF PassInv, WalkedOver, Live
      <4> QED
        BY <1>3, <2>1, <4>6, <4>7 DEF PassInv
    <3>2. CASE rpc # "rValid"
      BY <1>3, <2>1, <2>3, <3>2 DEF ReadValid, PassInv, WalkReach, WalkedOver
    <3> QED
      BY <3>1, <3>2
  <2>4. CASE ReadSeq
    <3>1. CASE rpc = "rSeq"
      <4>1. /\ rpc' = "walk" /\ left' = left /\ rat' = rat /\ base' = base
            /\ misread' = misread /\ nid' = Len(log)
        BY <2>4, <3>1 DEF ReadSeq
      <4>2. left >= 0 /\ rat + left <= End(Len(log))
        BY <3>1 DEF PassInv, WalkReach
      <4>3. End(nid)' = End(Len(log))
        BY <1>2, <4>1 DEF End, Size
      <4>4. WalkReach'
        BY <4>1, <4>2, <4>3 DEF WalkReach
      <4>5. WalkedOver'
        BY <1>2, <3>1, <4>1 DEF PassInv, WalkedOver, Live
      <4> QED
        BY <1>3, <2>1, <4>4, <4>5 DEF PassInv
    <3>2. CASE rpc # "rSeq"
      BY <1>3, <2>1, <2>4, <3>2 DEF ReadSeq, PassInv, WalkReach, WalkedOver
    <3> QED
      BY <3>1, <3>2
  <2> QED
    BY <1>4, <2>2, <2>3, <2>4
<1>5. CASE WalkSkip \/ WalkJump
  <2>1. WalkReach' /\ WalkedOver' /\ JumpAgain'
    BY <1>5, SkipKeepsPass, JumpKeepsPass
  <2>2. MatchFirst'
    BY <1>5 DEF WalkSkip, WalkJump, MatchFirst
  <2> QED
    BY <1>3, <2>1, <2>2 DEF PassInv
<1>6. CASE WalkMatch
  <2>1. MatchFirst'
    BY <1>6, MatchKeepsPass
  <2> QED
    BY <1>3, <1>6, <2>1 DEF WalkMatch, PassInv, WalkReach, WalkedOver, JumpAgain
<1>7. CASE CopyOut
  <2>1. /\ rpc = "copy" /\ rpc' \in {"copy", "take"} /\ rid' = rid
        /\ base' = base /\ misread' = misread
    BY <1>7 DEF CopyOut
  <2>2. MatchFirst'
    BY <1>2, <2>1 DEF PassInv, MatchFirst
  <2> QED
    BY <1>3, <2>1, <2>2 DEF PassInv, WalkReach, WalkedOver, JumpAgain
<1>8. CASE Term
  <2>1. UNCHANGED <<rpc, off, left, newest, nid, rat, misread, rid, slot_cursor,
                    base>>
    BY <1>8 DEF Term
  <2>2. WalkReach' /\ WalkedOver'
    BY <1>2, <2>1 DEF PassInv, WalkReach, WalkedOver, Live, End, Size
  <2>3. JumpAgain' /\ MatchFirst'
    BY <1>2, <2>1 DEF PassInv, JumpAgain, MatchFirst, Committed
  <2> QED
    BY <1>3, <2>2, <2>3 DEF PassInv
<1>9. CASE ~(Poll \/ ReadValid \/ ReadSeq \/ WalkSkip \/ WalkJump \/ WalkMatch
             \/ CopyOut \/ Term)
  <2>1. rpc' \notin {"rValid", "rSeq", "walk", "copy", "take"}
    BY <1>9, Zenon
    DEF ReaderSide, ReaderStep, Start, Kill, ClaimWalk, ClaimWalkEnd,
        ClaimSeed, ClaimFilter, WalkEnd, Take, NoneForUs, WatchQuiet,
        WatchAnchor, WatchGiveUp, Emit, Stop, Release, Rest
  <2> QED
    BY <1>3, <2>1 DEF PassInv, WalkReach, WalkedOver, JumpAgain, MatchFirst
<1> QED
  BY <1>4, <1>5, <1>6, <1>7, <1>8, <1>9

LEMMA PassInvNext ==
    ASSUME IInv, PassInv, [Next]_vars
    PROVE  PassInv'
<1>1. RingInv /\ ReaderInv
  BY IInvParts
<1>2. CASE WriterAction
  BY <1>1, <1>2, WriterKeepsPass
<1>3. CASE ReaderSide
  BY <1>1, <1>3, ReaderKeepsPass
<1>4. CASE UNCHANGED vars
  <2>1. UNCHANGED <<mem, valid, vtail, oldest, log, wpc, wk, rpc, off, left,
                    newest, nid, rat, misread, rid, slot_cursor, base>>
    BY <1>4 DEF vars, shared, writer, past, reader, walk, match
  <2>2. LogOrder' /\ WalkReach' /\ WalkedOver'
    BY <2>1 DEF PassInv, LogOrder, WalkReach, WalkedOver, Live, End, Size
  <2>3. JumpAgain' /\ MatchFirst'
    BY <2>1 DEF PassInv, JumpAgain, MatchFirst, Committed
  <2> QED
    BY <2>2, <2>3 DEF PassInv
<1> QED
  BY <1>2, <1>3, <1>4 DEF Next, ReaderSide

\* The walk and what lies behind it, in every reachable state.
LEMMA PassesOver == Spec => [](IInv /\ PassInv)
<1>1. Init => IInv /\ PassInv
  BY IInvInit, PassInvInit
<1>2. IInv /\ PassInv /\ [Next]_vars => IInv' /\ PassInv'
  BY IInvNext, Stutter, PassInvNext
<1> QED
  BY <1>1, <1>2, PTL DEF Spec

\* reader_loop takes the oldest record it still wants: however the writer
\* runs between its loads, no wanted record that is still in the ring when
\* a record is taken lies before it, unless the walk was lapped and read
\* something else than the record it had reached.
THEOREM NothingPassedOverTheorem == Spec => []NothingPassedOver
<1>1. IInv /\ PassInv => NothingPassedOver
  BY DEF PassInv, MatchFirst, NothingPassedOver
<1> QED
  BY <1>1, PassesOver, PTL
-----------------------------------------------------------------------------
(***************************************************************************)
(* What is in every cell, and how far apart two numbers are: the history   *)
(* behind the refinement of the feed                                       *)
(***************************************************************************)

\* The counter is never restarted, and its range is more than two rings.
WideCounter == MaxEras = 0 /\ SeqMod > 2 * DATA_SZ

\* The address of the next cell the writer copies.
Frontier == IF wpc = "copy" THEN log[Len(log)].at + wk ELSE vtail + valid

\* The d-th cell from the tail holds what was last copied to it: a cell of
\* this lap behind the frontier, of the lap before past it.
CellPlaced(d) ==
    LET c == mem[Wrap(tail + d)] IN
      c.id # 0 => log[c.id].at + c.k = IF vtail + d < Frontier
                                         THEN vtail + d
                                         ELSE vtail + d - DATA_SZ

EveryCell == \A d \in Cells : CellPlaced(d)

\* Records are at least a cell apart.
Spaced == \A m, n \in 1 .. Len(log) : m <= n => log[m].at + (n - m) <= log[n].at

\* Numbers count records, with at most one wrap within the counter's range.
Counted == \A m, n \in 1 .. Len(log) : m <= n /\ n - m < SeqMod - 1 =>
               \/ log[n].seq = log[m].seq + (n - m)
               \/ log[n].seq = log[m].seq + (n - m) - (SeqMod - 1)

\* The counter is the newest record's number.
OneEra == eras = 0 /\ (Len(log) # 0 => seq = log[Len(log)].seq)

HistoryInv == LogOrder /\ EveryCell /\ Spaced /\ Counted /\ OneEra

LEMMA HistoryInit ==
    ASSUME Init
    PROVE  HistoryInv
<1>1. /\ mem = [a \in Cells |-> [id |-> 0, k |-> 0]]
      /\ tail = 0 /\ log = <<>> /\ eras = 0 /\ valid = 0 /\ vtail = 0
  BY DEF Init, RingInit
<1>2. Len(log) = 0
  BY <1>1
<1>3. EveryCell
  <2>1. \A d \in Cells : Wrap(0 + d) \in Cells
    BY Sizes DEF Wrap, Cells
  <2> QED
    BY <1>1, <2>1 DEF EveryCell, CellPlaced
<1>4. LogOrder
  BY <1>1, <1>2 DEF LogOrder, End
<1> QED
  BY <1>1, <1>2, <1>3, <1>4 DEF HistoryInv, Spaced, Counted, OneEra

\* The frontier lies in or at the end of the newest record.
LEMMA FrontierBounds ==
    ASSUME RingInv, LogOrder
    PROVE  /\ Frontier \in Nat /\ Frontier <= vtail + valid
           /\ valid <= DATA_SZ /\ vtail \in Nat /\ valid \in Nat
           /\ \A n \in 1 .. Len(log) : log[n].at <= Frontier
<1>1. /\ RingTypeOK /\ Len(log) \in Nat /\ vtail \in Nat /\ valid \in Nat
      /\ valid <= DATA_SZ /\ wk \in Nat
  BY Sizes DEF RingInv, RingTypeOK
<1>2. vtail + valid = End(Len(log))
  BY DEF LogOrder
<1>3. ASSUME NEW n \in 1 .. Len(log)
      PROVE  /\ log[n].at \in Nat /\ log[n].len \in Nat
             /\ End(n) = log[n].at + (1 + log[n].len)
             /\ n < Len(log) => End(n) <= log[Len(log)].at
  <2>1. Size(log[n]) = 1 + log[n].len /\ log[n].at \in Nat /\ log[n].len \in Nat
    BY <1>1, RecordOf
  <2>2. n # 0 /\ Len(log) \in 1 .. Len(log)
    BY <1>1
  <2> QED
    BY <2>1, <2>2 DEF End, LogOrder
<1>4. CASE wpc = "copy"
  <2>1. /\ Len(log) \in 1 .. Len(log) /\ log[Len(log)].len = wrec.len
        /\ wk <= wrec.len
    BY <1>1, <1>4, LiveRange DEF RingInv, CopyingNewest
  <2>2. PICK L : L = Len(log)
    OBVIOUS
  <2>3. /\ log[L].at \in Nat /\ log[L].len \in Nat
        /\ End(L) = log[L].at + (1 + log[L].len)
    BY <1>3, <2>1, <2>2
  <2>4. Frontier = log[L].at + wk
    BY <1>4, <2>2 DEF Frontier
  <2>5. Frontier \in Nat /\ Frontier <= vtail + valid /\ log[L].at <= Frontier
    BY <1>1, <1>2, <2>1, <2>2, <2>3, <2>4
  <2>6. ASSUME NEW n \in 1 .. Len(log)
        PROVE  log[n].at <= Frontier
    <3>1. CASE n = L
      BY <2>5, <3>1
    <3>2. CASE n < L
      <4>1. /\ log[n].at \in Nat /\ log[n].len \in Nat
            /\ log[n].at + (1 + log[n].len) <= log[L].at
        BY <1>3, <2>2, <3>2
      <4> QED
        BY <2>3, <2>5, <4>1
    <3> QED
      BY <1>1, <2>2, <3>1, <3>2
  <2> QED
    BY <1>1, <2>5, <2>6
<1>5. CASE wpc # "copy"
  <2>1. Frontier = vtail + valid
    BY <1>5 DEF Frontier
  <2>2. ASSUME NEW n \in 1 .. Len(log)
        PROVE  log[n].at <= Frontier
    <3>1. End(n) <= End(Len(log))
      <4>1. /\ n \in 0 .. Len(log) /\ Len(log) \in 0 .. Len(log)
            /\ n <= Len(log)
        BY <1>1
      <4> QED
        BY <1>1, <4>1, EndsAscend
    <3> QED
      BY <1>1, <1>2, <1>3, <2>1, <3>1
  <2> QED
    BY <1>1, <2>1, <2>2
<1> QED
  BY <1>4, <1>5

\* Cells counted from the tail, before and after it moves over n cells.
LEMMA WrapMove ==
    ASSUME NEW t \in Cells, NEW n \in 1 .. DATA_SZ, NEW d \in Cells
    PROVE  /\ d + n < DATA_SZ => /\ d + n \in Cells
                                 /\ Wrap(Wrap(t + n) + d) = Wrap(t + (d + n))
           /\ d + n >= DATA_SZ =>
                /\ d + n - DATA_SZ \in Cells
                /\ Wrap(Wrap(t + n) + d) = Wrap(t + (d + n - DATA_SZ))
BY Sizes DEF Wrap, Cells

\* Every cell is some distance from the tail.
LEMMA WrapOnto ==
    ASSUME NEW t \in Cells, NEW a \in Cells
    PROVE  \E d \in Cells : a = Wrap(t + d)
<1>1. CASE a >= t
  <2>1. a - t \in Cells /\ a = Wrap(t + (a - t))
    BY <1>1, Sizes DEF Wrap, Cells
  <2> QED
    BY <2>1
<1>2. CASE a < t
  <2>1. a - t + DATA_SZ \in Cells /\ a = Wrap(t + (a - t + DATA_SZ))
    BY <1>2, Sizes DEF Wrap, Cells
  <2> QED
    BY <2>1
<1> QED
  BY <1>1, <1>2, Sizes DEF Cells

LEMMA PopTailKeepsCells ==
    ASSUME RingInv, LogOrder, EveryCell, PopTail
    PROVE  EveryCell'
<1>1. RingTypeOK /\ RingLayout /\ tail \in Cells
  BY DEF RingInv, RingTypeOK
<1>2. PICK n : n = Size(log[oldest])
  OBVIOUS
<1>3. /\ tail' = Wrap(tail + n) /\ vtail' = vtail + n /\ valid' = valid - n
      /\ mem' = mem /\ log' = log /\ wpc' = wpc /\ wpc = "fit"
      /\ oldest \in Live
  BY <1>2 DEF PopTail, writer
<1>4. /\ vtail \in Nat /\ valid \in Nat /\ valid <= DATA_SZ
  BY <1>1, Sizes DEF RingTypeOK
<1>5. n \in Nat /\ n >= 1 /\ n <= valid
  <2>1. /\ log[oldest].at = vtail
        /\ log[oldest].at + n <= vtail + valid
    BY <1>1, <1>2, <1>3 DEF RingLayout, Contiguous
  <2>2. n = 1 + log[oldest].len /\ log[oldest].len \in Nat
    BY <1>1, <1>2, <1>3, LiveRange, RecordOf
  <2> QED
    BY <1>4, <2>1, <2>2
<1>6. Frontier = vtail + valid /\ Frontier' = vtail + valid
  <2>1. Frontier' = vtail' + valid'
    BY <1>3 DEF Frontier
  <2> QED
    BY <1>3, <1>4, <1>5, <2>1 DEF Frontier
<1>7. ASSUME NEW d \in Cells
      PROVE  CellPlaced(d)'
  <2>1. d \in Nat /\ d < DATA_SZ /\ n \in 1 .. DATA_SZ
    BY <1>4, <1>5, Sizes DEF Cells
  <2>2. PICK c : c = mem[Wrap(Wrap(tail + n) + d)]
    OBVIOUS
  <2> SUFFICES ASSUME c.id # 0
               PROVE  log[c.id].at + c.k = IF vtail + n + d < vtail + valid
                                             THEN vtail + n + d
                                             ELSE vtail + n + d - DATA_SZ
    BY <1>3, <1>6, <2>2 DEF CellPlaced
  <2>3. CASE d + n < DATA_SZ
    <3>1. d + n \in Cells /\ c = mem[Wrap(tail + (d + n))]
      BY <1>1, <2>1, <2>2, <2>3, WrapMove
    <3>2. CellPlaced(d + n)
      BY <3>1 DEF EveryCell
    <3>3. log[c.id].at + c.k = IF vtail + (d + n) < vtail + valid
                                 THEN vtail + (d + n)
                                 ELSE vtail + (d + n) - DATA_SZ
      BY <1>6, <3>1, <3>2 DEF CellPlaced
    <3> QED
      BY <1>4, <1>5, <2>1, <3>3, Sizes
  <2>4. CASE d + n >= DATA_SZ
    <3>1. /\ d + n - DATA_SZ \in Cells
          /\ c = mem[Wrap(tail + (d + n - DATA_SZ))]
      BY <1>1, <2>1, <2>2, <2>4, WrapMove
    <3>2. CellPlaced(d + n - DATA_SZ)
      BY <3>1 DEF EveryCell
    <3>3. log[c.id].at + c.k = IF vtail + (d + n - DATA_SZ) < vtail + valid
                                 THEN vtail + (d + n - DATA_SZ)
                                 ELSE vtail + (d + n - DATA_SZ) - DATA_SZ
      BY <1>6, <3>1, <3>2 DEF CellPlaced
    <3> QED
      BY <1>4, <1>5, <2>1, <2>4, <3>3, Sizes
  <2> QED
    BY <1>5, <2>1, <2>3, <2>4, Sizes
<1> QED
  BY <1>7 DEF EveryCell, Cells

\* Where the next cell is copied to: over the cell a lap behind it.
LEMMA CopyInAt ==
    ASSUME RingInv, LogOrder, CopyIn
    PROVE  \E x \in Cells :
             /\ Addr(Len(log), wk) = Wrap(tail + x) /\ Frontier = vtail + x
             /\ Frontier' = Frontier + 1
             /\ Len(log) \in 1 .. Len(log)
             /\ log[Len(log)].at + wk = Frontier
<1>1. /\ wpc = "copy" /\ log' = log /\ wk' = wk + 1 /\ vtail' = vtail
      /\ valid' = valid
      /\ wpc' = IF wk = wrec.len THEN "notify" ELSE "copy"
  BY DEF CopyIn, past
<1>2. PICK L : L = Len(log)
  OBVIOUS
<1>3. /\ L \in Live /\ log[L].len = wrec.len /\ wk <= wrec.len
      /\ wk \in Nat
  BY <1>1, <1>2 DEF RingInv, CopyingNewest, RingTypeOK
<1>4. RingTypeOK /\ L \in 1 .. Len(log)
  BY <1>3, LiveRange DEF RingInv
<1>5. log[L].at \in Nat /\ log[L].len \in Nat /\ Size(log[L]) = 1 + log[L].len
  BY <1>4, RecordOf
<1>6. /\ log[L].at - vtail \in Nat /\ (log[L].at - vtail) + wk \in Cells
      /\ Addr(L, wk) = Wrap(tail + ((log[L].at - vtail) + wk))
  <2>1. wk \in 0 .. log[L].len
    BY <1>3, <1>5
  <2> QED
    BY <1>3, <2>1, LiveCell
<1>7. vtail \in Nat /\ valid \in Nat /\ vtail + valid = log[L].at + (1 + log[L].len)
  <2>1. L # 0 /\ vtail + valid = End(L)
    BY <1>2, <1>4 DEF LogOrder
  <2> QED
    BY <1>4, <1>5, <2>1, Sizes DEF End, RingTypeOK
<1>8. Frontier = log[L].at + wk /\ Frontier' = log[L].at + (wk + 1)
  <2>1. Frontier = log[L].at + wk
    BY <1>1, <1>2 DEF Frontier
  <2>2. CASE wk = wrec.len
    <3>1. Frontier' = vtail + valid
      BY <1>1, <2>2 DEF Frontier
    <3> QED
      BY <1>3, <1>7, <2>1, <2>2, <3>1
  <2>3. CASE wk # wrec.len
    BY <1>1, <1>2, <2>1, <2>3 DEF Frontier
  <2> QED
    BY <2>2, <2>3
<1> DEFINE x == (log[L].at - vtail) + wk
<1>9. /\ x \in Cells /\ Addr(L, wk) = Wrap(tail + x)
      /\ Frontier = vtail + x /\ Frontier' = Frontier + 1
  BY <1>3, <1>5, <1>6, <1>7, <1>8
<1> QED
  BY <1>2, <1>4, <1>8, <1>9

LEMMA CopyInKeepsCells ==
    ASSUME RingInv, LogOrder, EveryCell, CopyIn
    PROVE  EveryCell'
<1>1. RingTypeOK /\ tail \in Cells /\ vtail \in Nat
  BY DEF RingInv, RingTypeOK
<1>2. PICK x \in Cells :
        /\ Addr(Len(log), wk) = Wrap(tail + x) /\ Frontier = vtail + x
        /\ Frontier' = Frontier + 1
        /\ Len(log) \in 1 .. Len(log)
        /\ log[Len(log)].at + wk = Frontier
  BY CopyInAt
<1>3. /\ mem' = [mem EXCEPT ![Wrap(tail + x)] = [id |-> Len(log), k |-> wk]]
      /\ log' = log /\ tail' = tail /\ vtail' = vtail
  BY <1>2 DEF CopyIn, past
<1>4. ASSUME NEW d \in Cells
      PROVE  CellPlaced(d)'
  <2>1. d \in Nat /\ x \in Nat /\ tail \in Nat
    BY <1>1, Sizes DEF Cells
  <2>2. mem \in [Cells -> Cell] /\ Wrap(tail + d) \in Cells
    BY <1>1, <2>1, WrapType, Sizes DEF RingTypeOK, Cells
  <2>3. PICK e : e = mem'[Wrap(tail + d)]
    OBVIOUS
  <2>4. PICK G : G = Frontier
    OBVIOUS
  <2> SUFFICES ASSUME e.id # 0
               PROVE  log[e.id].at + e.k = IF vtail + d < G + 1
                                             THEN vtail + d
                                             ELSE vtail + d - DATA_SZ
    BY <1>2, <1>3, <2>3, <2>4 DEF CellPlaced
  <2>5. CASE d = x
    <3>1. e = [id |-> Len(log), k |-> wk]
      BY <1>3, <2>2, <2>3, <2>5
    <3>2. log[e.id].at + e.k = G
      BY <1>2, <2>4, <3>1
    <3>3. G = vtail + d
      BY <1>2, <2>4, <2>5
    <3> QED
      BY <1>1, <2>1, <3>2, <3>3
  <2>6. CASE d # x
    <3>1. Wrap(tail + d) # Wrap(tail + x)
      BY <1>1, <2>6, WrapInjective
    <3>2. e = mem[Wrap(tail + d)]
      BY <1>3, <2>2, <2>3, <3>1
    <3>3. CellPlaced(d)
      BY DEF EveryCell
    <3>4. log[e.id].at + e.k = IF vtail + d < G
                                 THEN vtail + d ELSE vtail + d - DATA_SZ
      BY <2>4, <3>2, <3>3 DEF CellPlaced
    <3>5. G = vtail + x
      BY <1>2, <2>4
    <3> QED
      BY <1>1, <2>1, <2>6, <3>4, <3>5
  <2> QED
    BY <2>5, <2>6
<1> QED
  BY <1>4 DEF EveryCell, Cells

LEMMA WriterKeepsCells ==
    ASSUME RingInv, LogOrder, EveryCell, WriterNext
    PROVE  EveryCell'
<1>1. RingTypeOK /\ Len(log) \in Nat
  BY DEF RingInv, RingTypeOK
<1>2. CASE PopTail
  BY <1>2, PopTailKeepsCells
<1>3. CASE CopyIn
  BY <1>3, CopyInKeepsCells
<1>4. CASE Publish
  <2>1. /\ Len(log') = Len(log) + 1
        /\ \A n \in 1 .. Len(log) : log'[n] = log[n]
        /\ log'[Len(log')].at = vtail + valid
    BY <1>1, <1>4, PublishAppends
  <2>2. mem' = mem /\ tail' = tail /\ vtail' = vtail /\ wk' = 0
        /\ wpc = "fit" /\ wpc' = "copy"
    BY <1>4 DEF Publish
  <2>3. Frontier' = Frontier
    <3>1. vtail \in Nat /\ valid \in Nat
      BY <1>1, Sizes DEF RingTypeOK
    <3> QED
      BY <2>1, <2>2, <3>1 DEF Frontier
  <2>4. ASSUME NEW d \in Cells
        PROVE  CellPlaced(d)'
    <3>1. PICK c : c = mem[Wrap(tail + d)]
      OBVIOUS
    <3>2. c \in Cell
      <4>1. d \in Nat /\ d < DATA_SZ /\ tail \in Nat /\ tail < DATA_SZ
        BY <1>1, Sizes DEF RingTypeOK, Cells
      <4>2. Wrap(tail + d) \in Cells
        BY <4>1, WrapType, Sizes
      <4> QED
        BY <1>1, <3>1, <4>2 DEF RingTypeOK
    <3>3. c.id # 0 => log'[c.id] = log[c.id]
      BY <1>1, <2>1, <3>2 DEF Cell
    <3>4. CellPlaced(d)
      BY DEF EveryCell
    <3> QED
      BY <2>2, <2>3, <3>1, <3>3, <3>4 DEF CellPlaced
  <2> QED
    BY <2>4 DEF EveryCell, Cells
<1>5. CASE BeginWrite \/ Notify \/ EraReset
  <2>1. UNCHANGED <<mem, tail, vtail, valid, log>>
    BY <1>5 DEF BeginWrite, Notify, EraReset, shared, past
  <2>2. wpc # "copy" /\ wpc' # "copy"
    BY <1>5 DEF BeginWrite, Notify, EraReset
  <2>3. Frontier' = Frontier
    BY <2>1, <2>2 DEF Frontier
  <2> QED
    BY <2>1, <2>3 DEF EveryCell, CellPlaced, Cells
<1> QED
  BY <1>2, <1>3, <1>4, <1>5 DEF WriterNext, WriteStep

LEMMA WriterKeepsSpaced ==
    ASSUME RingInv, LogOrder, Spaced, WriterNext
    PROVE  Spaced'
<1>1. RingTypeOK /\ Len(log) \in Nat
  BY DEF RingInv, RingTypeOK
<1>2. CASE Publish
  <2>1. PICK L : L = Len(log)
    OBVIOUS
  <2>2. /\ Len(log') = L + 1
        /\ \A n \in 1 .. L : log'[n] = log[n]
        /\ log'[L + 1].at = vtail + valid
    BY <1>1, <1>2, <2>1, PublishAppends
  <2>3. /\ vtail + valid = End(L) /\ vtail \in Nat /\ valid \in Nat
    BY <1>1, <2>1, Sizes DEF LogOrder, RingTypeOK
  <2>4. ASSUME NEW m \in 1 .. L + 1, NEW n \in 1 .. L + 1, m <= n
        PROVE  log'[m].at + (n - m) <= log'[n].at
    <3>1. CASE n \in 1 .. L
      <4>1. m \in 1 .. L
        BY <1>1, <2>1, <2>4, <3>1
      <4>2. log[m].at + (n - m) <= log[n].at
        BY <2>1, <2>4, <3>1, <4>1 DEF Spaced
      <4> QED
        BY <2>2, <3>1, <4>1, <4>2
    <3>2. CASE n = L + 1 /\ m \in 1 .. L
      <4>1. L \in 1 .. L /\ L \in 0 .. L /\ L # 0 /\ m <= L
        BY <1>1, <2>1, <3>2
      <4>2. log[m].at + (L - m) <= log[L].at
        BY <2>1, <3>2, <4>1 DEF Spaced
      <4>3. log[L].at < End(L) /\ log[L].at \in Nat /\ log[m].at \in Nat
            /\ End(L) \in Nat
        BY <1>1, <2>1, <3>2, <4>1, EndType, RecordOf
      <4>4. log[m].at + (L + 1 - m) <= End(L)
        BY <1>1, <2>1, <3>2, <4>2, <4>3
      <4>5. log'[n].at = End(L) /\ log'[m] = log[m]
        BY <2>2, <2>3, <3>2
      <4>6. n - m = L + 1 - m
        BY <1>1, <2>1, <3>2
      <4> QED
        BY <4>4, <4>5, <4>6
    <3>3. CASE n = L + 1 /\ m = L + 1
      BY <1>1, <2>1, <2>2, <2>3, <3>3
    <3> QED
      BY <1>1, <2>1, <2>4, <3>1, <3>2, <3>3
  <2> QED
    BY <2>2, <2>4 DEF Spaced
<1>3. CASE ~Publish
  <2>1. log' = log
    BY <1>3 DEF WriterNext, WriteStep, BeginWrite, PopTail, CopyIn, Notify,
                EraReset, past
  <2> QED
    BY <2>1 DEF Spaced
<1> QED
  BY <1>2, <1>3

\* One more record, one more number: the arithmetic of the next lemma.
LEMMA CountOn ==
    ASSUME NEW s \in 1 .. SeqMod - 1, NEW q \in 1 .. SeqMod - 1, NEW d \in Nat,
           d + 1 < SeqMod - 1,
           s = q + d \/ s = q + d - (SeqMod - 1)
    PROVE  \/ SeqInc(s) = q + (d + 1)
           \/ SeqInc(s) = q + (d + 1) - (SeqMod - 1)
BY Sizes DEF SeqInc

LEMMA WriterKeepsCount ==
    ASSUME MaxEras = 0, RingInv, LogOrder, Counted, OneEra, WriterNext
    PROVE  Counted' /\ OneEra'
<1>1. RingTypeOK /\ Len(log) \in Nat /\ eras = 0
  BY DEF RingInv, RingTypeOK, OneEra
<1>2. CASE Publish
  <2>1. PICK L : L = Len(log)
    OBVIOUS
  <2>2. /\ Len(log') = L + 1
        /\ \A n \in 1 .. L : log'[n] = log[n]
        /\ log'[L + 1].seq = SeqInc(seq)
        /\ seq' = SeqInc(seq) /\ eras' = eras
    BY <1>1, <1>2, <2>1, PublishAppends DEF Publish
  <2>3. \A n \in 1 .. L : log[n].seq \in 1 .. SeqMod - 1
    <3> SUFFICES ASSUME NEW n \in 1 .. L
                 PROVE  log[n].seq \in 1 .. SeqMod - 1
      OBVIOUS
    <3>1. log[n].seq \in 0 .. SeqMod - 1
      BY <1>1, <2>1, RecordOf
    <3>2. log[n].seq >= 1
      BY <2>1 DEF LogOrder
    <3> QED
      BY <3>1, <3>2, Sizes
  <2>4. OneEra'
    BY <1>1, <2>2 DEF OneEra
  <2>5. ASSUME NEW m \in 1 .. L + 1, NEW n \in 1 .. L + 1, m <= n,
               n - m < SeqMod - 1
        PROVE  \/ log'[n].seq = log'[m].seq + (n - m)
               \/ log'[n].seq = log'[m].seq + (n - m) - (SeqMod - 1)
    <3>1. CASE n \in 1 .. L
      <4>1. m \in 1 .. L
        BY <1>1, <2>1, <2>5, <3>1
      <4> QED
        BY <2>1, <2>2, <2>5, <3>1, <4>1 DEF Counted
    <3>2. CASE n = L + 1 /\ m \in 1 .. L
      <4>1. /\ L \in 1 .. L /\ L # 0 /\ m <= L /\ L - m \in Nat
            /\ (L - m) + 1 < SeqMod - 1 /\ n - m = (L - m) + 1
        BY <1>1, <2>1, <2>5, <3>2, Sizes
      <4>2. \/ log[L].seq = log[m].seq + (L - m)
            \/ log[L].seq = log[m].seq + (L - m) - (SeqMod - 1)
        <5>1. L - m < SeqMod - 1
          BY <4>1, Sizes
        <5> QED
          BY <2>1, <3>2, <4>1, <5>1 DEF Counted
      <4>3. log[L].seq \in 1 .. SeqMod - 1 /\ log[m].seq \in 1 .. SeqMod - 1
        BY <2>3, <3>2, <4>1
      <4>4. \/ SeqInc(log[L].seq) = log[m].seq + ((L - m) + 1)
            \/ SeqInc(log[L].seq) = log[m].seq + ((L - m) + 1) - (SeqMod - 1)
        BY <4>1, <4>2, <4>3, CountOn
      <4>5. seq = log[L].seq
        BY <2>1, <4>1 DEF OneEra
      <4> QED
        BY <2>2, <3>2, <4>1, <4>4, <4>5
    <3>3. CASE n = L + 1 /\ m = L + 1
      <4>1. SeqInc(seq) \in Nat
        BY <1>1, SeqIncType, Sizes DEF RingTypeOK
      <4>2. n - m = 0
        BY <1>1, <2>1, <3>3
      <4> QED
        BY <2>2, <3>3, <4>1, <4>2
    <3> QED
      BY <1>1, <2>1, <2>5, <3>1, <3>2, <3>3
  <2>6. Counted'
    BY <2>2, <2>5 DEF Counted
  <2> QED
    BY <2>4, <2>6
<1>3. CASE EraReset
  <2>1. FALSE
    BY <1>1, <1>3 DEF EraReset
  <2> QED
    BY <2>1
<1>4. CASE BeginWrite \/ PopTail \/ CopyIn \/ Notify
  <2>1. log' = log /\ seq' = seq /\ eras' = eras
    BY <1>4 DEF BeginWrite, PopTail, CopyIn, Notify, past, shared, writer
  <2> QED
    BY <2>1 DEF Counted, OneEra
<1> QED
  BY <1>2, <1>3, <1>4 DEF WriterNext, WriteStep

LEMMA HistoryStep ==
    ASSUME MaxEras = 0, RingInv, HistoryInv,
           WriterNext \/ UNCHANGED <<mem, tail, vtail, valid, seq, log, wpc, wk,
                                     eras>>
    PROVE  HistoryInv'
<1>1. CASE WriterNext
  BY <1>1, WriterKeepsOrder, WriterKeepsCells, WriterKeepsSpaced,
     WriterKeepsCount
  DEF HistoryInv
<1>2. CASE UNCHANGED <<mem, tail, vtail, valid, seq, log, wpc, wk, eras>>
  <2>1. Frontier' = Frontier
    BY <1>2 DEF Frontier
  <2>2. EveryCell'
    BY <1>2, <2>1 DEF HistoryInv, EveryCell, CellPlaced
  <2>3. LogOrder'
    BY <1>2 DEF HistoryInv, LogOrder, End, Size
  <2> QED
    BY <1>2, <2>2, <2>3 DEF HistoryInv, Spaced, Counted, OneEra
<1> QED
  BY <1>1, <1>2

\* A header found in the ring is at most a lap old ...
LEMMA HeaderRecent ==
    ASSUME RingInv, HistoryInv, NEW a \in Cells, MagicOK(mem[a])
    PROVE  /\ mem[a].id \in 1 .. Len(log)
           /\ Len(log) - mem[a].id <= DATA_SZ
           /\ Frontier - DATA_SZ <= log[mem[a].id].at
<1>1. RingTypeOK /\ Len(log) \in Nat /\ tail \in Cells
  BY DEF RingInv, RingTypeOK
<1>2. PICK n : n = mem[a].id
  OBVIOUS
<1>3. n \in 1 .. Len(log) /\ mem[a].k = 0
  <2>1. mem[a] \in Cell
    BY <1>1 DEF RingTypeOK
  <2> QED
    BY <1>1, <1>2, <2>1 DEF MagicOK, Cell
<1>4. PICK d \in Cells : a = Wrap(tail + d)
  BY <1>1, WrapOnto
<1>5. log[n].at + 0 = IF vtail + d < Frontier
                        THEN vtail + d ELSE vtail + d - DATA_SZ
  BY <1>2, <1>3, <1>4 DEF HistoryInv, EveryCell, CellPlaced, MagicOK
<1>6. /\ Frontier \in Nat /\ Frontier <= vtail + valid
      /\ valid <= DATA_SZ /\ vtail \in Nat /\ valid \in Nat
      /\ \A m \in 1 .. Len(log) : log[m].at <= Frontier
  BY FrontierBounds DEF HistoryInv
<1>7. PICK F : F = Frontier
  OBVIOUS
<1>8. log[n].at \in Nat /\ d \in Nat
  BY <1>1, <1>3, RecordOf, Sizes DEF Cells
<1>9. F - DATA_SZ <= log[n].at
  <2>1. /\ F \in Nat /\ F <= vtail + valid /\ valid <= DATA_SZ
        /\ vtail \in Nat /\ valid \in Nat
    BY <1>6, <1>7, Zenon
  <2>2. CASE vtail + d < F
    <3>1. log[n].at + 0 = vtail + d
      BY <1>5, <1>7, <2>2, Zenon
    <3>2. log[n].at >= vtail
      BY <1>8, <2>1, <3>1
    <3> QED
      BY <1>8, <2>1, <3>2, Sizes
  <2>3. CASE ~(vtail + d < F)
    <3>1. log[n].at + 0 = vtail + d - DATA_SZ
      BY <1>5, <1>7, <2>3, Zenon
    <3> QED
      BY <1>8, <2>1, <2>3, <3>1, Sizes
  <2> QED
    BY <2>2, <2>3
<1>10. Len(log) - n <= DATA_SZ
  <2>1. PICK L : L = Len(log)
    OBVIOUS
  <2>2. L \in 1 .. Len(log) /\ n <= L
    BY <1>1, <1>3, <2>1
  <2>3. log[n].at + (L - n) <= log[L].at
    BY <1>3, <2>2 DEF HistoryInv, Spaced
  <2>4. log[L].at <= F /\ log[L].at \in Nat
    BY <1>1, <1>6, <1>7, <2>2, RecordOf
  <2> QED
    BY <1>1, <1>3, <1>6, <1>7, <1>8, <1>9, <2>1, <2>2, <2>3, <2>4, Sizes
<1> QED
  BY <1>2, <1>3, <1>7, <1>9, <1>10

\* ... and of two records less than a lap apart the older one is not wanted
\* by a cursor at, or just before, the newer one.
LEMMA SubNegative ==
    ASSUME NEW x \in Int, -SeqMod <= x, x < SeqMod
    PROVE  x % SeqMod = IF x < 0 THEN x + SeqMod ELSE x
BY Sizes

LEMMA BehindCursor ==
    ASSUME NEW c \in 1 .. SeqMod - 1, NEW s \in 1 .. SeqMod - 1,
           NEW d \in 0 .. DATA_SZ, SeqMod > 2 * DATA_SZ,
           c = s + d \/ c = s + d - (SeqMod - 1)
    PROVE  Sub(s, SeqInc(c)) > (SeqMod \div 2) - 2
<1>1. SeqMod \in Nat /\ SeqMod > 4 /\ d \in Nat /\ DATA_SZ \in Nat
  BY Sizes
<1>2. SeqMod - d > SeqMod \div 2
  BY <1>1
<1>3. CASE c = SeqMod - 1
  <2>1. SeqInc(c) = 1 /\ s - 1 = SeqMod - 2 - d
    BY <1>1, <1>3 DEF SeqInc
  <2>2. (s - 1) % SeqMod = s - 1
    BY <1>1
  <2> QED
    BY <1>1, <1>2, <2>1, <2>2 DEF Sub
<1>4. CASE c # SeqMod - 1
  <2>1. SeqInc(c) = c + 1
    BY <1>4 DEF SeqInc
  <2>2. \/ s - (c + 1) = -d - 1
        \/ s - (c + 1) = SeqMod - 2 - d
    BY <1>1
  <2>3. (s - (c + 1)) % SeqMod
          = IF s - (c + 1) < 0 THEN s - (c + 1) + SeqMod ELSE s - (c + 1)
    <3>1. s - (c + 1) \in Int /\ -SeqMod <= s - (c + 1) /\ s - (c + 1) < SeqMod
      BY <1>1
    <3> QED
      BY <3>1, SubNegative
  <2> QED
    BY <1>1, <1>2, <2>1, <2>2, <2>3 DEF Sub
<1> QED
  BY <1>3, <1>4

LEMMA OlderUnwanted ==
    ASSUME WideCounter, RingTypeOK, LogOrder, Counted,
           NEW m \in 1 .. Len(log), NEW n \in 1 .. Len(log),
           n <= m, m - n <= DATA_SZ
    PROVE  /\ log[m].seq # 0 /\ ~EntryWanted(log[m].seq, log[n])
           /\ n < m /\ Sub(log[m].seq, 1) # 0
                => ~EntryWanted(Sub(log[m].seq, 1), log[n])
<1>0. /\ SeqMod \in Nat /\ SeqMod > 4 /\ DATA_SZ \in Nat /\ DATA_SZ > 0
      /\ SeqMod > 2 * DATA_SZ
  BY Sizes DEF WideCounter
<1>1. \A i \in 1 .. Len(log) : log[i].seq \in 1 .. SeqMod - 1
  <2> SUFFICES ASSUME NEW i \in 1 .. Len(log)
               PROVE  log[i].seq \in 1 .. SeqMod - 1
    OBVIOUS
  <2>1. log[i].seq \in 0 .. SeqMod - 1 /\ log[i].seq >= 1
    BY RecordOf DEF LogOrder
  <2> QED
    BY <2>1, Sizes
<1>2. PICK c \in 1 .. SeqMod - 1 : c = log[m].seq
  BY <1>1
<1>3. PICK s \in 1 .. SeqMod - 1 : s = log[n].seq
  BY <1>1
<1>4. PICK d : d = m - n
  OBVIOUS
<1>5. d \in 0 .. DATA_SZ /\ (n < m <=> d > 0)
  BY <1>0, <1>4 DEF RingTypeOK
<1>6. c = s + d \/ c = s + d - (SeqMod - 1)
  <2>1. m - n < SeqMod - 1
    BY <1>0, <1>4, <1>5
  <2> QED
    BY <1>2, <1>3, <1>4, <2>1 DEF Counted
<1>7. ~EntryWanted(c, log[n])
  <2>1. Sub(s, SeqInc(c)) > (SeqMod \div 2) - 2
    BY <1>0, <1>5, <1>6, BehindCursor
  <2>2. Sub(s, SeqInc(c)) \in 0 .. SeqMod - 1
    <3>1. c \in 0 .. SeqMod - 1
      BY <1>0
    <3>2. SeqInc(c) \in Int /\ s \in Int
      BY <1>0, <3>1, SeqIncType
    <3> QED
      BY <3>2, SubType
  <2>3. ~(Sub(s, SeqInc(c)) <= (SeqMod \div 2) - 2) /\ c # 0
    BY <1>0, <2>1, <2>2
  <2> QED
    BY <1>3, <2>3 DEF EntryWanted
<1>8. ASSUME n < m, Sub(c, 1) # 0
      PROVE  ~EntryWanted(Sub(c, 1), log[n])
  <2>1. Sub(c, 1) = c - 1
    BY JustBefore
  <2>2. c - 1 \in 1 .. SeqMod - 1 /\ d - 1 \in 0 .. DATA_SZ
    BY <1>0, <1>5, <1>8, <2>1
  <2>3. c - 1 = s + (d - 1) \/ c - 1 = s + (d - 1) - (SeqMod - 1)
    BY <1>0, <1>5, <1>6
  <2>4. PICK b \in 1 .. SeqMod - 1 : b = c - 1
    BY <2>2
  <2>5. PICK e \in 0 .. DATA_SZ : e = d - 1
    BY <2>2
  <2>6. Sub(s, SeqInc(b)) > (SeqMod \div 2) - 2
    BY <1>0, <2>3, <2>4, <2>5, BehindCursor
  <2>7. Sub(s, SeqInc(b)) \in 0 .. SeqMod - 1
    <3>1. b \in 0 .. SeqMod - 1
      BY <1>0
    <3>2. SeqInc(b) \in Int /\ s \in Int
      BY <1>0, <3>1, SeqIncType
    <3> QED
      BY <3>2, SubType
  <2>8. ~(Sub(s, SeqInc(b)) <= (SeqMod \div 2) - 2) /\ b # 0
    BY <1>0, <2>6, <2>7
  <2> QED
    BY <1>3, <2>1, <2>4, <2>8 DEF EntryWanted
<1> QED
  BY <1>0, <1>2, <1>7, <1>8
-----------------------------------------------------------------------------
(***************************************************************************)
(* The reader never goes back                                              *)
(***************************************************************************)

\* The last record given to the client, or about to be.
LastFed == IF got THEN rid ELSE IF fed = <<>> THEN 0 ELSE fed[Len(fed)]

\* The cursor wants none of the records given that can still be read.
Behind ==
    Running /\ slot_cursor # 0 /\ rpc \notin {"copy", "take"} =>
        \A n \in 1 .. LastFed :
            Len(log) - n <= DATA_SZ => ~EntryWanted(slot_cursor, log[n])

\* A cursor of 0 wants everything.  It is set by a jump to number 1, and
\* either that record is still under the walk or its cell, and with it
\* every older one, has been overwritten.
Afresh ==
    Running /\ slot_cursor = 0 /\ rpc \notin {"copy", "take"} /\ LastFed # 0 =>
        \/ /\ rpc = "walk" /\ Walkable(mem[off])
           /\ mem[off].id > LastFed /\ Class(log[mem[off].id].type) = Mine
        \/ Frontier > log[LastFed].at + DATA_SZ

FedOrder ==
    /\ LastFed \in 0 .. Len(log)
    /\ \A i \in 1 .. Len(fed) : fed[i] <= fed[Len(fed)]
    /\ got => /\ rpc \in {"watch", "emit"}
              /\ \A i \in 1 .. Len(fed) : fed[i] < rid
    /\ rpc = "emit" => got
    /\ got \/ rpc \in {"copy", "take"} =>
         rid # 0 /\ Class(log[rid].type) = Mine
    /\ rpc \in {"copy", "take"} => rid > LastFed
    /\ rpc \in {"cValid", "cSeq", "cWalk", "cSeed", "cFilter"} => fed = <<>>

\* The sample of the newest number is later than what was given.
SampledLate ==
    rpc \in {"walk", "none"} =>
        LastFed <= nid /\ (nid # 0 => newest = log[nid].seq)

RunInv == Behind /\ Afresh /\ FedOrder /\ SampledLate

LEMMA RunInit ==
    ASSUME Init
    PROVE  RunInv
<1>1. rpc = "off" /\ fed = <<>> /\ got = FALSE /\ log = <<>>
  BY DEF Init, RingInit, ReaderInit
<1>2. LastFed = 0 /\ Len(fed) = 0 /\ Len(log) = 0
  BY <1>1 DEF LastFed
<1> QED
  BY <1>1, <1>2 DEF RunInv, Behind, Afresh, FedOrder, SampledLate, Running

\* A header the walk wants is newer than everything given.
LEMMA WantedIsNewer ==
    ASSUME RingInv, NumbersOK, HistoryInv, RunInv, rpc = "walk",
           Walkable(mem[off]), EntryWanted(slot_cursor, log[mem[off].id])
    PROVE  mem[off].id > LastFed /\ LastFed \in Nat
<1>1. PICK m : m = mem[off].id
  OBVIOUS
<1>2. PICK l : l = LastFed
  OBVIOUS
<1>3. /\ m \in 1 .. Len(log) /\ Len(log) - m <= DATA_SZ
      /\ Frontier - DATA_SZ <= log[m].at
  BY <1>1, HeaderRecent DEF NumbersOK, Walkable
<1>4. l \in 0 .. Len(log) /\ Len(log) \in Nat /\ Running /\ RingTypeOK
  BY <1>2 DEF RunInv, FedOrder, RingInv, RingTypeOK, Running
<1>5. CASE slot_cursor # 0
  <2>1. m \notin 1 .. l
    BY <1>1, <1>2, <1>3, <1>4, <1>5 DEF RunInv, Behind
  <2> QED
    BY <1>1, <1>2, <1>3, <1>4, <2>1
<1>6. CASE slot_cursor = 0 /\ l = 0
  BY <1>1, <1>2, <1>3, <1>6
<1>7. CASE slot_cursor = 0 /\ l # 0
  <2>1. CASE m > l
    BY <1>1, <1>2, <1>4, <2>1
  <2>2. CASE Frontier > log[l].at + DATA_SZ /\ m <= l
    <3>1. l \in 1 .. Len(log)
      BY <1>4, <1>7
    <3>2. log[m].at + (l - m) <= log[l].at
      BY <1>3, <2>2, <3>1 DEF HistoryInv, Spaced
    <3>3. log[m].at \in Nat /\ log[l].at \in Nat /\ Frontier \in Nat
      BY <1>3, <1>4, <3>1, RecordOf, FrontierBounds DEF HistoryInv
    <3> QED
      <4>1. PICK F \in Nat : F = Frontier
        BY <3>3
      <4>2. F - DATA_SZ <= log[m].at /\ F > log[l].at + DATA_SZ
        BY <1>3, <2>2, <4>1
      <4>3. l - m >= 0 /\ l \in Nat /\ m \in Nat
        BY <1>3, <1>4, <2>2
      <4>4. FALSE
        BY <3>2, <3>3, <4>1, <4>2, <4>3, Sizes
      <4> QED
        BY <4>4
  <2>3. m > l \/ Frontier > log[l].at + DATA_SZ
    BY <1>1, <1>2, <1>4, <1>7 DEF RunInv, Afresh
  <2>4. m \in Nat /\ l \in Nat
    BY <1>3, <1>4
  <2> QED
    BY <2>1, <2>2, <2>3, <2>4
<1> QED
  BY <1>4, <1>5, <1>6, <1>7

\* How a step of the reader changes what was given last.
LEMMA LastFedSteps ==
    ASSUME NumbersOK, FedOrder, ReaderSide
    PROVE  /\ Take => LastFed' = rid
           /\ Start => LastFed' = 0
           /\ ~(Take \/ Start \/ Kill \/ WatchGiveUp \/ Stop) =>
                LastFed' = LastFed
<1>1. CASE Take
  BY <1>1 DEF Take, LastFed, Start, Kill, WatchGiveUp, Stop, Running
<1>2. CASE Start
  <2>1. ~got
    BY <1>2 DEF FedOrder, Start, Running
  <2> QED
    BY <1>2, <2>1 DEF Start, LastFed, match, Take, Running
<1>3. CASE Emit
  <2>1. got /\ got' = FALSE /\ fed' = Append(fed, rid)
    BY <1>3 DEF Emit, RoundOver, FedOrder
  <2>2. fed \in Seq(Nat) /\ rid \in Nat
    BY DEF NumbersOK
  <2>3. fed' # <<>> /\ fed'[Len(fed')] = rid
    BY <2>1, <2>2
  <2>4. LastFed = rid /\ LastFed' = rid
    BY <2>1, <2>3 DEF LastFed
  <2> QED
    BY <1>3, <2>4 DEF Emit, Take, Start, Running
<1>4. CASE WalkMatch
  <2>1. ~got /\ got' = got /\ fed' = fed
    BY <1>4 DEF WalkMatch, FedOrder
  <2> QED
    BY <1>4, <2>1 DEF WalkMatch, LastFed, Take, Start, Running
<1>5. CASE ~(Take \/ Start \/ Emit \/ WalkMatch \/ Kill \/ WatchGiveUp \/ Stop)
  <2>1. got' = got /\ fed' = fed /\ rid' = rid
    BY <1>5, Zenon
    DEF ReaderSide, ReaderStep, Term, ReadValid, ReadSeq, ClaimWalk,
        ClaimWalkEnd, ClaimSeed, ClaimFilter, Poll, WalkSkip, WalkJump,
        WalkEnd, CopyOut, NoneForUs, WatchQuiet, WatchAnchor, match
  <2> QED
    BY <1>5, <2>1 DEF LastFed
<1>6. CASE Kill \/ WatchGiveUp \/ Stop
  BY <1>6 DEF Kill, WatchGiveUp, Stop, Take, Start, Running, Stalled, Release
<1> QED
  BY <1>1, <1>2, <1>3, <1>4, <1>5, <1>6

\* A step of the writer wants nothing back: it only makes records older,
\* and writes over the cell of a record a lap behind.
LEMMA WriterKeepsRun ==
    ASSUME RingInv, ReaderTypeOK, HistoryInv, RunInv, WriterAction
    PROVE  RunInv'
<1>1. WriterNext /\ UNCHANGED reader
  BY DEF WriterAction
<1>2. UNCHANGED <<rpc, off, left, newest, nid, rid, got, slot_cursor, fed>>
  BY <1>1 DEF reader, walk, match
<1>3. /\ Len(log) \in Nat /\ Len(log') \in Nat /\ Len(log) <= Len(log')
      /\ \A n \in 1 .. Len(log) : log'[n] = log[n]
  BY <1>1, WriterMonotone
<1>4. PICK l : l = LastFed
  OBVIOUS
<1>5. LastFed' = l
  BY <1>2, <1>4 DEF LastFed
<1>6. l \in 0 .. Len(log) /\ l \in 0 .. Len(log') /\ (l # 0 => l \in 1 .. Len(log))
  BY <1>3, <1>4 DEF RunInv, FedOrder
<1>7. NumbersOK /\ RingTypeOK
  BY ReaderTypeParts DEF RingInv
<1>8. nid \in 0 .. Len(log) /\ rid \in 0 .. Len(log) /\ off \in Cells
  BY <1>7 DEF NumbersOK
<1>9. Behind'
  <2> SUFFICES ASSUME Running, slot_cursor # 0, rpc \notin {"copy", "take"},
                      NEW n \in 1 .. l, Len(log') - n <= DATA_SZ
               PROVE  ~EntryWanted(slot_cursor, log'[n])
    BY <1>2, <1>5 DEF Behind, Running
  <2>1. n \in 1 .. Len(log) /\ Len(log) - n <= DATA_SZ
    BY <1>3, <1>6, Sizes
  <2> QED
    BY <1>3, <1>4, <2>1 DEF RunInv, Behind
<1>10. Afresh'
  <2>1. PICK a : a = off
    OBVIOUS
  <2> SUFFICES ASSUME Running, slot_cursor = 0, rpc \notin {"copy", "take"},
                      l # 0
               PROVE  \/ /\ rpc = "walk" /\ Walkable(mem[a])'
                         /\ mem'[a].id > l
                         /\ Class(log'[mem'[a].id].type) = Mine
                      \/ Frontier' > log'[l].at + DATA_SZ
    <3>1. a' = a => TRUE
      OBVIOUS
    <3> QED
      BY <1>2, <1>5, <2>1 DEF Afresh, Running, Walkable
  <2>2. log'[l] = log[l] /\ log[l].at \in Nat
    BY <1>3, <1>6, <1>7, RecordOf
  <2>3. Frontier \in Nat
    BY FrontierBounds DEF HistoryInv
  <2>4. CASE CopyIn
    <3>1. PICK x \in Cells :
            /\ Addr(Len(log), wk) = Wrap(tail + x) /\ Frontier = vtail + x
            /\ Frontier' = Frontier + 1
      BY <2>4, CopyInAt DEF HistoryInv
    <3>2. mem' = [mem EXCEPT ![Wrap(tail + x)] = [id |-> Len(log), k |-> wk]]
      BY <2>4, <3>1 DEF CopyIn
    <3>3. CASE Frontier > log[l].at + DATA_SZ
      BY <2>2, <2>3, <3>1, <3>3, Sizes
    <3>4. CASE /\ rpc = "walk" /\ Walkable(mem[a])
               /\ mem[a].id > l /\ Class(log[mem[a].id].type) = Mine
      <4>1. PICK m : m = mem[a].id
        OBVIOUS
      <4>2. m \in 1 .. Len(log) /\ mem[a].k = 0
        BY <1>7, <2>1, <3>4, <4>1, MatchedHeader
      <4>3. CASE a = Wrap(tail + x)
        <5>1. log[m].at + 0 = Frontier - DATA_SZ
          <6>1. ~(vtail + x < Frontier)
            BY <2>3, <3>1
          <6>2. CellPlaced(x) /\ mem[a].id # 0
            BY <3>4 DEF HistoryInv, EveryCell, Walkable, MagicOK
          <6>3. log[m].at + 0 = IF vtail + x < Frontier
                                  THEN vtail + x ELSE vtail + x - DATA_SZ
            BY <4>1, <4>2, <4>3, <6>2 DEF CellPlaced
          <6>4. log[m].at + 0 = vtail + x - DATA_SZ
            BY <6>1, <6>3, Zenon
          <6>5. vtail \in Nat /\ x \in Nat
            BY <1>7, Sizes DEF RingTypeOK, Cells
          <6> QED
            BY <2>3, <3>1, <6>4, <6>5, Sizes
        <5>2. m > l /\ l \in 1 .. Len(log) /\ m \in Nat /\ l \in Nat
          BY <1>6, <3>4, <4>1, <4>2
        <5>3. log[l].at + (m - l) <= log[m].at /\ log[m].at \in Nat
          <6>1. l <= m
            BY <5>2
          <6> QED
            BY <1>7, <4>2, <5>2, <6>1, RecordOf DEF HistoryInv, Spaced
        <5>4. Frontier > log[l].at + DATA_SZ
          <6>1. PICK F \in Nat : F = Frontier
            BY <2>3
          <6>2. log[m].at = F - DATA_SZ
            BY <5>1, <5>3, <6>1
          <6>3. F > log[l].at + DATA_SZ
            BY <2>2, <5>2, <5>3, <6>1, <6>2, Sizes
          <6> QED
            BY <6>1, <6>3
        <5> QED
          BY <2>2, <2>3, <3>1, <5>4, Sizes
      <4>4. CASE a # Wrap(tail + x)
        <5>1. mem'[a] = mem[a]
          BY <1>7, <1>8, <2>1, <3>2, <4>4 DEF RingTypeOK
        <5> QED
          BY <1>2, <1>3, <3>4, <4>1, <4>2, <5>1 DEF Walkable, MagicOK, Size
      <4> QED
        BY <4>3, <4>4
    <3> QED
      BY <1>4, <2>1, <3>3, <3>4 DEF RunInv, Afresh
  <2>5. CASE ~CopyIn
    <3>1. mem' = mem
      BY <1>1, <2>5 DEF WriterNext, WriteStep, BeginWrite, PopTail, Publish,
                        Notify, EraReset, shared
    <3>2. Frontier' = Frontier
      <4>1. wpc # "copy"
        BY <1>1, <2>5 DEF WriterNext, WriteStep, BeginWrite, PopTail, Publish,
                          Notify, EraReset
      <4>2. CASE Publish
        <5>1. log'[Len(log')].at = vtail + valid /\ wpc' = "copy" /\ wk' = 0
          BY <1>7, <4>2, PublishAppends DEF Publish
        <5>2. vtail \in Nat /\ valid \in Nat
          BY <1>7, Sizes DEF RingTypeOK
        <5> QED
          BY <4>1, <5>1, <5>2 DEF Frontier
      <4>3. CASE PopTail
        <5>1. /\ valid' = valid - Size(log[oldest]) /\ wpc' = wpc
              /\ vtail' = vtail + Size(log[oldest])
          BY <4>3 DEF PopTail, writer
        <5>2. Size(log[oldest]) \in Nat /\ vtail \in Nat /\ valid \in Nat
          <6>1. oldest \in 1 .. Len(log)
            BY <1>7, <4>3, LiveRange DEF PopTail
          <6> QED
            BY <1>7, <6>1, RecordOf, Sizes DEF RingTypeOK
        <5>3. vtail' + valid' = vtail + valid
          BY <5>1, <5>2
        <5> QED
          BY <4>1, <5>1, <5>3 DEF Frontier
      <4>4. CASE BeginWrite \/ Notify \/ EraReset
        BY <4>1, <4>4 DEF BeginWrite, Notify, EraReset, Frontier, past, shared
      <4> QED
        BY <1>1, <2>5, <4>2, <4>3, <4>4 DEF WriterNext, WriteStep
    <3>3. CASE Frontier > log[l].at + DATA_SZ
      BY <2>2, <3>2, <3>3
    <3>4. CASE /\ rpc = "walk" /\ Walkable(mem[a])
               /\ mem[a].id > l /\ Class(log[mem[a].id].type) = Mine
      <4>1. PICK m : m = mem[a].id
        OBVIOUS
      <4>2. m \in 1 .. Len(log)
        BY <1>7, <2>1, <3>4, <4>1, MatchedHeader
      <4> QED
        BY <1>2, <1>3, <3>1, <3>4, <4>1, <4>2 DEF Walkable, MagicOK, Size
    <3> QED
      BY <1>4, <2>1, <3>3, <3>4 DEF RunInv, Afresh
  <2> QED
    BY <2>4, <2>5
<1>11. FedOrder'
  <2>1. rid # 0 => log'[rid] = log[rid]
    BY <1>3, <1>8
  <2> QED
    BY <1>2, <1>4, <1>5, <1>6, <2>1 DEF RunInv, FedOrder
<1>12. SampledLate'
  <2>1. nid # 0 => log'[nid] = log[nid]
    BY <1>3, <1>8
  <2> QED
    BY <1>2, <1>4, <1>5, <2>1 DEF RunInv, SampledLate
<1> QED
  BY <1>9, <1>10, <1>11, <1>12 DEF RunInv

\* The steps that move neither the cursor nor what was given last.
LEMMA QuietKeepsRun ==
    ASSUME NumbersOK, RunInv, ReaderSide,
           ~(Take \/ Start \/ Kill \/ WatchGiveUp \/ Stop \/ ClaimFilter
               \/ WalkJump \/ NoneForUs \/ WatchAnchor)
    PROVE  Behind' /\ Afresh'
<1>1. LastFed' = LastFed
  BY LastFedSteps DEF RunInv
<1>2. UNCHANGED <<mem, vtail, valid, wpc, wk, log, slot_cursor>>
  <2>1. slot_cursor' = slot_cursor
    BY Zenon
    DEF ReaderSide, ReaderStep, Term, ReadValid, ReadSeq, ClaimWalk,
        ClaimWalkEnd, ClaimSeed, Poll, WalkSkip, WalkMatch, WalkEnd, CopyOut,
        WatchQuiet, Emit
  <2> QED
    BY <2>1, ReaderSideShared
<1>3. Running' /\ rpc' \notin {"copy", "take"} =>
        Running /\ rpc \notin {"copy", "take"}
  BY Zenon
  DEF ReaderSide, ReaderStep, Term, ReadValid, ReadSeq, ClaimWalk,
      ClaimWalkEnd, ClaimSeed, Poll, WalkSkip, WalkMatch, WalkEnd, CopyOut,
      WatchQuiet, Emit, Running
<1>4. Behind'
  BY <1>1, <1>2, <1>3 DEF RunInv, Behind
<1>5. Frontier' = Frontier
  BY <1>2 DEF Frontier
<1>6. ASSUME rpc = "walk", Walkable(mem[off]), slot_cursor = 0,
             Class(log[mem[off].id].type) = Mine
      PROVE  /\ rpc' # "copy" => UNCHANGED <<rpc, off, left, newest>>
             /\ rpc' = "copy" \/ rpc' = "walk"
  <2>1. EntryWanted(slot_cursor, log[mem[off].id])
    BY <1>6 DEF EntryWanted
  <2>2. WalkMatch \/ Term
    BY <1>6, <2>1
    DEF ReaderSide, ReaderStep, ReadValid, ReadSeq, ClaimWalk, ClaimWalkEnd,
        ClaimSeed, Poll, WalkSkip, WalkEnd, CopyOut, WatchQuiet, Emit
  <2> QED
    BY <1>6, <2>2 DEF WalkMatch, Term, walk
<1>7. Afresh'
  <2> SUFFICES ASSUME Running', slot_cursor = 0, rpc' \notin {"copy", "take"},
                      LastFed # 0
               PROVE  \/ /\ rpc' = "walk" /\ Walkable(mem[off])'
                         /\ mem'[off'].id > LastFed
                         /\ Class(log'[mem'[off'].id].type) = Mine
                      \/ Frontier > log[LastFed].at + DATA_SZ
    BY <1>1, <1>2, <1>5 DEF Afresh
  <2>1. CASE /\ rpc = "walk" /\ Walkable(mem[off])
             /\ mem[off].id > LastFed /\ Class(log[mem[off].id].type) = Mine
    <3>1. UNCHANGED <<rpc, off, left, newest>>
      BY <1>6, <2>1
    <3> QED
      BY <1>2, <2>1, <3>1 DEF Walkable, MagicOK, Size
  <2>2. CASE Frontier > log[LastFed].at + DATA_SZ
    BY <2>2
  <2> QED
    BY <1>3, <2>1, <2>2 DEF RunInv, Afresh
<1> QED
  BY <1>4, <1>7

\* A cursor at record m wants nothing up to m.
LEMMA CursorAt ==
    ASSUME WideCounter, RingTypeOK, HistoryInv,
           NEW m \in 1 .. Len(log), NEW l \in 0 .. m
    PROVE  /\ log[m].seq # 0
           /\ \A n \in 1 .. l :
                Len(log) - n <= DATA_SZ => ~EntryWanted(log[m].seq, log[n])
<1>1. Len(log) \in Nat /\ LogOrder /\ Counted
  BY DEF RingTypeOK, HistoryInv
<1>2. ASSUME NEW n \in 1 .. l, Len(log) - n <= DATA_SZ
      PROVE  ~EntryWanted(log[m].seq, log[n])
  <2>1. n \in 1 .. Len(log) /\ n <= m /\ m - n <= DATA_SZ
    BY <1>1, <1>2, Sizes
  <2> QED
    BY <1>1, <2>1, OlderUnwanted
<1>3. log[m].seq # 0
  <2>1. m <= m /\ m - m <= DATA_SZ
    BY <1>1, Sizes
  <2> QED
    BY <1>1, <2>1, OlderUnwanted
<1> QED
  BY <1>2, <1>3

\* The steps that do.
LEMMA CursorKeepsRun ==
    ASSUME WideCounter, RingInv, ReaderTypeOK, HistoryInv, RunInv, ReaderSide,
           Take \/ Start \/ Kill \/ WatchGiveUp \/ Stop \/ ClaimFilter
             \/ WalkJump \/ NoneForUs \/ WatchAnchor
    PROVE  Behind' /\ Afresh'
<1>1. NumbersOK /\ HeldOK /\ RingTypeOK /\ FedOrder
  BY ReaderTypeParts DEF RingInv, RunInv
<1>2. /\ Take => LastFed' = rid
      /\ Start => LastFed' = 0
      /\ ~(Take \/ Start \/ Kill \/ WatchGiveUp \/ Stop) => LastFed' = LastFed
  BY <1>1, LastFedSteps
<1>3. UNCHANGED <<mem, vtail, valid, wpc, wk, log, seq>>
  BY ReaderSideShared
<1>4. Len(log) \in Nat /\ LastFed \in 0 .. Len(log)
  BY <1>1 DEF RingTypeOK, FedOrder
<1>5. ASSUME NEW m \in 1 .. Len(log), NEW l \in 0 .. m, LastFed' = l,
             slot_cursor' = log[m].seq
      PROVE  Behind' /\ Afresh'
  <2>1. /\ log[m].seq # 0
        /\ \A n \in 1 .. l :
             Len(log) - n <= DATA_SZ => ~EntryWanted(log[m].seq, log[n])
    BY <1>1, CursorAt
  <2>2. Behind'
    BY <1>3, <1>5, <2>1 DEF Behind
  <2>3. Afresh'
    BY <1>5, <2>1 DEF Afresh
  <2> QED
    BY <2>2, <2>3
<1>6. ASSUME LastFed' = 0
      PROVE  Behind' /\ Afresh'
  BY <1>6 DEF Behind, Afresh
<1>7. CASE Take
  <2>1. rid \in 1 .. Len(log) /\ slot_cursor' = log[rid].seq
    BY <1>1, <1>4, <1>7 DEF Take, HeldOK, NumbersOK
  <2>2. rid \in 0 .. rid
    BY <1>4, <2>1
  <2> QED
    BY <1>2, <1>5, <1>7, <2>1, <2>2
<1>8. CASE Start
  BY <1>2, <1>6, <1>8
<1>9. CASE Kill \/ WatchGiveUp \/ Stop
  <2>1. ~Running'
    BY <1>9 DEF Kill, WatchGiveUp, Stop, Release, Running
  <2> QED
    BY <2>1 DEF Behind, Afresh
<1>10. CASE ClaimFilter
  <2>1. LastFed' = LastFed /\ LastFed = 0
    BY <1>1, <1>2, <1>10
    DEF ClaimFilter, Take, Start, Kill, WatchGiveUp, Stop, Stalled, FedOrder,
        LastFed, Running, Release, ProcessOver
  <2> QED
    BY <1>6, <2>1
<1>11. CASE WalkJump
  <2>1. PICK m : m = mem[off].id
    OBVIOUS
  <2>2. PICK l : l = LastFed
    OBVIOUS
  <2>3. /\ rpc = "walk" /\ rpc' = "walk" /\ Walkable(mem[off])
        /\ EntryWanted(slot_cursor, log[m])
        /\ slot_cursor' = Sub(log[m].seq, 1)
        /\ UNCHANGED <<off, left, newest, got, rid, fed>>
    BY <1>11, <2>1 DEF WalkJump, walk, match
  <2>4. LastFed' = l
    BY <2>2, <2>3 DEF LastFed
  <2>5. m > l /\ l \in 0 .. Len(log) /\ m \in 1 .. Len(log)
    BY <1>1, <1>4, <2>1, <2>2, <2>3, WantedIsNewer, MatchedHeader
  <2>6. Behind'
    <3> SUFFICES ASSUME Sub(log[m].seq, 1) # 0, NEW n \in 1 .. l,
                        Len(log) - n <= DATA_SZ
                 PROVE  ~EntryWanted(Sub(log[m].seq, 1), log[n])
      BY <1>3, <2>3, <2>4 DEF Behind
    <3>1. n \in 1 .. Len(log) /\ n < m /\ n <= m /\ m - n <= DATA_SZ
      BY <1>4, <2>5, Sizes
    <3> QED
      BY <1>1, <2>5, <3>1, OlderUnwanted DEF HistoryInv
  <2>7. Afresh'
    <3>1. Walkable(mem[off])'
      BY <1>3, <2>3 DEF Walkable, MagicOK, Size
    <3>2. mem'[off'].id = m /\ Class(log'[m].type) = Mine
      BY <1>3, <2>1, <2>3 DEF EntryWanted
    <3> QED
      BY <2>3, <2>4, <2>5, <3>1, <3>2 DEF Afresh
  <2> QED
    BY <2>6, <2>7
<1>12. CASE NoneForUs
  <2>1. LastFed' = LastFed
    BY <1>2, <1>12
    DEF NoneForUs, Take, Start, Kill, WatchGiveUp, Stop, Stalled, Running,
        Release, ProcessOver, WalkOver, match, RoundOver, LastFed
  <2>2. rpc = "none" /\ rpc' = "watch"
    BY <1>12 DEF NoneForUs
  <2>3. CASE slot_cursor' = slot_cursor
    <3>1. Frontier' = Frontier
      BY <1>3 DEF Frontier
    <3> QED
      BY <1>3, <2>1, <2>2, <2>3, <3>1 DEF RunInv, Behind, Afresh, Running
  <2>4. CASE slot_cursor' = newest
    <3>1. LastFed <= nid /\ (nid # 0 => newest = log[nid].seq)
      BY <2>2 DEF RunInv, SampledLate
    <3>2. nid \in 0 .. Len(log)
      BY <1>1 DEF NumbersOK
    <3>3. CASE nid = 0
      <4>1. LastFed = 0
        BY <1>4, <3>1, <3>3
      <4> QED
        BY <1>6, <2>1, <4>1
    <3>4. CASE nid # 0
      <4>1. nid \in 1 .. Len(log) /\ LastFed \in 0 .. nid
        BY <1>4, <3>1, <3>2, <3>4
      <4> QED
        BY <1>5, <2>1, <2>4, <3>1, <3>4, <4>1
    <3> QED
      BY <3>3, <3>4
  <2> QED
    BY <1>12, <2>3, <2>4 DEF NoneForUs
<1>13. CASE WatchAnchor
  <2>1. LastFed' = LastFed
    BY <1>13 DEF WatchAnchor, match, LastFed
  <2>2. slot_cursor' = seq
    BY <1>13 DEF WatchAnchor
  <2>3. CASE Len(log) = 0
    <3>1. LastFed = 0
      BY <1>4, <2>3
    <3> QED
      BY <1>6, <2>1, <3>1
  <2>4. CASE Len(log) # 0
    <3>1. Len(log) \in 1 .. Len(log) /\ LastFed \in 0 .. Len(log)
          /\ seq = log[Len(log)].seq
      BY <1>4, <2>4 DEF HistoryInv, OneEra
    <3> QED
      BY <1>5, <2>1, <2>2, <3>1
  <2> QED
    BY <2>3, <2>4
<1> QED
  BY <1>7, <1>8, <1>9, <1>10, <1>11, <1>12, <1>13

LEMMA ReaderKeepsFedOrder ==
    ASSUME RingInv, ReaderTypeOK, HistoryInv, RunInv, ReaderSide
    PROVE  FedOrder'
<1> USE DEF match
<1>1. NumbersOK /\ HeldOK /\ RingTypeOK /\ FedOrder
  BY ReaderTypeParts DEF RingInv, RunInv
<1>2. UNCHANGED log
  BY ReaderSideShared
<1>3. Len(log) \in Nat /\ rid \in 0 .. Len(log) /\ fed \in Seq(Nat)
      /\ LastFed \in 0 .. Len(log)
  BY <1>1 DEF NumbersOK, RingTypeOK, FedOrder
<1>4. CASE Take
  <2>1. /\ rpc = "take" /\ ~got /\ rpc' = "watch" /\ got' = TRUE /\ fed' = fed
        /\ rid' = rid
    BY <1>1, <1>4 DEF Take, FedOrder
  <2>2. rid # 0 /\ Class(log[rid].type) = Mine /\ rid > LastFed
    BY <1>1, <2>1 DEF FedOrder
  <2>3. LastFed' = rid
    BY <2>1 DEF LastFed
  <2>4. ASSUME NEW i \in 1 .. Len(fed)
        PROVE  fed[i] < rid
    <3>1. fed # <<>> /\ fed[i] \in Nat /\ fed[Len(fed)] \in Nat
      BY <1>3
    <3>2. LastFed = fed[Len(fed)]
      BY <2>1, <3>1 DEF LastFed
    <3>3. fed[i] <= fed[Len(fed)]
      BY <1>1 DEF FedOrder
    <3> QED
      BY <1>3, <2>2, <3>1, <3>2, <3>3
  <2> QED
    BY <1>1, <1>2, <1>3, <2>1, <2>2, <2>3, <2>4 DEF FedOrder
<1>5. CASE Start
  <2>1. /\ ~got /\ got' = got /\ fed' = <<>> /\ rpc' \in {"cSeed", "cValid"}
    BY <1>1, <1>5 DEF Start, FedOrder, Running
  <2>2. LastFed' = 0 /\ Len(fed') = 0
    BY <2>1 DEF LastFed
  <2> QED
    BY <1>2, <1>3, <2>1, <2>2 DEF FedOrder
<1>6. CASE Kill \/ WatchGiveUp \/ Stop
  <2>1. got' = FALSE /\ fed' = fed /\ rpc' \in {"off", "gone"}
    BY <1>6 DEF Kill, WatchGiveUp, Stop, Release, ProcessOver, RoundOver
  <2>2. LastFed' \in 0 .. Len(log)
    <3>1. CASE fed = <<>>
      BY <1>3, <2>1, <3>1 DEF LastFed
    <3>2. CASE fed # <<>>
      <4>1. Len(fed) \in 1 .. Len(fed) /\ fed[Len(fed)] \in Nat
        BY <1>3, <3>2
      <4>2. LastFed' = fed[Len(fed)]
        BY <2>1, <3>2 DEF LastFed
      <4>3. fed[Len(fed)] <= Len(log)
        <5>1. CASE got
          <6>1. fed[Len(fed)] < rid
            BY <1>1, <4>1, <5>1 DEF FedOrder
          <6> QED
            BY <1>3, <4>1, <6>1
        <5>2. CASE ~got
          <6>1. LastFed = fed[Len(fed)]
            BY <3>2, <5>2 DEF LastFed
          <6> QED
            BY <1>3, <6>1
        <5> QED
          BY <5>1, <5>2
      <4> QED
        BY <1>3, <4>1, <4>2, <4>3
    <3> QED
      BY <3>1, <3>2
  <2> QED
    BY <1>1, <1>2, <2>1, <2>2 DEF FedOrder
<1>7. CASE Emit
  <2>1. /\ got /\ got' = FALSE /\ fed' = Append(fed, rid) /\ rpc' = "poll"
    BY <1>1, <1>7 DEF Emit, RoundOver, FedOrder
  <2>2. Len(fed') = Len(fed) + 1 /\ fed'[Len(fed')] = rid /\ fed' # <<>>
    BY <1>3, <2>1
  <2>3. LastFed' = rid
    BY <2>1, <2>2 DEF LastFed
  <2>4. ASSUME NEW i \in 1 .. Len(fed')
        PROVE  fed'[i] <= rid
    <3>1. CASE i \in 1 .. Len(fed)
      <4>1. fed[i] < rid /\ fed[i] \in Nat /\ fed'[i] = fed[i]
        BY <1>1, <1>3, <2>1, <3>1 DEF FedOrder
      <4> QED
        BY <1>3, <4>1
    <3>2. CASE i = Len(fed')
      BY <1>3, <2>2, <3>2
    <3> QED
      BY <1>3, <2>2, <3>1, <3>2
  <2> QED
    BY <1>2, <1>3, <2>1, <2>2, <2>3, <2>4 DEF FedOrder
<1>8. CASE WalkMatch
  <2>1. /\ ~got /\ got' = got /\ fed' = fed /\ rpc' = "copy" /\ rpc = "walk"
        /\ Walkable(mem[off]) /\ EntryWanted(slot_cursor, log[mem[off].id])
        /\ rid' = mem[off].id
    BY <1>1, <1>8 DEF WalkMatch, FedOrder
  <2>2. mem[off].id > LastFed /\ mem[off].id \in 1 .. Len(log)
    BY <1>1, <2>1, WantedIsNewer, MatchedHeader
  <2>3. LastFed' = LastFed /\ Class(log[mem[off].id].type) = Mine
    BY <2>1 DEF LastFed, EntryWanted
  <2>4. mem[off].id # 0
    BY <1>3, <2>2
  <2> QED
    BY <1>1, <1>2, <2>1, <2>2, <2>3, <2>4 DEF FedOrder
<1>9. CASE ~(Take \/ Start \/ Kill \/ WatchGiveUp \/ Stop \/ Emit \/ WalkMatch)
  <2>1. got' = got /\ fed' = fed /\ rid' = rid
    BY <1>9, Zenon
    DEF ReaderSide, ReaderStep, Term, ReadValid, ReadSeq, ClaimWalk,
        ClaimWalkEnd, ClaimSeed, ClaimFilter, Poll, WalkSkip, WalkJump,
        WalkEnd, CopyOut, NoneForUs, WatchQuiet, WatchAnchor
  <2>2. LastFed' = LastFed
    BY <2>1 DEF LastFed
  <2>3. /\ rpc' \in {"copy", "take"} => rpc \in {"copy", "take"}
        /\ rpc' \in {"cValid", "cSeq", "cWalk", "cSeed", "cFilter"} =>
             rpc \in {"cValid", "cSeq", "cWalk", "cSeed", "cFilter"}
    BY <1>9, Zenon
    DEF ReaderSide, ReaderStep, Term, ReadValid, ReadSeq, ClaimWalk,
        ClaimWalkEnd, ClaimSeed, ClaimFilter, Poll, WalkSkip, WalkJump,
        WalkEnd, CopyOut, NoneForUs, WatchQuiet, WatchAnchor, Rest
  <2>4. CASE WatchQuiet \/ WatchAnchor
    <3>1. (got => rpc' = "emit") /\ (~got => rpc' = "poll")
      BY <2>4 DEF WatchQuiet, WatchAnchor, Rest
    <3> QED
      BY <1>1, <1>2, <2>1, <2>2, <2>3, <3>1 DEF FedOrder
  <2>5. CASE Term
    BY <1>1, <1>2, <2>1, <2>2, <2>5 DEF FedOrder, Term
  <2>6. CASE ~(WatchQuiet \/ WatchAnchor \/ Term)
    <3>1. rpc \notin {"watch", "emit"} /\ rpc' # "emit"
      BY <1>9, <2>6, Zenon
      DEF ReaderSide, ReaderStep, ReadValid, ReadSeq, ClaimWalk,
          ClaimWalkEnd, ClaimSeed, ClaimFilter, Poll, WalkSkip, WalkJump,
          WalkEnd, CopyOut, NoneForUs
    <3> QED
      BY <1>1, <1>2, <2>1, <2>2, <2>3, <3>1 DEF FedOrder
  <2> QED
    BY <2>4, <2>5, <2>6
<1> QED
  BY <1>4, <1>5, <1>6, <1>7, <1>8, <1>9

LEMMA ReaderKeepsSample ==
    ASSUME RingInv, ReaderTypeOK, HistoryInv, RunInv, ReaderSide
    PROVE  SampledLate'
<1>1. NumbersOK /\ RingTypeOK /\ FedOrder
  BY ReaderTypeParts DEF RingInv, RunInv
<1>2. UNCHANGED <<log, seq>>
  BY ReaderSideShared
<1>3. CASE ReadSeq
  <2>1. LastFed' = LastFed /\ newest' = seq /\ nid' = Len(log)
    BY <1>3 DEF ReadSeq, LastFed, match
  <2>2. LastFed \in 0 .. Len(log) /\ Len(log) \in Nat
    BY <1>1 DEF FedOrder, RingTypeOK
  <2> QED
    BY <1>2, <2>1, <2>2 DEF SampledLate, HistoryInv, OneEra
<1>4. CASE ~ReadSeq /\ rpc' \in {"walk", "none"}
  <2>1. WalkSkip \/ WalkJump \/ WalkEnd \/ Term
    BY <1>4
    DEF ReaderSide, ReaderStep, Start, Kill, ReadValid, ClaimWalk, ClaimWalkEnd,
        ClaimSeed, ClaimFilter, Poll, WalkMatch, CopyOut, Take, NoneForUs,
        WatchQuiet, WatchAnchor, WatchGiveUp, Emit, Stop, Release, Rest
  <2>2. UNCHANGED <<newest, nid, got, rid, fed>>
    BY <2>1 DEF WalkSkip, WalkJump, WalkEnd, Term, Advance, walk, match
  <2>3. rpc \in {"walk", "none"}
    BY <1>4, <2>1 DEF WalkSkip, WalkJump, WalkEnd, Term
  <2> QED
    BY <1>2, <2>2, <2>3 DEF RunInv, SampledLate, LastFed
<1>5. CASE rpc' \notin {"walk", "none"}
  BY <1>5 DEF SampledLate
<1> QED
  BY <1>3, <1>4, <1>5

LEMMA RunInvNext ==
    ASSUME WideCounter, IInv, HistoryInv, RunInv, [Next]_vars
    PROVE  HistoryInv' /\ RunInv'
<1>1. RingInv /\ ReaderInv /\ ReaderTypeOK /\ NumbersOK /\ MaxEras = 0
  BY IInvParts, ReaderTypeParts DEF ReaderInv, WideCounter
<1>2. CASE WriterAction
  BY <1>1, <1>2, WriterKeepsRun, HistoryStep DEF WriterAction
<1>3. CASE ReaderSide
  <2>1. HistoryInv'
    BY <1>1, <1>3, ReaderSideShared, HistoryStep
  <2>2. Behind' /\ Afresh'
    BY <1>1, <1>3, QuietKeepsRun, CursorKeepsRun
  <2> QED
    BY <1>1, <1>3, <2>1, <2>2, ReaderKeepsFedOrder, ReaderKeepsSample
    DEF RunInv
<1>4. CASE UNCHANGED vars
  <2>1. UNCHANGED <<mem, tail, valid, vtail, seq, log, wpc, wk, eras, rpc, off,
                    left, newest, nid, rid, got, fed, slot_cursor>>
    BY <1>4 DEF vars, shared, writer, past, reader, walk, match
  <2>2. HistoryInv'
    BY <1>1, <2>1, HistoryStep
  <2>3. LastFed' = LastFed /\ Frontier' = Frontier
    BY <2>1 DEF LastFed, Frontier
  <2>4. Behind' /\ Afresh'
    BY <2>1, <2>3
    DEF RunInv, Behind, Afresh, Running, Walkable, MagicOK, Size
  <2>5. FedOrder' /\ SampledLate'
    BY <2>1, <2>3 DEF RunInv, FedOrder, SampledLate
  <2> QED
    BY <2>2, <2>4, <2>5 DEF RunInv
<1> QED
  BY <1>2, <1>3, <1>4 DEF Next, ReaderSide
-----------------------------------------------------------------------------
(***************************************************************************)
(* The feed implements RecordFeed                                          *)
(***************************************************************************)

\* The history of the ring and of the run, in every reachable state.
LEMMA RunInvariant == WideCounter => (Spec => [](IInv /\ HistoryInv /\ RunInv))
<1> SUFFICES ASSUME WideCounter
             PROVE  Spec => [](IInv /\ HistoryInv /\ RunInv)
  OBVIOUS
<1>1. Init => IInv /\ HistoryInv /\ RunInv
  BY IInvInit, HistoryInit, RunInit
<1>2. IInv /\ HistoryInv /\ RunInv /\ [Next]_vars
        => (IInv /\ HistoryInv /\ RunInv)'
  BY IInvNext, Stutter, RunInvNext
<1> QED
  BY <1>1, <1>2, PTL DEF Spec

\* The classes of the records written, as the abstract feed sees them.
Written == [n \in 1 .. Len(log) |-> Class(log[n].type)]

LEMMA FeedInit ==
    ASSUME Init
    PROVE  Feed!Init
<1>1. log = <<>> /\ fed = <<>>
  BY DEF Init, RingInit, ReaderInit
<1>2. Written = <<>>
  BY <1>1 DEF Written
<1> QED
  BY <1>1, <1>2 DEF Feed!Init, Written

\* A sequence with one more element, as a function.
LEMMA AppendIs ==
    ASSUME NEW S, NEW W \in Seq(S), NEW c \in S
    PROVE  Append(W, c) = [n \in 1 .. Len(W) + 1 |->
                             IF n <= Len(W) THEN W[n] ELSE c]
<1>1. /\ Append(W, c) \in Seq(S) /\ Len(Append(W, c)) = Len(W) + 1
      /\ Len(W) \in Nat
  OBVIOUS
<1>2. DOMAIN Append(W, c) = 1 .. Len(W) + 1
  BY <1>1
<1>3. \A n \in 1 .. Len(W) + 1 :
        Append(W, c)[n] = IF n <= Len(W) THEN W[n] ELSE c
  OBVIOUS
<1>4. Append(W, c) = [n \in DOMAIN Append(W, c) |-> Append(W, c)[n]]
  <2>1. PICK A \in Seq(S) : A = Append(W, c)
    BY <1>1
  <2>2. A \in [1 .. Len(A) -> S]
    OBVIOUS
  <2>3. A = [n \in DOMAIN A |-> A[n]]
    BY <2>2, Zenon
  <2> QED
    BY <2>1, <2>3
<1> QED
  BY <1>2, <1>3, <1>4, Zenon

\* Publishing a record appends its class.
LEMMA PublishIsWrite ==
    ASSUME RingTypeOK, Publish, UNCHANGED reader
    PROVE  Feed!Write
<1>1. PICK r : r = [type |-> wrec.type, len |-> wrec.len,
                    seq |-> SeqInc(seq), at |-> vtail + valid]
  OBVIOUS
<1>2. log' = Append(log, r) /\ fed' = fed /\ r.type = wrec.type
  BY <1>1 DEF Publish, reader
<1>3. log \in Seq(Record) /\ wrec.type \in Types
  BY DEF RingTypeOK
<1>4. PICK c : c = Class(wrec.type)
  OBVIOUS
<1>5. c \in {"hires", "audio"}
  BY <1>4 DEF Class
<1>6. Len(log') = Len(log) + 1 /\ Len(log) \in Nat
  BY <1>2, <1>3
<1>7. \A n \in 1 .. Len(log') :
        log'[n] = IF n <= Len(log) THEN log[n] ELSE r
  BY <1>2, <1>3
<1>8. Written' = Append(Written, c)
  <2>1. Len(Written) = Len(log) /\ Written \in Seq({"hires", "audio"})
    BY <1>6 DEF Written, Class
  <2>2. Append(Written, c) =
          [n \in 1 .. Len(log) + 1 |->
             IF n <= Len(log) THEN Written[n] ELSE c]
    <3>1. PICK W : W = Written
      OBVIOUS
    <3>2. W \in Seq({"hires", "audio"}) /\ Len(W) = Len(log)
      BY <2>1, <3>1
    <3>3. Append(W, c) = [n \in 1 .. Len(W) + 1 |->
                            IF n <= Len(W) THEN W[n] ELSE c]
      BY <1>5, <3>2, AppendIs
    <3> QED
      BY <3>1, <3>2, <3>3
  <2>3. \A n \in 1 .. Len(log) + 1 :
          Class(log'[n].type) = IF n <= Len(log) THEN Written[n] ELSE c
    BY <1>2, <1>4, <1>6, <1>7 DEF Written
  <2> QED
    BY <1>6, <2>2, <2>3 DEF Written
<1> QED
  BY <1>2, <1>5, <1>8 DEF Feed!Write, Written

\* Handing a record on passes on a later one of the reader's class.
LEMMA EmitIsPass ==
    ASSUME RingTypeOK, FedOrder, NumbersOK, Emit
    PROVE  Feed!Pass
<1>1. got /\ rid # 0 /\ Class(log[rid].type) = Mine
      /\ \A i \in 1 .. Len(fed) : fed[i] < rid
  BY DEF FedOrder, Emit
<1>2. rid \in 1 .. Len(log) /\ Len(log) \in Nat
  BY <1>1 DEF NumbersOK, RingTypeOK
<1>3. fed' = Append(fed, rid) /\ log' = log
  BY DEF Emit, past
<1>4. /\ Written[rid] = Mine /\ rid \in 1 .. Len(Written)
      /\ Written' = Written
  BY <1>1, <1>2, <1>3 DEF Written
<1> QED
  BY <1>1, <1>3, <1>4 DEF Feed!Pass, Written

\* Every step is a step of the feed, or leaves it alone.
LEMMA FeedNext ==
    ASSUME IInv, RunInv, [Next]_vars
    PROVE  [Feed!Next]_(Feed!feedVars)
<1>1. RingTypeOK /\ NumbersOK /\ FedOrder
  BY IInvParts, ReaderTypeParts DEF RingInv, ReaderInv, RunInv
<1>2. CASE Publish /\ UNCHANGED reader
  BY <1>1, <1>2, PublishIsWrite DEF Feed!Next
<1>3. CASE Emit
  BY <1>1, <1>3, EmitIsPass DEF Feed!Next
<1>4. CASE Start
  <2>1. fed' = <<>> /\ log' = log
    BY <1>4 DEF Start, past
  <2> QED
    BY <2>1 DEF Feed!Next, Feed!Restart
<1>5. ASSUME fed' = fed, log' = log
      PROVE  UNCHANGED Feed!feedVars
  BY <1>5 DEF Feed!feedVars
<1>6. CASE WriterAction /\ ~Publish
  <2>1. fed' = fed /\ log' = log
    BY <1>6
    DEF WriterAction, WriterNext, WriteStep, BeginWrite, PopTail, CopyIn,
        Notify, EraReset, past, reader
  <2> QED
    BY <1>5, <2>1
<1>7. CASE (ReaderStep \/ Term \/ Kill) /\ ~Emit
  <2>1. fed' = fed /\ log' = log
    BY <1>7, Zenon
    DEF ReaderStep, Term, Kill, ReadValid, ReadSeq, ClaimWalk, ClaimWalkEnd,
        ClaimSeed, ClaimFilter, Poll, WalkSkip, WalkJump, WalkMatch, WalkEnd,
        CopyOut, Take, NoneForUs, WatchQuiet, WatchAnchor, WatchGiveUp, Stop,
        past
  <2> QED
    BY <1>5, <2>1
<1>8. CASE UNCHANGED vars
  BY <1>5, <1>8 DEF vars, past, reader
<1> QED
  BY <1>2, <1>3, <1>4, <1>6, <1>7, <1>8 DEF Next, WriterAction

\* What reader_loop hands on is the abstract feed: a selection of the
\* records of its class that advances strictly, whatever rmm pops or
\* overwrites meanwhile, as long as rmm does not restart its counter and the
\* counter's range is more than two rings (a restart is what re-delivers).
THEOREM FeedTheorem == WideCounter => (Spec => FeedSpec)
<1> SUFFICES ASSUME WideCounter
             PROVE  Spec => FeedSpec
  OBVIOUS
<1>1. Spec => [](IInv /\ HistoryInv /\ RunInv)
  BY RunInvariant
<1>2. Init => Feed!Init
  BY FeedInit
<1>3. IInv /\ RunInv /\ [Next]_vars => [Feed!Next]_(Feed!feedVars)
  BY FeedNext
<1> QED
  BY <1>1, <1>2, <1>3, PTL DEF Spec, FeedSpec, Feed!Spec
-----------------------------------------------------------------------------
(***************************************************************************)
(* A video reader joins at the chain start it chose                        *)
(***************************************************************************)

\* The counter has not wrapped yet.
Rising == \A m, n \in 1 .. Len(log) : m < n => log[m].seq < log[n].seq

Claiming == rpc \in {"cValid", "cSeq", "cWalk", "cSeed", "cFilter"}

\* Nothing was taken yet.
Fresh == fed = <<>> /\ ~got

\* best is the number of the parameter set join.
Chosen == /\ rpc \in {"cValid", "cSeq", "cWalk"} => Mine = "hires"
          /\ best > 1 => /\ join \in 1 .. Len(log) /\ log[join].type = "sps"
                         /\ best = log[join].seq /\ Mine = "hires"

\* The record under the walk is the one it jumped to.
AtJump ==
    /\ rpc = "walk" /\ Walkable(mem[off])
    /\ EntryWanted(slot_cursor, log[mem[off].id])
    /\ ~Far(log[mem[off].id])
    /\ mem[off].id > join

\* While the chain start is in the ring and nothing was taken, the cursor
\* stays before it, unless the walk jumped to a later record just now.
Seeded ==
    Running /\ ~Claiming /\ Fresh /\ rpc \notin {"copy", "take"}
      /\ best > 1 /\ join \in Live
        => slot_cursor = best - 1 \/ AtJump

\* So does the cursor the round began with, and the walk knows the record.
RoundSeeded ==
    /\ rpc \in {"rValid", "rSeq", "walk", "copy", "take"} /\ Fresh
         /\ best > 1 /\ join \in Live => base = best - 1
    /\ rpc \in {"walk", "none"} /\ best > 1 => join <= nid

\* The watchdog is asleep until a record was emitted.
Unwatched == last_emit => Running /\ (fed = <<>> => rpc = "emit")

JoinInv == Rising => Chosen /\ Seeded /\ RoundSeeded /\ Unwatched

LEMMA JoinInvInit == Init => JoinInv
BY DEF Init, RingInit, ReaderInit, JoinInv, Chosen, Seeded, RoundSeeded,
       Unwatched, Running

\* A record's own cursor and the one before it, and a jump to it.
LEMMA CursorBefore ==
    ASSUME RingTypeOK, LogOrder, NEW n \in 1 .. Len(log),
           Class(log[n].type) = Mine,
           NEW c, c = Sub(log[n].seq, 1)
    PROVE  /\ c = log[n].seq - 1
           /\ EntryWanted(c, log[n])
           /\ slot_cursor = c => ~Far(log[n])
<1>1. log[n].seq \in 1 .. SeqMod - 1
  BY RecordOf, Sizes DEF LogOrder
<1>2. PICK s \in 1 .. SeqMod - 1 : s = log[n].seq
  BY <1>1
<1>3. c = s - 1 /\ (c = 0 \/ Sub(s, SeqInc(c)) <= (SeqMod \div 2) - 2)
  BY <1>2, JustBefore
<1>4. Sub(s, (c + 1) % SeqMod) = 0
  <2>1. s % SeqMod = s /\ 0 % SeqMod = 0
    BY Sizes
  <2>2. c + 1 = s /\ s - s = 0
    BY <1>3
  <2> QED
    BY <2>1, <2>2 DEF Sub
<1>5. ~(0 > JumpGap)
  BY ReaderAssumption
<1> QED
  BY <1>2, <1>3, <1>4, <1>5 DEF EntryWanted, Far

\* A step of the writer leaves the header of a record it does not pop.
LEMMA HeaderStays ==
    ASSUME RingInv, RingInv', WriterNext, NEW a \in Cells,
           MagicOK(mem[a]), mem[a].id \in Live, mem[a].id \in Live'
    PROVE  mem'[a] = mem[a]
<1>1. PICK r : r = mem[a].id
  OBVIOUS
<1>2. /\ RingTypeOK /\ RingTypeOK' /\ InPlace /\ InPlace'
      /\ r \in 1 .. Len(log) /\ r \in Live' /\ r \in Live
  BY <1>1, LiveRange DEF RingInv, RingLayout
<1>3. mem[a].k = 0 /\ a = Addr(r, 0)
  BY <1>1, <1>2 DEF InPlace, MagicOK
<1>4. mem[a] = [id |-> r, k |-> 0]
  BY <1>1, <1>2, <1>3 DEF RingTypeOK, Cell
<1>5. Addr(r, 0)' = Addr(r, 0) /\ (Committed(r) => Committed(r)')
  BY <1>2, WriterMonotone
<1>6. Committed(r)' \/ 0 < wk'
  <2>1. CASE CopyIn
    <3>1. wk' = wk + 1 /\ wk \in Nat
      BY <1>2, <2>1 DEF CopyIn, RingTypeOK
    <3> QED
      BY <3>1
  <2>2. CASE ~CopyIn
    <3>1. CASE wpc # "copy"
      BY <1>5, <3>1 DEF Committed
    <3>2. CASE wpc = "copy"
      BY <2>2, <3>2
      DEF WriterNext, WriteStep, BeginWrite, PopTail, Publish, Notify,
          EraReset
    <3> QED
      BY <3>1, <3>2
  <2> QED
    BY <2>1, <2>2
<1>7. 0 \in 0 .. log'[r].len
  <2>1. r \in 1 .. Len(log')
    BY <1>2, LiveRange DEF Live
  <2>2. log'[r].len \in Nat
    <3>1. log'[r] = log[r]
      BY <1>2, WriterMonotone
    <3> QED
      BY <1>2, <3>1, RecordOf
  <2> QED
    BY <2>2
<1>8. mem'[Addr(r, 0)'] = [id |-> r, k |-> 0]
  BY <1>2, <1>6, <1>7 DEF InPlace
<1> QED
  BY <1>3, <1>4, <1>5, <1>8

LEMMA WriterKeepsJoin ==
    ASSUME RingInv, RingInv', ReaderTypeOK, JoinInv, WriterAction
    PROVE  JoinInv'
<1>1. WriterNext /\ UNCHANGED reader
  BY DEF WriterAction
<1>2. UNCHANGED <<rpc, off, left, newest, nid, base, got, slot_cursor, fed,
                  best, join, last_emit>>
  BY <1>1 DEF reader, walk, match, watchdog
<1>3. /\ Len(log) \in Nat /\ Len(log') \in Nat /\ Len(log) <= Len(log')
      /\ oldest \in Nat /\ oldest' \in Nat /\ oldest <= oldest'
      /\ \A n \in 1 .. Len(log) : log'[n] = log[n]
  BY <1>1, WriterMonotone
<1>4. NumbersOK /\ RingTypeOK
  BY ReaderTypeParts DEF RingInv
<1> SUFFICES ASSUME Rising'
             PROVE  (Chosen /\ Seeded /\ RoundSeeded /\ Unwatched)'
  BY DEF JoinInv
<1>5. Rising
  <2> SUFFICES ASSUME NEW m \in 1 .. Len(log), NEW n \in 1 .. Len(log), m < n
               PROVE  log[m].seq < log[n].seq
    BY DEF Rising
  <2>1. m \in 1 .. Len(log') /\ n \in 1 .. Len(log')
    BY <1>3
  <2>2. log'[m].seq < log'[n].seq
    BY <2>1 DEF Rising
  <2> QED
    BY <1>3, <2>2
<1>6. Chosen /\ Seeded /\ RoundSeeded /\ Unwatched
  BY <1>5 DEF JoinInv
<1>7. Chosen'
  BY <1>2, <1>3, <1>6 DEF Chosen
<1>8. best > 1 /\ join \in Live' => join \in Live /\ join \in 1 .. Len(log)
  BY <1>3, <1>6 DEF Chosen, Live
<1>9. RoundSeeded'
  BY <1>2, <1>6, <1>8 DEF RoundSeeded, Fresh
<1>10. Unwatched'
  BY <1>2, <1>6 DEF Unwatched, Running
<1>11. Seeded'
  <2> SUFFICES ASSUME Running, ~Claiming, Fresh, rpc \notin {"copy", "take"},
                      best > 1, join \in Live', slot_cursor # best - 1
               PROVE  AtJump'
    BY <1>2 DEF Seeded, Running, Claiming, Fresh
  <2>1. AtJump
    BY <1>6, <1>8 DEF Seeded
  <2>2. PICK a : a = off
    OBVIOUS
  <2>3. PICK m : m = mem[a].id
    OBVIOUS
  <2>4. /\ a \in Cells /\ MagicOK(mem[a]) /\ m > join /\ m \in 1 .. Len(log)
    BY <1>4, <2>1, <2>2, <2>3, MatchedHeader DEF AtJump, Walkable, NumbersOK
  <2>5. m \in Live /\ m \in Live'
    BY <1>3, <1>8, <2>4 DEF Live
  <2>6. mem'[a] = mem[a]
    BY <1>1, <2>3, <2>4, <2>5, HeaderStays
  <2>7. log'[m] = log[m] /\ off' = a
    BY <1>2, <1>3, <2>2, <2>4
  <2>8. Walkable(mem[off])'
    BY <1>2, <2>1, <2>2, <2>3, <2>6, <2>7 DEF AtJump, Walkable, MagicOK, Size
  <2>9. EntryWanted(slot_cursor, log[mem[off].id])' /\ ~Far(log[mem[off].id])'
    BY <1>2, <2>1, <2>2, <2>3, <2>6, <2>7 DEF AtJump, EntryWanted, Far
  <2> QED
    BY <1>2, <2>1, <2>2, <2>3, <2>4, <2>6, <2>7, <2>8, <2>9 DEF AtJump
<1> QED
  BY <1>7, <1>9, <1>10, <1>11

\* A cursor before the chain start wants nothing older than it, and a jump
\* from there goes beyond it.
LEMMA JumpsBeyond ==
    ASSUME WideCounter, RingInv, NumbersOK, HistoryInv, Chosen,
           best > 1, slot_cursor = best - 1,
           Walkable(mem[off]), EntryWanted(slot_cursor, log[mem[off].id]),
           Far(log[mem[off].id])
    PROVE  mem[off].id > join
<1>1. PICK m : m = mem[off].id
  OBVIOUS
<1>2. PICK j : j = join
  OBVIOUS
<1>3. RingTypeOK /\ LogOrder /\ Counted /\ Len(log) \in Nat
  BY DEF RingInv, RingTypeOK, HistoryInv
<1>4. /\ m \in 1 .. Len(log) /\ Len(log) - m <= DATA_SZ
  BY <1>1, HeaderRecent DEF NumbersOK, Walkable
<1>5. /\ j \in 1 .. Len(log) /\ best = log[j].seq
      /\ Class(log[j].type) = Mine
  BY <1>2 DEF Chosen, Class
<1>6. Sub(log[j].seq, 1) = slot_cursor
  <2>1. log[j].seq \in 1 .. SeqMod - 1
    BY <1>3, <1>5, RecordOf, Sizes DEF LogOrder
  <2> QED
    BY <1>5, <2>1, JustBefore
<1>7. m # j
  <2>1. ~Far(log[j])
    BY <1>3, <1>5, <1>6, CursorBefore
  <2> QED
    BY <1>1, <2>1
<1>8. ~(m < j)
  <2> SUFFICES ASSUME m < j
               PROVE  FALSE
    OBVIOUS
  <2>1. m <= j /\ j - m <= DATA_SZ
    <3>1. j <= Len(log) /\ j \in Nat /\ m \in Nat
      BY <1>3, <1>4, <1>5
    <3> QED
      BY <1>3, <1>4, <3>1, Sizes
  <2>2. slot_cursor # 0
    <3>1. best \in Nat
      BY DEF NumbersOK
    <3> QED
      BY <3>1
  <2>3. ~EntryWanted(Sub(log[j].seq, 1), log[m])
    BY <1>3, <1>4, <1>5, <1>6, <2>1, <2>2, OlderUnwanted
  <2> QED
    BY <1>1, <1>6, <2>3
<1> QED
  BY <1>1, <1>2, <1>4, <1>5, <1>7, <1>8

\* The steps after which the cursor or the round is a new one.
LEMMA CursorKeepsJoin ==
    ASSUME WideCounter, RingInv, ReaderTypeOK, HistoryInv, RunInv, Rising,
           Chosen, Seeded, RoundSeeded, Unwatched, ReaderSide
    PROVE  Seeded'
<1> USE DEF walk, match, watchdog
<1>1. NumbersOK /\ RingTypeOK /\ FedOrder /\ Len(log) \in Nat
  BY ReaderTypeParts DEF RingInv, RunInv, RingTypeOK
<1>2. UNCHANGED <<mem, log, oldest>>
  BY ReaderSideShared
<1>3. CASE ClaimFilter
  <2>1. slot_cursor' = Seed /\ best' = best
    BY <1>3 DEF ClaimFilter
  <2> QED
    BY <2>1 DEF Seeded, Seed
<1>4. CASE WalkSkip
  <2>1. ~AtJump
    BY <1>4 DEF WalkSkip, AtJump
  <2>2. UNCHANGED <<rpc, best, join, slot_cursor, fed, got>>
    BY <1>4 DEF WalkSkip
  <2> QED
    BY <1>2, <2>1, <2>2 DEF Seeded, Running, Claiming, Fresh, Live
<1>5. CASE WalkJump
  <2> SUFFICES ASSUME Fresh', best' > 1, join' \in Live'
               PROVE  AtJump'
    BY DEF Seeded
  <2>1. PICK m : m = mem[off].id
    OBVIOUS
  <2>2. /\ rpc = "walk" /\ rpc' = "walk" /\ Walkable(mem[off])
        /\ EntryWanted(slot_cursor, log[m]) /\ Far(log[m])
        /\ slot_cursor' = Sub(log[m].seq, 1)
        /\ UNCHANGED <<off, left, newest, got, fed, best, join>>
    BY <1>5, <2>1 DEF WalkJump
  <2>3. slot_cursor = best - 1
    <3>1. ~AtJump
      BY <2>1, <2>2 DEF AtJump
    <3>2. Running /\ ~Claiming /\ Fresh /\ join \in Live
      BY <1>2, <2>2 DEF Running, Claiming, Fresh, Live
    <3> QED
      BY <2>2, <3>1, <3>2 DEF Seeded
  <2>4. m > join /\ m \in 1 .. Len(log)
    BY <1>1, <2>1, <2>2, <2>3, JumpsBeyond, MatchedHeader
  <2>5. PICK c : c = Sub(log[m].seq, 1)
    OBVIOUS
  <2>6. EntryWanted(c, log[m])
    BY <1>1, <2>2, <2>4, <2>5, CursorBefore DEF EntryWanted, HistoryInv
  <2>7. ~Far(log[m])'
    <3>1. /\ log[m].seq \in 1 .. SeqMod - 1 /\ c = log[m].seq - 1
      BY <1>1, <2>2, <2>4, <2>5, CursorBefore, RecordOf, Sizes
      DEF EntryWanted, HistoryInv, LogOrder
    <3>2. PICK s \in 1 .. SeqMod - 1 : s = log[m].seq
      BY <3>1
    <3>3. s % SeqMod = s /\ 0 % SeqMod = 0 /\ c + 1 = s /\ s - s = 0
      BY <3>1, <3>2, Sizes
    <3>4. Sub(s, (c + 1) % SeqMod) = 0
      BY <3>3 DEF Sub
    <3>5. ~(0 > JumpGap)
      BY ReaderAssumption
    <3> QED
      BY <1>2, <2>2, <2>5, <3>2, <3>4, <3>5 DEF Far
  <2>8. Walkable(mem[off])'
    BY <1>2, <2>2 DEF Walkable, MagicOK, Size
  <2>9. mem'[off'].id = m /\ log' = log /\ slot_cursor' = c
    BY <1>2, <2>1, <2>2, <2>5
  <2>10. EntryWanted(slot_cursor, log[mem[off].id])'
    BY <2>6, <2>9 DEF EntryWanted
  <2>11. ~Far(log[mem[off].id])'
    BY <2>7, <2>9 DEF Far
  <2> QED
    BY <2>2, <2>4, <2>8, <2>9, <2>10, <2>11 DEF AtJump
<1>6. CASE WalkEnd
  <2>1. ~AtJump
    BY <1>6 DEF WalkEnd, AtJump
  <2>2. UNCHANGED <<best, join, slot_cursor, fed, got>> /\ rpc = "walk"
    BY <1>6 DEF WalkEnd
  <2> QED
    BY <1>2, <2>1, <2>2 DEF Seeded, Running, Claiming, Fresh, Live
<1>7. CASE NoneForUs
  <2> SUFFICES ASSUME Fresh', best' > 1, join' \in Live'
               PROVE  slot_cursor' = best' - 1
    BY DEF Seeded
  <2>1. /\ rpc = "none" /\ UNCHANGED <<best, join, fed, got>>
        /\ slot_cursor' = slot_cursor \/ newest < slot_cursor
    BY <1>7 DEF NoneForUs
  <2>2. slot_cursor = best - 1
    <3>1. Running /\ ~Claiming /\ Fresh /\ join \in Live /\ best > 1 /\ ~AtJump
      BY <1>2, <2>1 DEF Running, Claiming, Fresh, Live, AtJump
    <3> QED
      BY <2>1, <3>1 DEF Seeded
  <2>3. /\ join \in 1 .. Len(log) /\ best = log[join].seq /\ join <= nid
        /\ nid \in 1 .. Len(log) /\ newest = log[nid].seq
    <3>1. /\ join \in 1 .. Len(log) /\ best = log[join].seq /\ join <= nid
      BY <2>1 DEF Chosen, RoundSeeded
    <3>2. nid \in 0 .. Len(log) /\ (nid # 0 => newest = log[nid].seq)
      BY <1>1, <2>1 DEF NumbersOK, RunInv, SampledLate
    <3> QED
      BY <1>1, <3>1, <3>2
  <2>4. ~(newest < slot_cursor)
    <3>1. best <= newest
      <4>1. CASE join = nid
        <5>1. best \in Nat
          BY <1>1 DEF NumbersOK
        <5> QED
          BY <2>3, <4>1, <5>1
      <4>2. CASE join < nid
        <5>1. best < newest
          BY <2>3, <4>2 DEF Rising
        <5> QED
          BY <1>1, <5>1 DEF NumbersOK
      <4> QED
        BY <2>3, <4>1, <4>2
    <3>2. best \in Nat /\ newest \in Nat
      BY <1>1 DEF NumbersOK
    <3> QED
      BY <2>2, <3>1, <3>2
  <2> QED
    BY <2>1, <2>2, <2>4
<1>8. CASE Take \/ Emit
  <2>1. ~Fresh'
    <3>1. CASE Take
      BY <3>1 DEF Take, Fresh
    <3>2. CASE Emit
      <4>1. fed' = Append(fed, rid) /\ fed \in Seq(Nat) /\ rid \in Nat
        BY <1>1, <3>2 DEF Emit, NumbersOK
      <4>2. fed' # <<>>
        BY <4>1
      <4> QED
        BY <4>2 DEF Fresh
    <3> QED
      BY <1>8, <3>1, <3>2
  <2> QED
    BY <2>1 DEF Seeded
<1>9. CASE WatchAnchor
  <2>1. ~Fresh'
    BY <1>9 DEF WatchAnchor, Stalled, Unwatched, Fresh
  <2> QED
    BY <2>1 DEF Seeded
<1>10. CASE Start \/ ClaimWalk \/ ClaimWalkEnd \/ ClaimSeed
  <2>1. Claiming'
    BY <1>10 DEF Start, ClaimWalk, ClaimWalkEnd, ClaimSeed, Claiming
  <2> QED
    BY <2>1 DEF Seeded
<1>11. CASE Kill \/ WatchGiveUp \/ Stop
  <2>1. ~Running'
    BY <1>11 DEF Kill, WatchGiveUp, Stop, Release, Running
  <2> QED
    BY <2>1 DEF Seeded
<1>12. CASE WalkMatch \/ CopyOut
  <2>1. rpc' \in {"copy", "take"}
    BY <1>12 DEF WalkMatch, CopyOut
  <2> QED
    BY <2>1 DEF Seeded
<1>13. CASE ReadValid \/ ReadSeq \/ Poll \/ WatchQuiet
  <2>1. /\ UNCHANGED <<best, join, slot_cursor, fed, got>>
        /\ rpc \in {"cValid", "cSeq", "rValid", "rSeq", "poll", "watch"}
        /\ rpc \in {"cValid", "cSeq"} => Claiming'
    BY <1>13 DEF ReadValid, ReadSeq, Poll, WatchQuiet, Rest, Claiming
  <2>2. ~AtJump
    BY <2>1 DEF AtJump
  <2> QED
    BY <1>2, <2>1, <2>2 DEF Seeded, Running, Claiming, Fresh, Live
<1>14. CASE Term
  <2>1. UNCHANGED <<rpc, off, left, newest, best, join, slot_cursor, fed, got>>
    BY <1>14 DEF Term
  <2> QED
    BY <1>2, <2>1
    DEF Seeded, Running, Claiming, Fresh, Live, AtJump, Walkable, MagicOK,
        Size, EntryWanted, Far
<1> QED
  BY <1>3, <1>4, <1>5, <1>6, <1>7, <1>8, <1>9, <1>10, <1>11, <1>12, <1>13, <1>14
  DEF ReaderSide, ReaderStep

LEMMA ReaderKeepsChosen ==
    ASSUME RingInv, ReaderTypeOK, Chosen, ReaderSide
    PROVE  Chosen'
<1>1. NumbersOK /\ RingTypeOK
  BY ReaderTypeParts DEF RingInv
<1>2. UNCHANGED log
  BY ReaderSideShared
<1>3. CASE ClaimWalk
  <2>1. /\ rpc = "cWalk" /\ rpc' = rpc /\ Walkable(mem[off])
        /\ \/ /\ log[mem[off].id].type = "sps"
              /\ best' = log[mem[off].id].seq /\ join' = mem[off].id
           \/ best' = best /\ join' = join
    BY <1>3 DEF ClaimWalk
  <2>2. mem[off].id \in 1 .. Len(log)
    BY <1>1, <2>1, MatchedHeader
  <2> QED
    BY <1>2, <2>1, <2>2 DEF Chosen
<1>4. CASE Start
  <2>1. /\ best' = best /\ join' = join
        /\ rpc' = IF Audio THEN "cSeed" ELSE "cValid"
    BY <1>4 DEF Start
  <2> QED
    BY <1>2, <2>1, ReaderAssumption DEF Chosen, Audio
<1>5. CASE Kill \/ WatchGiveUp \/ Stop
  <2>1. best' = 0 /\ rpc' \in {"off", "gone"}
    BY <1>5 DEF Kill, WatchGiveUp, Stop, Release, ProcessOver
  <2> QED
    BY <2>1 DEF Chosen
<1>6. CASE ~(ClaimWalk \/ Start \/ Kill \/ WatchGiveUp \/ Stop)
  <2>1. best' = best /\ join' = join
    BY <1>6, Zenon
    DEF ReaderSide, ReaderStep, Term, ReadValid, ReadSeq, ClaimWalkEnd,
        ClaimSeed, ClaimFilter, Poll, WalkSkip, WalkJump, WalkMatch, WalkEnd,
        CopyOut, Take, NoneForUs, WatchQuiet, WatchAnchor, Emit
  <2>2. rpc' \in {"cValid", "cSeq", "cWalk"} =>
          rpc \in {"cValid", "cSeq", "cWalk"}
    BY <1>6, Zenon
    DEF ReaderSide, ReaderStep, Term, ReadValid, ReadSeq, ClaimWalkEnd,
        ClaimSeed, ClaimFilter, Poll, WalkSkip, WalkJump, WalkMatch, WalkEnd,
        CopyOut, Take, NoneForUs, WatchQuiet, WatchAnchor, Emit, Rest
  <2> QED
    BY <1>2, <2>1, <2>2 DEF Chosen
<1> QED
  BY <1>3, <1>4, <1>5, <1>6

LEMMA ReaderKeepsRound ==
    ASSUME RingInv, ReaderTypeOK, Chosen, Seeded, RoundSeeded, ReaderSide
    PROVE  RoundSeeded'
<1> USE DEF walk, match
<1>1. NumbersOK /\ Len(log) \in Nat
  BY ReaderTypeParts DEF RingInv, RingTypeOK
<1>2. UNCHANGED <<log, oldest>>
  BY ReaderSideShared
<1>3. CASE Poll
  <2>1. /\ rpc = "poll" /\ UNCHANGED <<fed, got, best, join, slot_cursor>>
        /\ (rpc' = "rValid" /\ base' = slot_cursor) \/ rpc' = "watch"
    BY <1>3 DEF Poll
  <2>2. Running /\ ~Claiming /\ ~AtJump
    BY <2>1 DEF Running, Claiming, AtJump
  <2> QED
    BY <1>2, <2>1, <2>2 DEF RoundSeeded, Seeded, Fresh, Live
<1>4. CASE ReadSeq
  <2>1. /\ UNCHANGED <<fed, got, best, join, base>> /\ nid' = Len(log)
        /\ rpc' = "walk" => rpc = "rSeq"
        /\ rpc' \in {"walk", "cWalk"}
    BY <1>4 DEF ReadSeq
  <2> QED
    BY <1>1, <1>2, <2>1 DEF RoundSeeded, Chosen, Fresh, Live
<1>5. CASE ReadValid \/ WalkSkip \/ WalkJump \/ WalkMatch \/ WalkEnd \/ CopyOut
             \/ Term
  <2>1. UNCHANGED <<fed, got, best, join, base, nid>>
    BY <1>5
    DEF ReadValid, WalkSkip, WalkJump, WalkMatch, WalkEnd, CopyOut, Term,
        Advance
  <2>2. /\ rpc' \in {"rValid", "rSeq", "walk", "copy", "take"} =>
             rpc \in {"rValid", "rSeq", "walk", "copy", "take"}
        /\ rpc' \in {"walk", "none"} => rpc \in {"walk", "none"}
    BY <1>5 DEF ReadValid, WalkSkip, WalkJump, WalkMatch, WalkEnd, CopyOut, Term
  <2> QED
    BY <1>2, <2>1, <2>2 DEF RoundSeeded, Fresh, Live
<1>6. CASE ~(Poll \/ ReadSeq \/ ReadValid \/ WalkSkip \/ WalkJump \/ WalkMatch
               \/ WalkEnd \/ CopyOut \/ Term)
  <2>1. rpc' \notin {"rValid", "rSeq", "walk", "copy", "take", "none"}
    BY <1>6
    DEF ReaderSide, ReaderStep, Start, Kill, ClaimWalk, ClaimWalkEnd,
        ClaimSeed, ClaimFilter, Take, NoneForUs, WatchQuiet, WatchAnchor,
        WatchGiveUp, Emit, Stop, Release, Rest
  <2> QED
    BY <2>1 DEF RoundSeeded
<1> QED
  BY <1>3, <1>4, <1>5, <1>6

LEMMA ReaderKeepsWatch ==
    ASSUME ReaderTypeOK, FedOrder, Unwatched, ReaderSide
    PROVE  Unwatched'
<1> USE DEF watchdog
<1>1. NumbersOK
  BY ReaderTypeParts
<1>2. CASE WatchQuiet \/ WatchAnchor
  <2>1. /\ rpc = "watch" /\ rpc' = IF got THEN "emit" ELSE "poll"
        /\ last_emit' = (got \/ last_emit) /\ fed' = fed
    BY <1>2 DEF WatchQuiet, WatchAnchor, Stalled, Rest
  <2> QED
    BY <2>1 DEF Unwatched, Running
<1>3. CASE Emit
  <2>1. fed' = Append(fed, rid) /\ fed \in Seq(Nat) /\ rid \in Nat
        /\ rpc' = "poll" /\ last_emit' = last_emit
    BY <1>1, <1>3 DEF Emit, NumbersOK
  <2>2. fed' # <<>>
    BY <2>1
  <2> QED
    BY <2>1, <2>2 DEF Unwatched, Running
<1>4. CASE Kill \/ WatchGiveUp \/ Stop
  BY <1>4 DEF Kill, WatchGiveUp, Stop, Release, ProcessOver, Unwatched
<1>5. CASE Start
  BY <1>5 DEF Start, Unwatched
<1>6. CASE ~(WatchQuiet \/ WatchAnchor \/ Emit \/ Kill \/ WatchGiveUp \/ Stop
               \/ Start)
  <2>1. last_emit' = last_emit /\ fed' = fed /\ rpc' \notin {"off", "gone"}
    BY <1>6
    DEF ReaderSide, ReaderStep, Term, ReadValid, ReadSeq, ClaimWalk,
        ClaimWalkEnd, ClaimSeed, ClaimFilter, Poll, WalkSkip, WalkJump,
        WalkMatch, WalkEnd, CopyOut, Take, NoneForUs, Running
  <2>2. rpc = "emit" => rpc' = "emit"
    BY <1>6
    DEF ReaderSide, ReaderStep, Term, ReadValid, ReadSeq, ClaimWalk,
        ClaimWalkEnd, ClaimSeed, ClaimFilter, Poll, WalkSkip, WalkJump,
        WalkMatch, WalkEnd, CopyOut, Take, NoneForUs
  <2> QED
    BY <2>1, <2>2 DEF Unwatched, Running
<1> QED
  BY <1>2, <1>3, <1>4, <1>5, <1>6

LEMMA JoinInvNext ==
    ASSUME WideCounter, IInv, IInv', HistoryInv, RunInv, JoinInv, [Next]_vars
    PROVE  JoinInv'
<1>1. RingInv /\ RingInv' /\ ReaderTypeOK /\ FedOrder
  BY IInvParts DEF ReaderInv, RunInv, IInv, RingInv, TypeOK
<1>2. CASE WriterAction
  BY <1>1, <1>2, WriterKeepsJoin
<1>3. CASE ReaderSide
  <2> SUFFICES ASSUME Rising'
               PROVE  (Chosen /\ Seeded /\ RoundSeeded /\ Unwatched)'
    BY DEF JoinInv
  <2>1. Rising
    BY <1>3, ReaderSideShared DEF Rising
  <2>2. Chosen /\ Seeded /\ RoundSeeded /\ Unwatched
    BY <2>1 DEF JoinInv
  <2>3. Seeded'
    BY <1>1, <1>3, <2>1, <2>2, CursorKeepsJoin
  <2>4. Chosen' /\ RoundSeeded' /\ Unwatched'
    BY <1>1, <1>3, <2>2, ReaderKeepsChosen, ReaderKeepsRound, ReaderKeepsWatch
  <2> QED
    BY <2>3, <2>4
<1>4. CASE UNCHANGED vars
  <2>1. UNCHANGED <<mem, log, oldest, rpc, off, left, newest, nid, base, best,
                    join, slot_cursor, got, fed, last_emit>>
    BY <1>4 DEF vars, shared, past, reader, walk, match, watchdog
  <2>2. (AtJump <=> AtJump') /\ (Rising <=> Rising')
    BY <2>1
    DEF AtJump, Walkable, MagicOK, Size, EntryWanted, Far, Rising
  <2>3. (Chosen <=> Chosen') /\ (Seeded <=> Seeded')
    BY <2>1, <2>2 DEF Chosen, Seeded, Running, Claiming, Fresh, Live
  <2>4. (RoundSeeded <=> RoundSeeded') /\ (Unwatched <=> Unwatched')
    BY <2>1 DEF RoundSeeded, Unwatched, Running, Fresh, Live
  <2> QED
    BY <2>2, <2>3, <2>4 DEF JoinInv
<1> QED
  BY <1>2, <1>3, <1>4 DEF Next, ReaderSide

\* claim_slot's choice is where a video client starts: unless rmm pops that
\* parameter set first, it is the first record reader_loop takes, however
\* often the first rounds find nothing and wherever the live-edge jump goes
\* meanwhile, until rmm's counter wraps (a wrap seen by an idle round moves
\* the cursor to the live edge).
THEOREM JoinsAtChainStartTheorem ==
    WideCounter => (Spec => [](Rising => JoinsAtChainStart))
<1> SUFFICES ASSUME WideCounter
             PROVE  Spec => [](Rising => JoinsAtChainStart)
  OBVIOUS
<1>1. Init => JoinInv
  BY JoinInvInit
<1>2. IInv /\ IInv' /\ HistoryInv /\ RunInv /\ JoinInv /\ [Next]_vars
        => JoinInv'
  BY JoinInvNext
<1>3. IInv /\ PassInv /\ HistoryInv /\ RunInv /\ JoinInv
        => (Rising => JoinsAtChainStart)
  <2> SUFFICES ASSUME IInv, PassInv, HistoryInv, RunInv, JoinInv, Rising,
                      rpc = "take", ~misread, fed = <<>>, best > 1,
                      join \in oldest .. rid
               PROVE  rid = join /\ log[rid].type = "sps"
    BY DEF JoinsAtChainStart
  <2>1. RingTypeOK /\ NumbersOK /\ FedOrder /\ LogOrder
    BY IInvParts, ReaderTypeParts DEF RingInv, ReaderInv, RunInv, HistoryInv
  <2>2. Chosen /\ RoundSeeded
    BY DEF JoinInv
  <2>3. rid \in 0 .. Len(log) /\ Len(log) \in Nat /\ oldest \in Nat
    BY <2>1 DEF NumbersOK, RingTypeOK
  <2>4. Fresh /\ join \in Live
    BY <2>1, <2>3 DEF FedOrder, Fresh, Live
  <2>5. /\ join \in 1 .. Len(log) /\ log[join].type = "sps"
        /\ best = log[join].seq /\ Class(log[join].type) = Mine
        /\ base = best - 1
    BY <2>2, <2>4 DEF Chosen, RoundSeeded, Class
  <2>6. EntryWanted(base, log[join])
    <3>1. log[join].seq \in 1 .. SeqMod - 1
      BY <2>1, <2>5, RecordOf, Sizes DEF LogOrder
    <3>2. Sub(log[join].seq, 1) = base
      BY <2>5, <3>1, JustBefore
    <3> QED
      BY <2>1, <2>5, <3>2, CursorBefore
  <2>7. join \notin oldest .. rid - 1
    BY <2>6 DEF PassInv, MatchFirst
  <2> QED
    BY <2>3, <2>5, <2>7
<1> QED
  BY <1>1, <1>2, <1>3, RunInvariant, PassesOver, PTL DEF Spec
=============================================================================
