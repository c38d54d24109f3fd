------------------------------ MODULE FifoProofs ------------------------------
(***************************************************************************)
(* Proofs about the producer's end of the video fifo, composed with the    *)
(* server's end, for every pipe size, trim, NAL length and record content. *)
(* First the gate and the pipe; then the server's end: the scan of         *)
(* createNew, what a client is sent first, and that nothing of what was    *)
(* written is lost or moved on its way to the client.                      *)
(***************************************************************************)
EXTENDS FifoSource, NaturalsInduction, WellFoundedInduction, TLAPS
-----------------------------------------------------------------------------
(***************************************************************************)
(* Sequences                                                               *)
(***************************************************************************)
LEMMA Wider ==
    ASSUME NEW S, NEW T, S \subseteq T, NEW s \in Seq(S)
    PROVE  s \in Seq(T)
OBVIOUS

\* What is left after r elements are taken off the front.
LEMMA Rest ==
    ASSUME NEW S, NEW s \in Seq(S), NEW r \in 0 .. Len(s)
    PROVE  /\ SubSeq(s, r + 1, Len(s)) \in Seq(S)
           /\ Len(SubSeq(s, r + 1, Len(s))) = Len(s) - r
OBVIOUS

LEMMA First ==
    ASSUME NEW S, NEW s \in Seq(S), NEW r \in 0 .. Len(s)
    PROVE  SubSeq(s, 1, r) \in Seq(S) /\ Len(SubSeq(s, 1, r)) = r
OBVIOUS

LEMMA CellsType ==
    ASSUME NEW N \in Nat, NEW i \in 1 .. N, NEW k \in Nat, NEW n \in Nat
    PROVE  /\ CellsOf(i, k, n) \in Seq([nal : 1 .. N, k : Nat])
           /\ Len(CellsOf(i, k, n)) = n
<1> DEFINE C == [nal : 1 .. N, k : Nat]
           c(j) == [nal |-> i, k |-> k + j - 1]
<1>1. \A j \in 1 .. n : c(j) \in C
  OBVIOUS
<1>2. CellsOf(i, k, n) = [j \in 1 .. n |-> c(j)]
  BY DEF CellsOf
<1> HIDE DEF C, c
<1>3. [j \in 1 .. n |-> c(j)] \in Seq(C) /\ Len([j \in 1 .. n |-> c(j)]) = n
  BY <1>1
<1> QED
  BY <1>2, <1>3 DEF C

LEMMA Joined ==
    ASSUME NEW S, NEW s \in Seq(S), NEW t \in Seq(S)
    PROVE  s \o t \in Seq(S) /\ Len(s \o t) = Len(s) + Len(t)
OBVIOUS

\* A write puts no more into the pipe than there is room for.
LEMMA WrittenFits ==
    ASSUME FifoTypeOK, NEW n \in Nat
    PROVE  /\ Written(n) \in Nat /\ Written(n) <= n
           /\ Len(pipe) + Written(n) <= PipeSize
BY PipeAssumption DEF FifoTypeOK, Written, Room, Lesser
\* What a member of the stream is made of.
LEMMA StreamType ==
    ASSUME FifoTypeOK
    PROVE  /\ Len(stream) \in Nat /\ DOMAIN stream = 1 .. Len(stream)
           /\ \A j \in 1 .. Len(stream) :
                /\ stream[j].by \in Nat /\ stream[j].put \in Nat
                /\ stream[j].kind \in Kinds
<1>1. stream \in Seq(Nal)
  BY DEF FifoTypeOK
<1>2. Len(stream) \in Nat /\ DOMAIN stream = 1 .. Len(stream)
  BY <1>1
<1>3. ASSUME NEW j \in 1 .. Len(stream)
      PROVE  /\ stream[j].by \in Nat /\ stream[j].put \in Nat
             /\ stream[j].kind \in Kinds
  <2>1. stream[j] \in Nal
    BY <1>1
  <2> QED
    BY <2>1 DEF Nal
<1> QED
  BY <1>2, <1>3
-----------------------------------------------------------------------------
(***************************************************************************)
(* Steps that leave the stream and the gate alone                          *)
(***************************************************************************)
Gate == <<stream, stage, chain_open, starts, alive, writing>>

LEMMA GateFrame ==
    ASSUME GateKnows, WritingLast, GateOK, ChainWhole,
           UNCHANGED Gate, writing => UNCHANGED <<todo, off>>
    PROVE  (GateKnows /\ WritingLast /\ GateOK /\ ChainWhole)'
<1> USE DEF Gate
<1>1. GateKnows'
  BY DEF GateKnows, AfterSps
<1>2. WritingLast'
  BY DEF WritingLast
<1>3. GateOK'
  BY DEF GateOK, Opens
<1>4. ChainWhole'
  BY DEF ChainWhole
<1> QED
  BY <1>1, <1>2, <1>3, <1>4

\* The pipe may lose cells from its front, to anyone.
LEMMA PipeFrame ==
    ASSUME GateIInv, NEW r \in 0 .. Len(pipe),
           pipe' = SubSeq(pipe, r + 1, Len(pipe)),
           pn' = 0 \/ pn' \in PurgeTrim + 1 .. PipeSize,
           purged' \subseteq purged \cup {pipe[i] : i \in 1 .. r},
           UNCHANGED <<starts, alive, emitter, recs, stream, jumped>>
    PROVE  GateIInv'
<1>1. Cell' = Cell
  BY DEF Cell
<1>2. pipe' \in Seq(Cell) /\ Len(pipe') <= PipeSize
  BY Rest, PipeAssumption DEF GateIInv, FifoTypeOK
<1>3. purged' \subseteq Cell
  BY DEF GateIInv, FifoTypeOK
<1>4. FifoTypeOK'
  BY <1>1, <1>2, <1>3 DEF GateIInv, FifoTypeOK, emitter, gate, jumped
<1>5. (GateKnows /\ WritingLast /\ GateOK /\ ChainWhole)'
  BY GateFrame DEF GateIInv, Gate, emitter, gate
<1> QED
  BY <1>4, <1>5 DEF GateIInv
-----------------------------------------------------------------------------
(***************************************************************************)
(* The producer is started and stopped                                     *)
(***************************************************************************)
LEMMA StartKeeps ==
    ASSUME GateIInv, StartProducer
    PROVE  GateIInv'
<1> USE DEF StartProducer, emitter, gate, history, jumped
<1>1. FifoTypeOK /\ GateKnows /\ WritingLast /\ GateOK /\ ChainWhole
  BY DEF GateIInv
<1>2. /\ starts \in Nat /\ starts' = starts + 1 /\ starts' \in 0 .. MaxStarts
      /\ UNCHANGED <<stream, todo, stage, chain_open, writing, off, pn, pipe,
                     recs, jumps, severed, purged>>
      /\ alive = FALSE /\ alive' = TRUE /\ Cell' = Cell
  BY <1>1, PipeAssumption DEF FifoTypeOK, Cell
<1>3. FifoTypeOK'
  BY <1>1, <1>2 DEF FifoTypeOK
<1>4. writing = FALSE /\ stage = 0 /\ chain_open = FALSE
  BY <1>1, <1>2 DEF WritingLast, GateKnows, FifoTypeOK
<1>5. \A j \in DOMAIN stream : stream[j].by <= starts /\ stream[j].by < starts'
  BY <1>1, <1>2, StreamType DEF GateKnows
<1>6. GateKnows'
  BY <1>1, <1>2, <1>4, <1>5, StreamType DEF GateKnows
<1>7. WritingLast' /\ GateOK'
  BY <1>1, <1>2, <1>4 DEF WritingLast, GateOK, Opens
<1>8. ChainWhole'
  BY <1>1, <1>2, <1>4, <1>5 DEF ChainWhole
<1> QED
  BY <1>3, <1>6, <1>7, <1>8 DEF GateIInv

LEMMA StopKeeps ==
    ASSUME GateIInv, NEW held, StopProducer(held)
    PROVE  GateIInv'
<1>1. FifoTypeOK /\ GateKnows /\ WritingLast /\ GateOK /\ ChainWhole
  BY DEF GateIInv
<1>2. /\ UNCHANGED <<starts, recs, stream, jumps, purged>>
      /\ alive' = FALSE /\ todo' = <<>> /\ stage' = 0 /\ chain_open' = FALSE
      /\ writing' = FALSE /\ off' = 0 /\ pn' = 0 /\ severed' = FALSE
      /\ Cell' = Cell
      /\ pipe' = pipe \/ pipe' = <<>>
  BY DEF StopProducer, Cell
<1>3. pipe' \in Seq(Cell) /\ Len(pipe') <= PipeSize
  <2>1. pipe \in Seq(Cell) /\ Len(pipe) <= PipeSize
    BY <1>1 DEF FifoTypeOK
  <2>2. <<>> \in Seq(Cell) /\ Len(<<>>) <= PipeSize
    BY PipeAssumption
  <2> QED
    BY <1>2, <2>1, <2>2
<1>4. FifoTypeOK'
  <2>1. todo' \in Seq(Kinds) /\ stage' \in 0 .. 2 /\ off' \in Nat
    BY <1>2
  <2> QED
    BY <1>1, <1>2, <1>3, <2>1 DEF FifoTypeOK
<1>5. GateKnows' /\ WritingLast'
  BY <1>1, <1>2 DEF GateKnows, WritingLast
<1>6. GateOK'
  BY <1>1, <1>2 DEF GateOK, Opens
<1>7. ChainWhole'
  BY <1>1, <1>2 DEF ChainWhole
<1> QED
  BY <1>4, <1>5, <1>6, <1>7 DEF GateIInv
-----------------------------------------------------------------------------
(***************************************************************************)
(* The emitter                                                             *)
(***************************************************************************)
LEMMA DeliverKeeps ==
    ASSUME GateIInv, Deliver
    PROVE  GateIInv'
<1>1. FifoTypeOK /\ GateKnows /\ WritingLast /\ GateOK /\ ChainWhole
  BY DEF GateIInv
<1>2. /\ UNCHANGED <<starts, alive, stage, chain_open, writing, off, pn, pipe,
                     stream, purged>>
      /\ todo = <<>> /\ todo' \in Seq(Kinds) /\ recs' \in 0 .. MaxRecs
      /\ Cell' = Cell
  BY <1>1, PipeAssumption DEF Deliver, gate, FifoTypeOK, Cell
<1>3. jumps' \in 0 .. MaxJumps /\ severed' \in BOOLEAN
  <2>1. jumps \in 0 .. MaxJumps /\ severed \in BOOLEAN
    BY <1>1 DEF FifoTypeOK
  <2>2. CASE UNCHANGED jumped
    BY <2>1, <2>2 DEF jumped
  <2>3. CASE jumps < MaxJumps /\ jumps' = jumps + 1 /\ severed' = TRUE
    BY <2>1, <2>3, PipeAssumption
  <2> QED
    BY <2>2, <2>3 DEF Deliver
<1>4. FifoTypeOK'
  BY <1>1, <1>2, <1>3 DEF FifoTypeOK
<1>5. ~writing
  BY <1>1, <1>2 DEF WritingLast
<1>6. (GateKnows /\ WritingLast /\ GateOK /\ ChainWhole)'
  BY <1>1, <1>2, <1>5, GateFrame DEF Gate
<1> QED
  BY <1>4, <1>6 DEF GateIInv

LEMMA DropKeeps ==
    ASSUME GateIInv, DropNal
    PROVE  GateIInv'
<1> USE DEF GateIInv, DropNal, gate, history, jumped
<1>1. FifoTypeOK'
  BY DEF FifoTypeOK, Cell, AtNal
<1>2. (GateKnows /\ WritingLast /\ GateOK /\ ChainWhole)'
  BY GateFrame DEF Gate, AtNal
<1> QED
  BY <1>1, <1>2

\* A NAL joins the stream: what was there stays, and cells stay cells.
LEMMA Appended ==
    ASSUME FifoTypeOK, NEW r \in Nal,
           stream' = Append(stream, r)
    PROVE  /\ stream' \in Seq(Nal)
           /\ Len(stream') = Len(stream) + 1 /\ Len(stream) \in Nat
           /\ DOMAIN stream = 1 .. Len(stream)
           /\ DOMAIN stream' = 1 .. Len(stream) + 1
           /\ \A j \in DOMAIN stream : stream'[j] = stream[j]
           /\ stream'[Len(stream) + 1] = r
           /\ pipe \in Seq(Cell') /\ purged \subseteq Cell' /\ Cell \subseteq Cell'
<1>1. /\ stream \in Seq(Nal)
      /\ pipe \in Seq(Cell) /\ purged \subseteq Cell
  BY DEF FifoTypeOK
<1>2. /\ stream' \in Seq(Nal)
      /\ Len(stream') = Len(stream) + 1 /\ Len(stream) \in Nat
      /\ DOMAIN stream = 1 .. Len(stream)
      /\ DOMAIN stream' = 1 .. Len(stream) + 1
      /\ \A j \in DOMAIN stream : stream'[j] = stream[j]
      /\ stream'[Len(stream) + 1] = r
  BY <1>1
<1>3. Cell \subseteq Cell'
  BY <1>2 DEF Cell
<1>4. pipe \in Seq(Cell')
  BY <1>1, <1>3, Wider
<1> QED
  BY <1>1, <1>2, <1>3, <1>4

LEMMA PassKeeps ==
    ASSUME GateIInv, PassChainNal
    PROVE  GateIInv'
<1> DEFINE h == Head(todo)
           L == Len(stream) + 1
           nal == [kind |-> h, put |-> 0, by |-> starts]
<1>1. /\ alive /\ todo \in Seq(Kinds) /\ todo # <<>> /\ ~writing /\ off = 0
      /\ h \in Kinds \ {"p", "badpps", "aud"}
      /\ ~Dropped(h)
      /\ starts \in Nat /\ stage \in 0 .. 2 /\ chain_open \in BOOLEAN
  BY DEF GateIInv, FifoTypeOK, PassChainNal, AtNal, Dropped
<1>2. /\ stream' = Append(stream, nal) /\ nal \in Nal
      /\ UNCHANGED <<starts, alive, todo, off, pn, pipe, recs, jumps, purged>>
      /\ writing' = TRUE
      /\ chain_open' = (chain_open \/ h = "idr")
  BY <1>1 DEF PassChainNal, Nal
<1>3. /\ stream' \in Seq(Nal)
      /\ Len(stream') = L /\ Len(stream) \in Nat
      /\ DOMAIN stream = 1 .. Len(stream)
      /\ DOMAIN stream' = 1 .. L
      /\ \A j \in DOMAIN stream : stream'[j] = stream[j]
      /\ stream'[L] = nal
      /\ pipe \in Seq(Cell') /\ purged \subseteq Cell'
  BY <1>2, Appended DEF GateIInv
<1>4. /\ h = "sps" => stage' = 1
      /\ h = "pps" => stage' = 2 /\ stage \in {1, 2}
      /\ h = "idr" => stage' = 0 /\ stage = 2
      /\ h = "sei" => stage' = stage
      /\ stage' \in 0 .. 2
      /\ h \in {"sps", "pps", "idr", "sei"}
  BY <1>1 DEF PassChainNal, Dropped, Kinds
<1>5. FifoTypeOK'
  <2>1. severed' \in BOOLEAN
    BY DEF PassChainNal, GateIInv, FifoTypeOK
  <2>2. chain_open' \in BOOLEAN
    BY <1>2
  <2>3. FifoTypeOK
    BY DEF GateIInv
  <2> HIDE DEF h, L, nal
  <2> QED
    BY <1>1, <1>2, <1>3, <1>4, <2>1, <2>2, <2>3 DEF FifoTypeOK
<1>a. /\ stream'[L].kind = h /\ stream'[L].put = 0 /\ stream'[L].by = starts
      /\ h = Head(todo) /\ L = Len(stream) + 1 /\ L \in Nat
  BY <1>3
<1>b. /\ FifoTypeOK /\ GateKnows /\ WritingLast /\ GateOK /\ ChainWhole
  BY DEF GateIInv
<1> HIDE DEF h, L, nal
<1>6. \A i \in DOMAIN stream : AfterSps(i) /\ h # "idr" => AfterSps(i)'
  BY <1>2, <1>3, <1>a DEF AfterSps
<1>7. GateKnows'
  <2>1. \A j \in DOMAIN stream' : stream'[j].by <= starts'
    BY <1>a, <1>b, <1>1, <1>2, <1>3 DEF GateKnows
  <2>2. stage' = 1 => \E i \in DOMAIN stream' : AfterSps(i)'
    <3>1. CASE h = "sps"
      BY <1>a, <1>b, <1>2, <1>3, <3>1 DEF AfterSps
    <3>2. CASE h # "sps"
      BY <1>a, <1>b, <1>3, <1>4, <1>6, <3>2 DEF GateKnows
    <3> QED
      BY <3>1, <3>2
  <2>3. stage' = 2 => \E i \in DOMAIN stream' :
              AfterSps(i)' /\ \E m \in i + 1 .. Len(stream') :
                                 stream'[m].kind = "pps"
    <3>1. CASE h = "pps"
      <4>1. PICK i \in DOMAIN stream : AfterSps(i)
        BY <1>a, <1>b, <1>4, <3>1 DEF GateKnows
      <4> QED
        BY <1>a, <1>b, <1>3, <1>6, <3>1, <4>1
    <3>2. CASE h = "sei" /\ stage = 2
      <4>1. PICK i \in DOMAIN stream :
              AfterSps(i) /\ \E m \in i + 1 .. Len(stream) : stream[m].kind = "pps"
        BY <1>b, <3>2 DEF GateKnows
      <4>2. PICK m \in i + 1 .. Len(stream) : stream[m].kind = "pps"
        BY <4>1
      <4>3. m \in i + 1 .. Len(stream') /\ stream'[m].kind = "pps"
        BY <1>a, <1>b, <1>3, <4>2
      <4> QED
        BY <1>a, <1>b, <1>3, <1>6, <3>2, <4>1, <4>3
    <3> QED
      BY <1>a, <1>b, <1>4, <3>1, <3>2
  <2>4. chain_open' => \E i \in DOMAIN stream' :
              stream'[i].kind = "idr" /\ stream'[i].by = starts'
    <3>1. CASE h = "idr"
      BY <1>a, <1>2, <1>3, <3>1
    <3>2. CASE chain_open
      <4>1. PICK i \in DOMAIN stream :
              stream[i].kind = "idr" /\ stream[i].by = starts
        BY <1>b, <3>2 DEF GateKnows
      <4> QED
        BY <1>a, <1>2, <1>3, <4>1
    <3> QED
      BY <1>2, <3>1, <3>2
  <2> QED
    BY <1>1, <1>2, <2>1, <2>2, <2>3, <2>4 DEF GateKnows
<1>8. WritingLast'
  BY <1>a, <1>b, <1>1, <1>2, <1>3, PipeAssumption DEF WritingLast
<1>9. GateOK'
  <2>1. ASSUME NEW j \in DOMAIN stream, stream[j].kind = "idr"
        PROVE  \E i \in 1 .. j - 1 : Opens(i, j)'
    <3>1. PICK i \in 1 .. j - 1 : Opens(i, j)
      BY <1>b, <2>1 DEF GateOK
    <3>2. i \in DOMAIN stream /\ j \in Nat
      BY <1>3, <3>1
    <3>3. \A m \in i .. j : m \in DOMAIN stream /\ stream'[m] = stream[m]
      BY <1>3, <2>1, <3>2
    <3>4. Opens(i, j)'
      BY <3>1, <3>2, <3>3 DEF Opens
    <3> QED
      BY <3>4
  <2>2. ASSUME NEW j \in DOMAIN stream, stream[j].kind = "p"
        PROVE  \E i \in 1 .. j - 1 : stream'[i].kind = "idr"
                                       /\ stream'[i].by = stream'[j].by
    <3>1. PICK i \in 1 .. j - 1 :
            stream[i].kind = "idr" /\ stream[i].by = stream[j].by
      BY <1>b, <2>2 DEF GateOK
    <3> QED
      BY <1>3, <3>1
  <2>3. ASSUME NEW k \in {L}, h = "idr"
        PROVE  \E i \in 1 .. k - 1 : Opens(i, k)'
    <3>1. PICK i \in DOMAIN stream :
            AfterSps(i) /\ \E m \in i + 1 .. Len(stream) : stream[m].kind = "pps"
      BY <1>a, <1>b, <1>4, <2>3 DEF GateKnows
    <3>2. PICK p \in i + 1 .. Len(stream) : stream[p].kind = "pps"
      BY <3>1
    <3>0. k = L /\ k = Len(stream) + 1 /\ Len(stream) \in Nat
      BY <1>a, <1>3
    <3>3. i < k /\ stream'[i].kind = "sps"
      BY <3>0, <1>a, <1>3, <3>1 DEF AfterSps
    <3>4. p \in i + 1 .. k - 1 /\ stream'[p].kind = "pps"
      BY <3>0, <1>a, <1>3, <3>1, <3>2
    <3>5. ASSUME NEW m \in i .. k - 1
          PROVE  stream'[m].by = stream'[k].by /\ stream'[m].kind # "idr"
      <4>1. m \in i .. Len(stream) /\ m \in DOMAIN stream
        BY <3>0, <1>a, <1>3, <3>1
      <4> QED
        BY <3>0, <1>a, <1>3, <3>1, <4>1 DEF AfterSps
    <3>6. Opens(i, k)'
      BY <3>0, <1>a, <1>3, <2>3, <3>3, <3>4, <3>5 DEF Opens
    <3>7. i \in 1 .. k - 1
      BY <3>0, <1>a, <1>3, <3>1
    <3> QED
      BY <3>6, <3>7
  <2>4. ASSUME NEW j \in DOMAIN stream'
        PROVE  /\ stream'[j].kind = "idr" => \E i \in 1 .. j - 1 : Opens(i, j)'
               /\ stream'[j].kind = "p" =>
                    \E i \in 1 .. j - 1 : stream'[i].kind = "idr"
                                            /\ stream'[i].by = stream'[j].by
    <3>1. CASE j = L
      BY <1>1, <1>a, <2>3, <3>1
    <3>2. CASE j \in DOMAIN stream
      BY <1>3, <2>1, <2>2, <3>2
    <3> QED
      BY <1>a, <1>3, <3>1, <3>2
  <2> QED
    BY <2>4 DEF GateOK
<1>10. ChainWhole'
  <2>1. ASSUME NEW i \in DOMAIN stream, i # Len(stream)
        PROVE  \/ stream'[i].kind = "p"
               \/ stream'[i].put = NalLen[stream'[i].kind]
               \/ i < L /\ stream'[i + 1].by # stream'[i].by
    BY <1>a, <1>b, <1>3, <2>1 DEF ChainWhole
  <2>2. ASSUME Len(stream) \in DOMAIN stream
        PROVE  \/ stream'[Len(stream)].kind = "p"
               \/ stream'[Len(stream)].put = NalLen[stream'[Len(stream)].kind]
               \/ stream'[L].by # stream'[Len(stream)].by
    <3>1. stream'[Len(stream)] = stream[Len(stream)] /\ stream'[L].by = starts
      BY <1>3, <1>a, <2>2
    <3>2. Len(stream) \in Nat /\ ~(Len(stream) < Len(stream))
      BY <1>3
    <3>3. \/ stream[Len(stream)].kind = "p"
          \/ stream[Len(stream)].put = NalLen[stream[Len(stream)].kind]
          \/ stream[Len(stream)].by # starts
      BY <1>b, <1>1, <2>2, <3>2 DEF ChainWhole
    <3> QED
      BY <3>1, <3>3
  <2>3. ASSUME NEW i \in DOMAIN stream'
        PROVE  \/ stream'[i].kind = "p"
               \/ stream'[i].put = NalLen[stream'[i].kind]
               \/ i = L
               \/ i < L /\ stream'[i + 1].by # stream'[i].by
    <3>1. CASE i = Len(stream)
      <4>1. i \in DOMAIN stream /\ L = i + 1 /\ i < L
        BY <1>a, <1>3, <3>1
      <4> QED
        BY <2>2, <3>1, <4>1
    <3>2. CASE i \in DOMAIN stream /\ i # Len(stream)
      BY <2>1, <3>2
    <3> QED
      BY <1>a, <1>3, <3>1, <3>2
  <2> QED
    BY <1>2, <1>3, <2>3 DEF ChainWhole
<1> QED
  BY <1>5, <1>7, <1>8, <1>9, <1>10 DEF GateIInv

\* The gate only looks at the kinds and incarnations in the stream.
LEMMA GateLooks ==
    ASSUME GateKnows, GateOK, NEW L \in Nat,
           DOMAIN stream = 1 .. L, Len(stream) = L,
           DOMAIN stream' = 1 .. L, Len(stream') = L,
           \A j \in 1 .. L : /\ stream'[j].kind = stream[j].kind
                             /\ stream'[j].by = stream[j].by,
           UNCHANGED <<starts, alive, stage, chain_open>>
    PROVE  GateKnows' /\ GateOK'
<1>1. ASSUME NEW i \in 1 .. L, AfterSps(i)
      PROVE  AfterSps(i)'
  <2>1. \A m \in i .. L : m \in 1 .. L
    OBVIOUS
  <2> QED
    BY <1>1, <2>1 DEF AfterSps
<1>2. ASSUME NEW i \in 1 .. L, NEW j \in 1 .. L, Opens(i, j)
      PROVE  Opens(i, j)'
  <2>1. \A m \in i .. j : m \in 1 .. L
    OBVIOUS
  <2>2. \A m \in i + 1 .. j - 1 : m \in i .. j
    OBVIOUS
  <2>3. \A m \in i .. j - 1 : m \in i .. j
    OBVIOUS
  <2> QED
    BY <1>2, <2>1, <2>2, <2>3 DEF Opens
<1>3. GateKnows'
  <2>1. (\A j \in DOMAIN stream : stream[j].by <= starts)'
    BY DEF GateKnows
  <2>2. stage = 1 => \E i \in 1 .. L : AfterSps(i)'
    BY <1>1 DEF GateKnows
  <2>3. stage = 2 => \E i \in 1 .. L :
              AfterSps(i)' /\ \E m \in i + 1 .. L : stream'[m].kind = "pps"
    <3>1. \A i \in 1 .. L : \A m \in i + 1 .. L : m \in 1 .. L
      OBVIOUS
    <3> QED
      BY <1>1, <3>1 DEF GateKnows
  <2>4. chain_open => \E i \in 1 .. L : stream'[i].kind = "idr" /\ stream'[i].by = starts
    BY DEF GateKnows
  <2>5. ~alive => stage = 0 /\ ~chain_open
    BY DEF GateKnows
  <2> QED
    BY <2>1, <2>2, <2>3, <2>4, <2>5 DEF GateKnows
<1>4. GateOK'
  <2>1. \A j \in 1 .. L : \A i \in 1 .. j - 1 : i \in 1 .. L
    OBVIOUS
  <2>2. ASSUME NEW j \in 1 .. L
        PROVE  /\ stream'[j].kind = "idr" => \E i \in 1 .. j - 1 : Opens(i, j)'
               /\ stream'[j].kind = "p" =>
                    \E i \in 1 .. j - 1 : stream'[i].kind = "idr"
                                            /\ stream'[i].by = stream'[j].by
    BY <1>2, <2>1 DEF GateOK
  <2> QED
    BY <2>2 DEF GateOK
<1> QED
  BY <1>3, <1>4

\* A write of n cells, counted on the last NAL of the stream, which is
\* otherwise as it was.
LEMMA WriteKeeps ==
    ASSUME GateIInv, WriteChain
    PROVE  GateIInv'
<1> DEFINE len == NalLen[Head(todo)]
           n == Written(len - off)
           L == Len(stream)
<1>1. FifoTypeOK /\ GateKnows /\ WritingLast /\ GateOK /\ ChainWhole
  BY DEF GateIInv
<1>2. /\ writing = TRUE /\ alive = TRUE /\ todo \in Seq(Kinds) /\ todo # <<>>
      /\ Head(todo) \in Kinds /\ stream # <<>> /\ off \in Nat
      /\ stream[L].kind = Head(todo) /\ stream[L].put = off /\ stream[L].by = starts
      /\ off < len /\ len \in Nat
  <2>1. writing /\ alive
    BY DEF WriteChain
  <2>2. writing \in BOOLEAN /\ alive \in BOOLEAN /\ todo \in Seq(Kinds) /\ off \in Nat
    BY <1>1 DEF FifoTypeOK
  <2>3. /\ todo # <<>> /\ stream # <<>> /\ off < len
        /\ stream[L].kind = Head(todo) /\ stream[L].put = off /\ stream[L].by = starts
    BY <1>1, <2>1 DEF WritingLast
  <2>4. Head(todo) \in Kinds
    BY <2>2, <2>3
  <2>5. len \in Nat
    BY <2>4, PipeAssumption
  <2> QED
    BY <2>1, <2>2, <2>3, <2>4, <2>5
<1>3. /\ n \in Nat /\ n > 0 /\ n <= len - off /\ Len(pipe) + n <= PipeSize
      /\ pipe' = pipe \o CellsOf(L, off, n)
      /\ stream' = [stream EXCEPT ![L].put = @ + n]
      /\ IF off + n < len
           THEN off' = off + n /\ UNCHANGED <<writing, todo>>
           ELSE off' = 0 /\ writing' = FALSE /\ todo' = Tail(todo)
      /\ UNCHANGED <<starts, alive, stage, chain_open, pn, recs, jumps, severed, purged>>
  <2>1. /\ n > 0
        /\ pipe' = pipe \o CellsOf(L, off, n)
        /\ stream' = [stream EXCEPT ![L].put = @ + n]
        /\ IF off + n < len
             THEN off' = off + n /\ UNCHANGED <<writing, todo>>
             ELSE off' = 0 /\ writing' = FALSE /\ todo' = Tail(todo)
        /\ UNCHANGED <<starts, alive, stage, chain_open, pn, recs, jumps, severed, purged>>
    BY DEF WriteChain, gate, jumped
  <2>2. n \in Nat /\ n <= len - off /\ Len(pipe) + n <= PipeSize
    <3>1. len - off \in Nat
      BY <1>2
    <3> HIDE DEF len
    <3> QED
      BY <1>1, <3>1, WrittenFits
  <2> QED
    BY <2>1, <2>2
<1>4. /\ L \in Nat /\ L \in 1 .. L /\ DOMAIN stream = 1 .. L
      /\ stream \in Seq(Nal) /\ pipe \in Seq(Cell) /\ Len(pipe) <= PipeSize
  BY <1>1, <1>2 DEF FifoTypeOK
<1> HIDE DEF len, n, L
<1>5. stream[L] \in Nal /\ [stream[L] EXCEPT !.put = @ + n] \in Nal
  <2>1. stream[L] \in Nal
    BY <1>4
  <2>2. n \in Nat
    BY <1>3
  <2> QED
    BY <2>1, <2>2 DEF Nal
<1>6. /\ stream' \in Seq(Nal) /\ Len(stream') = L /\ DOMAIN stream' = 1 .. L
      /\ \A j \in 1 .. L : j # L => stream'[j] = stream[j]
      /\ stream'[L] = [stream[L] EXCEPT !.put = @ + n]
  BY <1>3, <1>4, <1>5 DEF L
<1>7. /\ \A j \in 1 .. L : stream'[j].kind = stream[j].kind /\ stream'[j].by = stream[j].by
      /\ stream'[L].put = off + n
  BY <1>2, <1>5, <1>6 DEF Nal
<1>8. Cell' = Cell
  BY <1>6 DEF Cell, L
<1>9. pipe' \in Seq(Cell) /\ Len(pipe') <= PipeSize
  <2>1. CellsOf(L, off, n) \in Seq(Cell) /\ Len(CellsOf(L, off, n)) = n
    <3>1. Cell = [nal : 1 .. L, k : Nat]
      BY DEF Cell, L
    <3> QED
      BY <1>2, <1>3, <1>4, <3>1, CellsType
  <2> QED
    BY <1>3, <1>4, <2>1, Joined
<1>a. ASSUME off + n = len
      PROVE  writing' = FALSE /\ off' = 0 /\ todo' \in Seq(Kinds)
  <2>1. ~(off + n < len)
    BY <1>2, <1>3, <1>a
  <2>2. Tail(todo) \in Seq(Kinds)
    BY <1>2
  <2> QED
    BY <1>3, <2>1, <2>2
<1>b. ASSUME off + n # len
      PROVE  /\ writing' = TRUE /\ off' = off + n /\ off' < len /\ off' \in Nat
             /\ todo' = todo /\ todo' \in Seq(Kinds)
  <2>1. off + n < len /\ off + n \in Nat
    BY <1>2, <1>3, <1>b
  <2> QED
    BY <1>2, <1>3, <2>1
<1>10. FifoTypeOK'
  <2>1. CASE off + n = len
    BY <1>1, <1>3, <1>6, <1>8, <1>9, <1>a, <2>1 DEF FifoTypeOK
  <2>2. CASE off + n # len
    <3>1. writing' = TRUE /\ off' \in Nat /\ todo' \in Seq(Kinds)
      BY <1>b, <2>2
    <3> QED
      BY <1>1, <1>3, <1>6, <1>8, <1>9, <3>1 DEF FifoTypeOK
  <2> QED
    BY <2>1, <2>2
<1>11. GateKnows' /\ GateOK'
  BY <1>1, <1>3, <1>4, <1>6, <1>7, GateLooks DEF L
<1>12. WritingLast'
  <2>1. CASE off + n = len
    BY <1>a, <2>1 DEF WritingLast
  <2>2. CASE off + n # len
    <3>1. writing' = TRUE /\ off' = off + n /\ off' < len /\ todo' = todo
      BY <1>b, <2>2
    <3>2. stream' # <<>> /\ Len(stream') = L
      BY <1>4, <1>6
    <3>3. stream'[L].by = starts /\ stream'[L].kind = Head(todo)
      BY <1>2, <1>4, <1>7
    <3> QED
      BY <1>2, <1>3, <1>7, <3>1, <3>2, <3>3 DEF WritingLast, len
  <2> QED
    BY <2>1, <2>2
<1>14. ChainWhole'
  <2>1. ASSUME NEW i \in 1 .. L, i # L
        PROVE  \/ stream'[i].kind = "p"
               \/ stream'[i].put = NalLen[stream'[i].kind]
               \/ i < L /\ stream'[i + 1].by # stream'[i].by
    <3>1. i + 1 \in 1 .. L
      BY <1>4, <2>1
    <3>2. stream'[i] = stream[i] /\ stream'[i + 1].by = stream[i + 1].by
      BY <1>6, <1>7, <2>1, <3>1
    <3> QED
      BY <1>1, <1>4, <2>1, <3>2 DEF ChainWhole, L
  <2>2. stream'[L].put = NalLen[stream'[L].kind] \/ writing'
    <3>1. stream'[L].kind = Head(todo)
      BY <1>2, <1>4, <1>7
    <3>2. CASE off + n = len
      BY <1>7, <3>1, <3>2 DEF len
    <3>3. CASE off + n # len
      BY <1>b, <3>3
    <3> QED
      BY <3>2, <3>3
  <2> QED
    BY <1>4, <1>6, <2>1, <2>2 DEF ChainWhole
<1> QED
  BY <1>10, <1>11, <1>12, <1>14 DEF GateIInv

\* A slice joins the stream only when something of it was written.
LEMMA SliceKeeps ==
    ASSUME GateIInv, WriteSlice
    PROVE  GateIInv'
<1> DEFINE n == Written(NalLen["p"])
           L == Len(stream) + 1
           nal == [kind |-> "p", put |-> n, by |-> starts]
<1>1. FifoTypeOK /\ GateKnows /\ WritingLast /\ GateOK /\ ChainWhole
  BY DEF GateIInv
<1>2. /\ alive /\ todo \in Seq(Kinds) /\ todo # <<>> /\ ~writing /\ chain_open
      /\ starts \in Nat /\ "p" \in Kinds
      /\ todo' = Tail(todo) /\ todo' \in Seq(Kinds)
      /\ UNCHANGED <<starts, alive, stage, chain_open, writing, off, pn, recs,
                     jumps, severed, purged>>
  BY <1>1 DEF WriteSlice, AtNal, Dropped, FifoTypeOK, gate, jumped, Kinds
<1>3. n \in Nat /\ Len(pipe) + n <= PipeSize
  <2>1. NalLen["p"] \in Nat
    BY <1>2, PipeAssumption
  <2> QED
    BY <1>1, <2>1, WrittenFits
<1>4. CASE n = 0
  <2>1. UNCHANGED <<pipe, stream>> /\ Cell' = Cell
    BY <1>4 DEF WriteSlice, Cell
  <2>2. FifoTypeOK'
    BY <1>1, <1>2, <2>1 DEF FifoTypeOK
  <2>3. (GateKnows /\ WritingLast /\ GateOK /\ ChainWhole)'
    BY <1>1, <1>2, <2>1, GateFrame DEF Gate
  <2> QED
    BY <2>2, <2>3 DEF GateIInv
<1>5. CASE n # 0
  <2>1. /\ pipe' = pipe \o CellsOf(L, 0, n)
        /\ stream' = Append(stream, nal) /\ nal \in Nal
    BY <1>2, <1>3, <1>5 DEF WriteSlice, Nal
  <2>2. /\ stream' \in Seq(Nal)
        /\ Len(stream') = L /\ Len(stream) \in Nat
        /\ DOMAIN stream = 1 .. Len(stream)
        /\ DOMAIN stream' = 1 .. L
        /\ \A j \in DOMAIN stream : stream'[j] = stream[j]
        /\ stream'[L] = nal
        /\ pipe \in Seq(Cell') /\ purged \subseteq Cell'
    BY <1>1, <2>1, Appended
  <2>3. /\ stream'[L].kind = "p" /\ stream'[L].by = starts
        /\ L = Len(stream) + 1 /\ L \in Nat
    BY <2>2
  <2> HIDE DEF n, L, nal
  <2>4. pipe' \in Seq(Cell') /\ Len(pipe') <= PipeSize
    <3>1. CellsOf(L, 0, n) \in Seq(Cell') /\ Len(CellsOf(L, 0, n)) = n
      <4>1. Cell' = [nal : 1 .. L, k : Nat]
        BY <2>2 DEF Cell
      <4>2. L \in 1 .. L
        BY <2>2, <2>3
      <4> QED
        BY <1>3, <2>3, <4>1, <4>2, CellsType, 0 \in Nat
    <3>2. Len(pipe \o CellsOf(L, 0, n)) = Len(pipe) + n
          /\ pipe \o CellsOf(L, 0, n) \in Seq(Cell')
      BY <2>2, <3>1, Joined
    <3> QED
      BY <1>3, <2>1, <3>2
  <2>5. FifoTypeOK'
    BY <1>1, <1>2, <2>2, <2>4 DEF FifoTypeOK
  <2>6. GateKnows'
    <3>1. \A j \in DOMAIN stream' : stream'[j].by <= starts'
      BY <1>1, <1>2, <2>2, <2>3 DEF GateKnows
    <3>2. ASSUME NEW i \in DOMAIN stream, AfterSps(i)
          PROVE  AfterSps(i)'
      <4>1. \A m \in i .. Len(stream') : m \in i .. Len(stream) \/ m = L
        BY <2>2, <2>3
      <4>2. \A m \in i .. Len(stream) : m \in DOMAIN stream
        BY <2>2
      <4> QED
        BY <1>2, <2>2, <2>3, <3>2, <4>1, <4>2 DEF AfterSps
    <3>3. stage = 2 => \E i \in DOMAIN stream' :
                AfterSps(i)' /\ \E m \in i + 1 .. Len(stream') :
                                   stream'[m].kind = "pps"
      <4>1. SUFFICES ASSUME stage = 2
                     PROVE  \E i \in DOMAIN stream' :
                              AfterSps(i)' /\ \E m \in i + 1 .. Len(stream') :
                                                 stream'[m].kind = "pps"
        OBVIOUS
      <4>2. PICK i \in DOMAIN stream :
              AfterSps(i) /\ \E m \in i + 1 .. Len(stream) : stream[m].kind = "pps"
        BY <1>1, <4>1 DEF GateKnows
      <4>3. PICK m \in i + 1 .. Len(stream) : stream[m].kind = "pps"
        BY <4>2
      <4>4. m \in i + 1 .. Len(stream') /\ stream'[m].kind = "pps"
        BY <2>2, <2>3, <4>3
      <4> QED
        BY <2>2, <2>3, <3>2, <4>2, <4>4
    <3>4. \E i \in DOMAIN stream' : stream'[i].kind = "idr" /\ stream'[i].by = starts'
      <4>1. PICK i \in DOMAIN stream : stream[i].kind = "idr" /\ stream[i].by = starts
        BY <1>1, <1>2 DEF GateKnows
      <4> QED
        BY <1>2, <2>2, <2>3, <4>1
    <3>5. stage = 1 => \E i \in DOMAIN stream' : AfterSps(i)'
      BY <1>1, <2>2, <2>3, <3>2 DEF GateKnows
    <3> QED
      BY <1>2, <3>1, <3>3, <3>4, <3>5 DEF GateKnows
  <2>7. WritingLast'
    BY <1>2 DEF WritingLast
  <2>8. GateOK'
    <3>1. ASSUME NEW j \in DOMAIN stream, stream[j].kind = "idr"
          PROVE  \E i \in 1 .. j - 1 : Opens(i, j)'
      <4>1. PICK i \in 1 .. j - 1 : Opens(i, j)
        BY <1>1, <3>1 DEF GateOK
      <4>2. i \in DOMAIN stream /\ j \in Nat
        BY <2>2, <4>1
      <4>3. \A m \in i .. j : m \in DOMAIN stream /\ stream'[m] = stream[m]
        BY <2>2, <3>1, <4>2
      <4>4. Opens(i, j)'
        BY <4>1, <4>2, <4>3 DEF Opens
      <4> QED
        BY <4>4
    <3>2. ASSUME NEW j \in DOMAIN stream, stream[j].kind = "p"
          PROVE  \E i \in 1 .. j - 1 : stream'[i].kind = "idr"
                                         /\ stream'[i].by = stream'[j].by
      <4>1. PICK i \in 1 .. j - 1 :
              stream[i].kind = "idr" /\ stream[i].by = stream[j].by
        BY <1>1, <3>2 DEF GateOK
      <4> QED
        BY <2>2, <4>1
    <3>3. \E i \in 1 .. L - 1 : stream'[i].kind = "idr"
                                  /\ stream'[i].by = stream'[L].by
      <4>1. PICK i \in DOMAIN stream : stream[i].kind = "idr" /\ stream[i].by = starts
        BY <1>1, <1>2 DEF GateKnows
      <4> QED
        BY <2>2, <2>3, <4>1
    <3>4. ASSUME NEW j \in DOMAIN stream'
          PROVE  /\ stream'[j].kind = "idr" => \E i \in 1 .. j - 1 : Opens(i, j)'
                 /\ stream'[j].kind = "p" =>
                      \E i \in 1 .. j - 1 : stream'[i].kind = "idr"
                                              /\ stream'[i].by = stream'[j].by
      <4>1. CASE j = L
        BY <2>3, <3>3, <4>1
      <4>2. CASE j \in DOMAIN stream
        BY <2>2, <3>1, <3>2, <4>2
      <4> QED
        BY <2>2, <2>3, <4>1, <4>2
    <3> QED
      BY <3>4 DEF GateOK
  <2>9. ChainWhole'
    <3>1. ASSUME NEW i \in DOMAIN stream
          PROVE  \/ stream'[i].kind = "p"
                 \/ stream'[i].put = NalLen[stream'[i].kind]
                 \/ i < L /\ stream'[i + 1].by # stream'[i].by
      <4>1. i < L /\ stream'[i] = stream[i]
        BY <2>2, <2>3
      <4>2. CASE i = Len(stream)
        <5>1. stream'[i + 1].by = starts
          BY <2>3, <4>2
        <5> QED
          BY <1>1, <1>2, <4>1, <4>2, <5>1 DEF ChainWhole
      <4>3. CASE i # Len(stream)
        <5>1. i + 1 \in DOMAIN stream /\ stream'[i + 1] = stream[i + 1]
          BY <2>2, <4>3
        <5> QED
          BY <1>1, <4>1, <4>3, <5>1 DEF ChainWhole
      <4> QED
        BY <4>2, <4>3
    <3>2. ASSUME NEW i \in DOMAIN stream', i # L
          PROVE  i \in DOMAIN stream
      BY <2>2, <2>3, <3>2
    <3> QED
      BY <2>2, <2>3, <3>1, <3>2 DEF ChainWhole
  <2> QED
    BY <2>5, <2>6, <2>7, <2>8, <2>9 DEF GateIInv
<1> QED
  BY <1>4, <1>5
-----------------------------------------------------------------------------
(***************************************************************************)
(* The purger and the server take from the front of the pipe               *)
(***************************************************************************)
LEMMA SampleKeeps ==
    ASSUME GateIInv, PurgeSample
    PROVE  GateIInv'
<1>1. pipe \in Seq(Cell) /\ Len(pipe) <= PipeSize /\ Len(pipe) \in Nat
  BY DEF GateIInv, FifoTypeOK
<1>2. pn' \in PurgeTrim + 1 .. PipeSize
  BY <1>1, PipeAssumption DEF PurgeSample
<1>3. pipe' = SubSeq(pipe, 0 + 1, Len(pipe))
  BY <1>1 DEF PurgeSample
<1>4. purged' \subseteq purged \cup {pipe[i] : i \in 1 .. 0}
  BY DEF PurgeSample, history
<1>5. UNCHANGED <<starts, alive, emitter, recs, stream, jumped>>
  BY DEF PurgeSample, history
<1> QED
  BY <1>1, <1>2, <1>3, <1>4, <1>5, PipeFrame

LEMMA PurgeKeeps ==
    ASSUME GateIInv, NEW held, PurgeRead(held)
    PROVE  GateIInv'
<1> DEFINE r == Lesser(Lesser(pn - PurgeTrim, DrainBuf), Len(pipe))
<1>1. /\ pipe \in Seq(Cell) /\ Len(pipe) \in Nat
      /\ pn \in PurgeTrim + 1 .. PipeSize /\ pn > PurgeTrim
  BY PipeAssumption DEF GateIInv, FifoTypeOK, PurgeRead
<1>2. r \in 0 .. Len(pipe)
  BY <1>1, PipeAssumption DEF Lesser
<1>3. /\ pipe' = SubSeq(pipe, r + 1, Len(pipe))
      /\ purged' \subseteq purged \cup {pipe[i] : i \in 1 .. r}
      /\ pn' = IF r = 0 \/ pn - r <= PurgeTrim THEN 0 ELSE pn - r
      /\ UNCHANGED <<starts, alive, emitter, recs, stream, jumped>>
  BY DEF PurgeRead
<1> HIDE DEF r
<1>4. pn' = 0 \/ pn' \in PurgeTrim + 1 .. PipeSize
  BY <1>1, <1>2, <1>3, PipeAssumption
<1> QED
  BY <1>2, <1>3, <1>4, PipeFrame

\* createNew never reads past its buffer.
Drained == drained \in Seq([nal : Nat, k : Nat]) /\ Len(drained) <= DrainCap

LEMMA DrainedStep ==
    ASSUME GateIInv, Drained, [Next]_vars
    PROVE  Drained'
<1>1. CASE DrainRead
  <2> DEFINE n == Lesser(Len(pipe), DrainCap - Len(drained))
  <2>1. Cell \subseteq [nal : Nat, k : Nat]
    BY DEF Cell
  <2>2. pipe \in Seq([nal : Nat, k : Nat])
    <3>1. pipe \in Seq(Cell)
      BY DEF GateIInv, FifoTypeOK
    <3> QED
      BY <2>1, <3>1, Wider
  <2>3. n \in 0 .. Len(pipe) /\ Len(drained) + n <= DrainCap
    <3>1. Len(pipe) \in Nat /\ Len(drained) \in Nat
      BY <2>2 DEF Drained
    <3> QED
      BY <3>1, SourceAssumption DEF Drained, Lesser
  <2>4. drained' = drained \o SubSeq(pipe, 1, n)
    BY <1>1 DEF DrainRead
  <2> HIDE DEF n
  <2>5. /\ SubSeq(pipe, 1, n) \in Seq([nal : Nat, k : Nat])
        /\ Len(SubSeq(pipe, 1, n)) = n
    <3> DEFINE C == [nal : Nat, k : Nat]
    <3>1. pipe \in Seq(C)
      BY <2>2
    <3> HIDE DEF C
    <3>2. SubSeq(pipe, 1, n) \in Seq(C) /\ Len(SubSeq(pipe, 1, n)) = n
      BY <2>3, <3>1, First
    <3> QED
      BY <3>2 DEF C
  <2> QED
    BY <2>3, <2>4, <2>5, Joined DEF Drained
<1>2. CASE UNCHANGED drained \/ drained' = <<>>
  <2>1. <<>> \in Seq([nal : Nat, k : Nat]) /\ Len(<<>>) <= DrainCap
    BY SourceAssumption
  <2> QED
    BY <1>2, <2>1 DEF Drained
<1>3. ~DrainRead => UNCHANGED drained \/ drained' = <<>>
  BY DEF Next, ProducerAction, source, Open, DrainStep, DrainScan, ServeStep,
         ServePending, ServeFifo, ServeEnd, Close, Closed, vars
<1> QED
  BY <1>1, <1>2, <1>3

LEMMA ReadKeeps ==
    ASSUME GateIInv, Drained, DrainRead \/ ServeFifo
    PROVE  GateIInv'
<1>1. pipe \in Seq(Cell) /\ Len(pipe) \in Nat
  BY DEF GateIInv, FifoTypeOK
<1>2. PICK n \in 0 .. Len(pipe) : pipe' = SubSeq(pipe, n + 1, Len(pipe))
  <2>1. CASE DrainRead
    <3>1. Lesser(Len(pipe), DrainCap - Len(drained)) \in 0 .. Len(pipe)
      <4>1. Len(drained) \in Nat
        BY DEF Drained
      <4> QED
        BY <1>1, <4>1, SourceAssumption DEF Drained, Lesser
    <3> QED
      BY <2>1, <3>1 DEF DrainRead
  <2>2. CASE ServeFifo
    <3>1. Lesser(FrameMax, Len(pipe)) \in 0 .. Len(pipe)
      BY <1>1, SourceAssumption DEF Lesser
    <3> QED
      BY <2>2, <3>1 DEF ServeFifo
  <2> QED
    BY <2>1, <2>2
<1>3. UNCHANGED <<starts, alive, emitter, pn, recs, stream, jumped, purged>>
  BY DEF DrainRead, ServeFifo, producer, history
<1>4. pn' = 0 \/ pn' \in PurgeTrim + 1 .. PipeSize
  BY <1>3 DEF GateIInv, FifoTypeOK
<1> QED
  BY <1>2, <1>3, <1>4, PipeFrame

\* The server is done with the fifo: what it held is gone if nobody writes.
LEMMA ClosedKeeps ==
    ASSUME GateIInv, Closed
    PROVE  GateIInv'
<1>1. pipe \in Seq(Cell) /\ Len(pipe) \in Nat
  BY DEF GateIInv, FifoTypeOK
<1>2. PICK n \in 0 .. Len(pipe) : pipe' = SubSeq(pipe, n + 1, Len(pipe))
  <2>1. CASE alive
    <3>1. pipe' = SubSeq(pipe, 0 + 1, Len(pipe))
      BY <1>1, <2>1 DEF Closed
    <3> QED
      BY <1>1, <3>1
  <2>2. CASE ~alive
    <3>1. pipe' = SubSeq(pipe, Len(pipe) + 1, Len(pipe))
      BY <1>1, <2>2 DEF Closed
    <3> QED
      BY <1>1, <3>1
  <2> QED
    BY <2>1, <2>2
<1>3. UNCHANGED <<starts, alive, emitter, pn, recs, stream, jumped>> /\ purged' = {}
  BY DEF Closed, producer
<1>4. pn' = 0 \/ pn' \in PurgeTrim + 1 .. PipeSize
  BY <1>3 DEF GateIInv, FifoTypeOK
<1> QED
  BY <1>2, <1>3, <1>4, PipeFrame

LEMMA IdleKeeps ==
    ASSUME GateIInv, UNCHANGED <<producer, pipe, history>>
    PROVE  GateIInv'
<1> USE DEF producer, history, emitter, gate, jumped
<1>1. FifoTypeOK'
  BY DEF GateIInv, FifoTypeOK, Cell
<1>2. (GateKnows /\ WritingLast /\ GateOK /\ ChainWhole)'
  BY GateFrame DEF GateIInv, Gate
<1> QED
  BY <1>1, <1>2 DEF GateIInv
-----------------------------------------------------------------------------
(***************************************************************************)
(* The theorems                                                            *)
(***************************************************************************)
LEMMA GateInit == Init => GateIInv
<1> SUFFICES ASSUME Init PROVE GateIInv
  OBVIOUS
<1> USE DEF Init, FifoInit
<1>1. FifoTypeOK
  <2>1. /\ 0 \in 0 .. MaxStarts /\ 0 \in 0 .. MaxRecs /\ 0 \in 0 .. MaxJumps
        /\ 0 <= PipeSize
    BY PipeAssumption
  <2>2. /\ pipe \in Seq(Cell) /\ Len(pipe) = 0
        /\ todo \in Seq(Kinds) /\ stream \in Seq(Nal)
        /\ off \in Nat /\ stage \in 0 .. 2 /\ purged \subseteq Cell
    OBVIOUS
  <2> HIDE DEF Init, FifoInit
  <2>3. /\ starts = 0 /\ alive = FALSE /\ chain_open = FALSE /\ writing = FALSE
        /\ off = 0 /\ pn = 0 /\ recs = 0 /\ jumps = 0 /\ severed = FALSE
    BY DEF Init, FifoInit
  <2> QED
    BY <2>1, <2>2, <2>3 DEF FifoTypeOK
<1>2. GateKnows /\ WritingLast /\ GateOK /\ ChainWhole
  BY DEF GateKnows, WritingLast, GateOK, ChainWhole
<1> QED
  BY <1>1, <1>2 DEF GateIInv

LEMMA DrainedInit == Init => Drained
  BY SourceAssumption DEF Init, SourceInit, Drained

LEMMA GateStep == GateIInv /\ Drained /\ [Next]_vars => GateIInv' /\ Drained'
<1> SUFFICES ASSUME GateIInv, Drained, [Next]_vars PROVE GateIInv'
  BY DrainedStep
<1>1. CASE ProducerAction
  <2>1. CASE StartProducer
    BY <2>1, StartKeeps
  <2>2. CASE Deliver
    BY <2>2, DeliverKeeps
  <2>3. CASE EmitStep
    BY <2>3, DropKeeps, PassKeeps, WriteKeeps, SliceKeeps DEF EmitStep
  <2>4. CASE PurgeStep(spc # "closed")
    BY <2>4, SampleKeeps, PurgeKeeps DEF PurgeStep
  <2>5. CASE StopProducer(spc # "closed")
    BY <2>5, StopKeeps
  <2> QED
    BY <1>1, <2>1, <2>2, <2>3, <2>4, <2>5 DEF ProducerAction, ProducerStep
<1>2. CASE Open \/ DrainScan \/ ServePending
  BY <1>2, IdleKeeps DEF Open, DrainScan, ServePending
<1>3. CASE DrainRead \/ ServeFifo
  BY <1>3, ReadKeeps
<1>4. CASE ServeEnd \/ Close
  BY <1>4, ClosedKeeps DEF ServeEnd, Close
<1>5. CASE UNCHANGED vars
  BY <1>5, IdleKeeps DEF vars
<1> QED
  BY <1>1, <1>2, <1>3, <1>4, <1>5 DEF Next, DrainStep, ServeStep

\* The gate's state, the NAL being written and the stream agree after any
\* steps of the reader, the purger, the server, restarts and jumps.
THEOREM GateInvariant == Spec => []GateIInv
  BY GateInit, DrainedInit, GateStep, PTL DEF Spec

\* In every run no IDR reaches the fifo without its SPS and PPS before it,
\* and no P slice before the first IDR: emit_record's gate works for every
\* order of NAL units the ring may deliver.
THEOREM GateCorrect == Spec => []GateOK
<1>1. GateIInv => GateOK
  BY DEF GateIInv
<1> QED
  BY <1>1, GateInvariant, PTL

\* "Chain NALs must arrive whole": write_all_fd_wait never leaves one
\* behind unfinished, whatever the purger and the server do to the pipe,
\* unless the process dies in it.
THEOREM ChainNalsWhole == Spec => []ChainWhole
<1>1. GateIInv => ChainWhole
  BY DEF GateIInv
<1> QED
  BY <1>1, GateInvariant, PTL

\* The pipe never overflows, and nothing but what was written is in it.
THEOREM FifoTypeCorrect == Spec => []FifoTypeOK
<1>1. GateIInv => FifoTypeOK
  BY DEF GateIInv
<1> QED
  BY <1>1, GateInvariant, PTL
-----------------------------------------------------------------------------
(***************************************************************************)
(* The scan of createNew                                                   *)
(***************************************************************************)
\* Byte i of d is the start of a NAL of one of the kinds, by str.
HeaderAt(str, d, kinds, i) == d[i].k = 0 /\ str[d[i].nal].kind \in kinds

PpsKinds == {"pps", "badpps"}

\* From position l a complete chain begins in d, which ends at b, and there is no
\* slice in it.
ChainAt(str, d, l, b) ==
    /\ HeaderAt(str, d, {"sps"}, l) /\ HeaderAt(str, d, {"idr"}, b)
    /\ \E a \in l + 1 .. b - 1 : HeaderAt(str, d, PpsKinds, a)
    /\ \A j \in l .. b : ~HeaderAt(str, d, {"p"}, j)

\* What the scan knows after i bytes.
ScanKnows(d, acc, i) ==
    /\ acc \in [have : 0 .. 2, sps : Nat, keep : 1 .. Len(d) + 1, found : 0 .. 2]
    /\ acc.have # 0 => /\ acc.sps \in 1 .. i /\ acc.keep = acc.sps
                       /\ HeaderAt(stream, d, {"sps"}, acc.sps)
                       /\ \A j \in acc.sps .. i : ~HeaderAt(stream, d, {"p"}, j)
    /\ acc.have = 2 => \E a \in acc.sps + 1 .. i : HeaderAt(stream, d, PpsKinds, a)
    /\ acc.found = 2 => /\ acc.keep \in 1 .. i
                        /\ \E b \in acc.keep .. i : ChainAt(stream, d, acc.keep, b)

\* One look of the scan.
LEMMA ScanLooks ==
    ASSUME NEW d, Len(d) \in Nat, NEW acc, NEW i \in 1 .. Len(d), ScanKnows(d, acc, i - 1)
    PROVE  ScanKnows(d, ScanStep(d, acc, i), i)
<1> DEFINE next == ScanStep(d, acc, i)
           kind == KindOf(d[i])
<1>1. /\ acc \in [have : 0 .. 2, sps : Nat, keep : 1 .. Len(d) + 1, found : 0 .. 2]
      /\ acc.have # 0 => /\ acc.sps \in 1 .. i - 1 /\ acc.keep = acc.sps
                         /\ HeaderAt(stream, d, {"sps"}, acc.sps)
                         /\ \A j \in acc.sps .. i - 1 : ~HeaderAt(stream, d, {"p"}, j)
      /\ acc.have = 2 => \E a \in acc.sps + 1 .. i - 1 : HeaderAt(stream, d, PpsKinds, a)
      /\ acc.found = 2 => /\ acc.keep \in 1 .. i - 1
                          /\ \E b \in acc.keep .. i - 1 : ChainAt(stream, d, acc.keep, b)
  BY DEF ScanKnows
<1>2. \A kinds : HeaderAt(stream, d, kinds, i) <=> d[i].k = 0 /\ kind \in kinds
  BY DEF HeaderAt, KindOf
<1>3. CASE ~HeaderAt(stream, d, {"p"}, i) /\ next = acc
  BY <1>1, <1>3 DEF ScanKnows
<1>4. CASE d[i].k = 0 /\ kind = "sps"
  <2>1. next = [have |-> 1, sps |-> i, keep |-> i, found |-> 1]
    BY <1>4 DEF ScanStep
  <2>2. HeaderAt(stream, d, {"sps"}, i) /\ ~HeaderAt(stream, d, {"p"}, i)
    BY <1>2, <1>4
  <2> QED
    BY <2>1, <2>2 DEF ScanKnows
<1>5. CASE d[i].k = 0 /\ kind \in PpsKinds
  <2>1. next = [acc EXCEPT !.have = IF @ = 1 THEN 2 ELSE @]
    BY <1>5 DEF ScanStep, PpsKinds
  <2>2. HeaderAt(stream, d, PpsKinds, i) /\ ~HeaderAt(stream, d, {"p"}, i)
    BY <1>2, <1>5 DEF PpsKinds
  <2>3. CASE acc.have = 1
    <3>1. /\ next \in [have : 0 .. 2, sps : Nat, keep : 1 .. Len(d) + 1, found : 0 .. 2]
          /\ next.have = 2 /\ next.sps = acc.sps /\ next.keep = acc.keep
          /\ next.found = acc.found
      BY <1>1, <2>1, <2>3
    <3> HIDE DEF next
    <3>2. next.sps \in 1 .. i /\ i \in next.sps + 1 .. i
      BY <1>1, <2>3, <3>1
    <3>3. \A j \in next.sps .. i : ~HeaderAt(stream, d, {"p"}, j)
      BY <1>1, <2>2, <2>3, <3>1
    <3>4. next.found = 2 => /\ next.keep \in 1 .. i
                            /\ \E b \in next.keep .. i : ChainAt(stream, d, next.keep, b)
      BY <1>1, <3>1
    <3> QED
      BY <1>1, <2>2, <2>3, <3>1, <3>2, <3>3, <3>4 DEF ScanKnows, next
  <2>4. CASE acc.have # 1
    <3>1. next = acc
      BY <1>1, <2>1, <2>4
    <3> QED
      BY <1>3, <2>2, <3>1
  <2> QED
    BY <2>3, <2>4
<1>6. CASE d[i].k = 0 /\ kind = "idr" /\ acc.have = 2
  <2>1. next = [acc EXCEPT !.have = 0, !.keep = acc.sps, !.found = 2]
    BY <1>6 DEF ScanStep
  <2>2. HeaderAt(stream, d, {"idr"}, i) /\ ~HeaderAt(stream, d, {"p"}, i)
    BY <1>2, <1>6
  <2>3. acc.sps \in 1 .. i - 1 /\ acc.sps \in 1 .. Len(d) + 1
    BY <1>1, <1>6
  <2>4. ChainAt(stream, d, acc.sps, i)
    <3>1. \A j \in acc.sps .. i : ~HeaderAt(stream, d, {"p"}, j)
      BY <1>1, <1>6, <2>2
    <3> QED
      BY <1>1, <1>6, <2>2, <3>1 DEF ChainAt
  <2>5. /\ next \in [have : 0 .. 2, sps : Nat, keep : 1 .. Len(d) + 1, found : 0 .. 2]
        /\ next.have = 0 /\ next.keep = acc.sps
    <3>1. next = [have |-> 0, sps |-> acc.sps, keep |-> acc.sps, found |-> 2]
      BY <1>1, <2>1
    <3> HIDE DEF next
    <3>2. acc.sps \in Nat
      BY <2>3
    <3> QED
      BY <2>3, <3>1, <3>2
  <2> HIDE DEF next
  <2> QED
    BY <2>3, <2>4, <2>5 DEF ScanKnows, next
<1>7. CASE d[i].k = 0 /\ kind \notin PpsKinds \cup {"sps", "idr", "sei", "aud"}
  <2>1. next = [acc EXCEPT !.have = 0]
    BY <1>7 DEF ScanStep, PpsKinds
  <2>2. /\ next \in [have : 0 .. 2, sps : Nat, keep : 1 .. Len(d) + 1, found : 0 .. 2]
        /\ next.have = 0 /\ next.keep = acc.keep /\ next.found = acc.found
    BY <1>1, <2>1
  <2> HIDE DEF next
  <2> QED
    BY <1>1, <2>2 DEF ScanKnows, next
<1>8. CASE d[i].k # 0
  <2>1. next = acc /\ ~HeaderAt(stream, d, {"p"}, i)
    BY <1>2, <1>8 DEF ScanStep
  <2> QED
    BY <1>3, <2>1
<1>9. CASE d[i].k = 0 /\ (kind \in {"sei", "aud"} \/ (kind = "idr" /\ acc.have # 2))
  <2>1. next = acc /\ ~HeaderAt(stream, d, {"p"}, i)
    BY <1>2, <1>9 DEF ScanStep
  <2> QED
    BY <1>3, <2>1
<1> QED
  BY <1>4, <1>5, <1>6, <1>7, <1>8, <1>9

\* The recursion that defines the scan has a solution, for a d of any length: there is
\* no least length without one.
LEMMA ScanExists ==
    ASSUME NEW d, NEW n \in Nat
    PROVE  \E g : g = [i \in 0 .. n |-> IF i = 0 THEN ScanStart ELSE ScanStep(d, g[i - 1], i)]
<1> DEFINE Solves(g, m) ==
             g = [i \in 0 .. m |-> IF i = 0 THEN ScanStart ELSE ScanStep(d, g[i - 1], i)]
           Bad == {m \in Nat : ~ \E g : Solves(g, m)}
<1> SUFFICES ASSUME n \in Bad PROVE FALSE
  OBVIOUS
<1>1. PICK m \in Bad : \A k \in Bad : ~(k < m)
  <2>1. IsWellFoundedOn(OpToRel(<, Nat), Nat)
    BY NatLessThanWellFounded
  <2>2. Bad \subseteq Nat /\ n \in Bad
    OBVIOUS
  <2> HIDE DEF Bad
  <2>3. PICK m \in Bad : \A k \in Bad : ~(<<k, m>> \in OpToRel(<, Nat))
    BY <2>1, <2>2, WFMin
  <2> QED
    BY <2>2, <2>3 DEF OpToRel
<1>2. CASE m = 0
  <2>1. Solves([i \in 0 .. 0 |-> ScanStart], 0)
    OBVIOUS
  <2> QED
    BY <1>1, <1>2, <2>1
<1>3. CASE m # 0
  <2>1. m \in Nat /\ m - 1 \in Nat /\ m - 1 < m
    BY <1>1, <1>3
  <2>2. PICK g : Solves(g, m - 1)
    BY <1>1, <2>1
  <2> DEFINE h == [i \in 0 .. m |-> IF i = m THEN ScanStep(d, g[m - 1], m) ELSE g[i]]
  <2>3. \A i \in 0 .. m - 1 : h[i] = g[i]
    BY <2>1
  <2>4. \A i \in 0 .. m : h[i] = IF i = 0 THEN ScanStart ELSE ScanStep(d, h[i - 1], i)
    <3>1. h[m] = ScanStep(d, h[m - 1], m)
      BY <2>1, <2>3
    <3>2. ASSUME NEW i \in 0 .. m - 1
          PROVE  h[i] = IF i = 0 THEN ScanStart ELSE ScanStep(d, h[i - 1], i)
      <4>1. g[i] = IF i = 0 THEN ScanStart ELSE ScanStep(d, g[i - 1], i)
        BY <2>2
      <4>2. i # 0 => h[i - 1] = g[i - 1]
        BY <2>1, <2>3, <3>2
      <4>3. h[i] = g[i]
        BY <2>3, <3>2
      <4> HIDE DEF h
      <4> QED
        BY <4>1, <4>2, <4>3
    <3> HIDE DEF h
    <3> QED
      BY <2>1, <1>3, <3>1, <3>2
  <2>5. Solves(h, m)
    BY <2>4
  <2> QED
    BY <1>1, <2>5
<1> QED
  BY <1>2, <1>3

LEMMA ScanRecursion ==
    ASSUME NEW d, Len(d) \in Nat
    PROVE  /\ Scan(d)[0] = ScanStart
           /\ \A i \in 1 .. Len(d) : Scan(d)[i] = ScanStep(d, Scan(d)[i - 1], i)
<1> DEFINE g == Scan(d)
<1>1. g = [i \in 0 .. Len(d) |-> IF i = 0 THEN ScanStart ELSE ScanStep(d, g[i - 1], i)]
  BY ScanExists DEF Scan
<1> HIDE DEF g
<1>2. g[0] = ScanStart
  BY <1>1
<1>3. \A i \in 1 .. Len(d) : g[i] = ScanStep(d, g[i - 1], i)
  BY <1>1
<1> QED
  BY <1>2, <1>3 DEF g

\* What the scan has found after the last byte, however many there are.
LEMMA ScanResult ==
    ASSUME NEW d, Len(d) \in Nat
    PROVE  ScanKnows(d, Scanned(d), Len(d))
<1> DEFINE Bad == {i \in 0 .. Len(d) : ~ScanKnows(d, Scan(d)[i], i)}
<1> SUFFICES ASSUME Len(d) \in Bad PROVE FALSE
  BY DEF Scanned
<1>1. PICK m \in Bad : \A k \in Bad : ~(k < m)
  <2>1. IsWellFoundedOn(OpToRel(<, Nat), Nat)
    BY NatLessThanWellFounded
  <2>2. Bad \subseteq Nat /\ Len(d) \in Bad
    OBVIOUS
  <2> HIDE DEF Bad
  <2>3. PICK m \in Bad : \A k \in Bad : ~(<<k, m>> \in OpToRel(<, Nat))
    BY <2>1, <2>2, WFMin
  <2> QED
    BY <2>2, <2>3 DEF OpToRel
<1>2. CASE m = 0
  <2>1. ScanKnows(d, ScanStart, 0)
    BY DEF ScanKnows, ScanStart
  <2> QED
    BY <1>1, <1>2, <2>1, ScanRecursion
<1>3. CASE m # 0
  <2>1. m \in 1 .. Len(d) /\ m - 1 \in 0 .. Len(d) /\ m - 1 < m
    BY <1>1, <1>3
  <2>2. ScanKnows(d, Scan(d)[m - 1], m - 1)
    BY <1>1, <2>1
  <2>3. Scan(d)[m] = ScanStep(d, Scan(d)[m - 1], m)
    BY <2>1, ScanRecursion
  <2>4. ScanKnows(d, Scan(d)[m], m)
    BY <2>1, <2>2, <2>3, ScanLooks
  <2> QED
    BY <1>1, <2>4
<1> QED
  BY <1>2, <1>3
-----------------------------------------------------------------------------
(***************************************************************************)
(* The server's end: what its variables hold                               *)
(***************************************************************************)
\* NAL units join the stream at its end, and none ever leaves it or changes its kind.
LEMMA StreamGrows ==
    ASSUME GateIInv, Drained, [Next]_vars
    PROVE  /\ Len(stream) \in Nat /\ Len(stream') \in Nat /\ Len(stream) <= Len(stream')
           /\ \A j \in 1 .. Len(stream) : stream'[j].kind = stream[j].kind
<1> DEFINE L == Len(stream)
<1>1. FifoTypeOK /\ stream \in Seq(Nal) /\ L \in Nat
  BY DEF GateIInv, FifoTypeOK
<1>2. CASE stream' = stream
  BY <1>1, <1>2
<1>3. CASE \E x : stream' = Append(stream, x)
  <2>1. PICK x : stream' = Append(stream, x)
    BY <1>3
  <2>2. \A j \in 1 .. L : stream'[j] = stream[j]
    BY <1>1, <2>1
  <2>3. Len(stream') = L + 1
    BY <1>1, <2>1
  <2> QED
    BY <1>1, <2>2, <2>3
<1>4. CASE WriteChain
  <2>1. PICK n : stream' = [stream EXCEPT ![L].put = @ + n]
    BY <1>4 DEF WriteChain
  <2>2. Len(stream') = L /\ \A j \in 1 .. L : j # L => stream'[j] = stream[j]
    BY <1>1, <2>1
  <2>3. L \in 1 .. L => stream'[L].kind = stream[L].kind
    <3>1. HAVE L \in 1 .. L
    <3>2. stream[L] \in Nal /\ stream'[L] = [stream[L] EXCEPT !.put = @ + n]
      BY <1>1, <2>1, <3>1
    <3> QED
      BY <3>2 DEF Nal
  <2> QED
    BY <1>1, <2>2, <2>3
<1>5. stream' = stream \/ (\E x : stream' = Append(stream, x)) \/ WriteChain
  <2>1. CASE EmitStep
    BY <2>1 DEF EmitStep, DropNal, PassChainNal, WriteSlice, history
  <2>2. CASE ~EmitStep
    BY <2>2 DEF Next, ProducerAction, ProducerStep, StartProducer, Deliver, PurgeStep,
                PurgeSample, PurgeRead, StopProducer, Open, DrainStep, DrainRead, DrainScan,
                ServeStep, ServePending, ServeFifo, ServeEnd, Close, Closed, history, vars
  <2> QED
    BY <2>1, <2>2
<1> QED
  BY <1>2, <1>3, <1>4, <1>5

\* The values the variables of the server's end can have.
SourceTypes ==
    /\ spc \in {"closed", "drain", "serve"}
    /\ drained \in Seq(Cell) /\ Len(drained) <= DrainCap
    /\ attempt \in 0 .. Attempts - 1 /\ eof \in BOOLEAN
    /\ pending \in Seq(Cell) /\ opens \in 0 .. MaxOpens
    /\ found \in 0 .. 2 /\ got \in Seq(Cell)

LEMMA CellGrows ==
    ASSUME GateIInv, Drained, [Next]_vars
    PROVE  Cell \subseteq Cell'
<1>1. Len(stream) \in Nat /\ Len(stream') \in Nat /\ Len(stream) <= Len(stream')
  BY StreamGrows
<1>2. 1 .. Len(stream) \subseteq 1 .. Len(stream')
  BY <1>1
<1> QED
  BY <1>2 DEF Cell

\* What is kept of the buffer is its end.
LEMMA ScanKeepsEnd ==
    ASSUME NEW S, NEW d \in Seq(S)
    PROVE  /\ Scanned(d).found \in 0 .. 2
           /\ Scanned(d).keep - 1 \in 0 .. Len(d)
           /\ SubSeq(d, Scanned(d).keep, Len(d)) = SubSeq(d, Scanned(d).keep - 1 + 1, Len(d))
<1>1. Len(d) \in Nat
  OBVIOUS
<1>2. Scanned(d) \in [have : 0 .. 2, sps : Nat, keep : 1 .. Len(d) + 1, found : 0 .. 2]
  BY <1>1, ScanResult DEF ScanKnows
<1>3. Scanned(d).found \in 0 .. 2 /\ Scanned(d).keep \in 1 .. Len(d) + 1
  BY <1>2
<1> HIDE DEF Scanned
<1>4. Scanned(d).keep - 1 + 1 = Scanned(d).keep /\ Scanned(d).keep - 1 \in 0 .. Len(d)
  BY <1>1, <1>3
<1>5. SubSeq(d, Scanned(d).keep, Len(d)) = SubSeq(d, Scanned(d).keep - 1 + 1, Len(d))
  BY <1>4, Zenon
<1> QED
  BY <1>3, <1>4, <1>5, Zenon

\* Every sequence of cells stays one.
LEMMA SeqGrows ==
    ASSUME GateIInv, Drained, [Next]_vars, NEW s \in Seq(Cell)
    PROVE  s \in Seq(Cell')
BY CellGrows, Wider

LEMMA SourceTypesStep ==
    ASSUME GateIInv, Drained, SourceTypes, [Next]_vars
    PROVE  SourceTypes'
<1>1. /\ drained \in Seq(Cell') /\ pending \in Seq(Cell') /\ got \in Seq(Cell')
      /\ pipe \in Seq(Cell')
  <2>1. pipe \in Seq(Cell)
    BY DEF GateIInv, FifoTypeOK
  <2> QED
    BY <2>1, SeqGrows DEF SourceTypes
<1> DEFINE C == Cell'
<1> HIDE DEF C
<1>2. drained \in Seq(C) /\ pending \in Seq(C) /\ got \in Seq(C) /\ pipe \in Seq(C)
  BY <1>1 DEF C
<1>3. <<>> \in Seq(C) /\ Len(<<>>) <= DrainCap
  BY SourceAssumption
<1>4. Len(drained) \in Nat /\ Len(pending) \in Nat /\ Len(got) \in Nat /\ Len(pipe) \in Nat
  BY <1>2
<1>5. CASE UNCHANGED source
  BY <1>1, <1>5 DEF SourceTypes, source
<1>6. CASE Open
  <2>1. opens' \in 0 .. MaxOpens
    BY <1>6, SourceAssumption DEF Open, SourceTypes
  <2> QED
    BY <1>1, <1>6, <2>1 DEF SourceTypes, Open
<1>7. CASE DrainRead
  <2> DEFINE n == Lesser(Len(pipe), DrainCap - Len(drained))
  <2>1. n \in 0 .. Len(pipe) /\ Len(drained) + n <= DrainCap
    BY <1>4, SourceAssumption DEF Lesser, SourceTypes
  <2>2. drained' = drained \o SubSeq(pipe, 1, n)
    BY <1>7 DEF DrainRead
  <2> HIDE DEF n
  <2>3. SubSeq(pipe, 1, n) \in Seq(C) /\ Len(SubSeq(pipe, 1, n)) = n
    BY <1>2, <2>1, First
  <2>4. drained' \in Seq(C) /\ Len(drained') <= DrainCap
    BY <1>2, <2>1, <2>2, <2>3, Joined
  <2>5. UNCHANGED <<spc, attempt, eof, pending, opens, found, got>>
    BY <1>7 DEF DrainRead
  <2> QED
    BY <1>1, <2>4, <2>5 DEF SourceTypes, C
<1>8. CASE DrainScan
  <2>1. /\ Scanned(drained).found \in 0 .. 2
        /\ SubSeq(drained, Scanned(drained).keep, Len(drained)) \in Seq(C)
    BY <1>2, ScanKeepsEnd, Rest
  <2>2. found' \in 0 .. 2 /\ pending' \in Seq(C)
    BY <1>2, <1>8, <2>1 DEF DrainScan, SourceTypes
  <2>3. drained' \in Seq(C) /\ Len(drained') <= DrainCap
    BY <1>2, <1>3, <1>8 DEF DrainScan, SourceTypes
  <2>4. attempt' \in 0 .. Attempts - 1
    BY <1>8, SourceAssumption DEF DrainScan, SourceTypes
  <2>5. eof' \in BOOLEAN /\ spc' \in {"closed", "drain", "serve"}
    BY <1>8 DEF DrainScan
  <2>6. UNCHANGED <<opens, got>>
    BY <1>8 DEF DrainScan
  <2> QED
    BY <1>1, <2>2, <2>3, <2>4, <2>5, <2>6 DEF SourceTypes, C
<1>9. CASE ServePending
  <2> DEFINE n == Lesser(FrameMax, Len(pending))
  <2>1. n \in 0 .. Len(pending)
    BY <1>4, SourceAssumption DEF Lesser
  <2>2. /\ got' = got \o SubSeq(pending, 1, n)
        /\ pending' = SubSeq(pending, n + 1, Len(pending))
    BY <1>9 DEF ServePending
  <2> HIDE DEF n
  <2>3. got' \in Seq(C) /\ pending' \in Seq(C)
    BY <1>2, <2>1, <2>2, First, Rest, Joined
  <2>4. UNCHANGED <<spc, drained, attempt, eof, opens, found>>
    BY <1>9 DEF ServePending
  <2> QED
    BY <1>1, <2>3, <2>4 DEF SourceTypes, C
<1>10. CASE ServeFifo
  <2> DEFINE n == Lesser(FrameMax, Len(pipe))
  <2>1. n \in 0 .. Len(pipe)
    BY <1>4, SourceAssumption DEF Lesser
  <2>2. got' = got \o SubSeq(pipe, 1, n)
    BY <1>10 DEF ServeFifo
  <2> HIDE DEF n
  <2>3. got' \in Seq(C)
    BY <1>2, <2>1, <2>2, First, Joined
  <2>4. UNCHANGED <<spc, drained, attempt, eof, opens, found, pending>>
    BY <1>10 DEF ServeFifo
  <2> QED
    BY <1>1, <2>3, <2>4 DEF SourceTypes, C
<1>11. CASE Closed
  <2>1. /\ spc' = "closed" /\ pending' = <<>> /\ eof' = FALSE /\ found' = 0 /\ got' = <<>>
        /\ UNCHANGED <<drained, attempt, opens>>
    BY <1>11 DEF Closed
  <2>2. /\ spc' \in {"closed", "drain", "serve"} /\ found' \in 0 .. 2
        /\ attempt' \in 0 .. Attempts - 1 /\ opens' \in 0 .. MaxOpens
        /\ Len(drained') <= DrainCap
    BY <2>1 DEF SourceTypes
  <2>4. eof' \in BOOLEAN
    BY <2>1
  <2>3. drained' \in Seq(C) /\ pending' \in Seq(C) /\ got' \in Seq(C)
    BY <1>2, <1>3, <2>1
  <2> QED
    BY <2>2, <2>3, <2>4 DEF SourceTypes, C
<1> QED
  BY <1>5, <1>6, <1>7, <1>8, <1>9, <1>10, <1>11
     DEF Next, ProducerAction, DrainStep, ServeStep, ServeEnd, Close, vars

LEMMA SourceTypesInit == Init => SourceTypes
<1> SUFFICES ASSUME Init PROVE SourceTypes
  OBVIOUS
<1>1. /\ spc = "closed" /\ drained = <<>> /\ attempt = 0 /\ eof = FALSE
      /\ pending = <<>> /\ opens = 0 /\ found = 0 /\ got = <<>>
  BY DEF Init, SourceInit
<1>2. <<>> \in Seq(Cell) /\ Len(<<>>) <= DrainCap
  BY SourceAssumption
<1>3. 0 \in 0 .. Attempts - 1 /\ 0 \in 0 .. MaxOpens
  BY SourceAssumption
<1>4. drained \in Seq(Cell) /\ pending \in Seq(Cell) /\ got \in Seq(Cell)
  BY <1>1, <1>2
<1>5. /\ spc \in {"closed", "drain", "serve"} /\ found \in 0 .. 2
      /\ attempt \in 0 .. Attempts - 1 /\ opens \in 0 .. MaxOpens
  BY <1>1, <1>3
<1>6. eof \in BOOLEAN /\ Len(drained) <= DrainCap
  BY <1>1, <1>2
<1> QED
  BY <1>4, <1>5, <1>6 DEF SourceTypes
-----------------------------------------------------------------------------
(***************************************************************************)
(* What a client is sent first                                             *)
(***************************************************************************)
\* A source has something to serve only while it serves, and reads ahead only before.
Phased ==
    /\ spc # "serve" => got = <<>> /\ pending = <<>> /\ found = 0
    /\ spc # "drain" => drained = <<>>

LEMMA PhasedStep ==
    ASSUME Phased, [Next]_vars
    PROVE  Phased'
<1>1. CASE UNCHANGED source
  BY <1>1 DEF Phased, source
<1>2. CASE Open \/ DrainRead
  BY <1>2 DEF Phased, Open, DrainRead
<1>3. CASE DrainScan
  BY <1>3 DEF Phased, DrainScan
<1>4. CASE ServePending \/ ServeFifo
  BY <1>4 DEF Phased, ServePending, ServeFifo
<1>5. CASE ServeEnd \/ Close
  BY <1>5 DEF Phased, ServeEnd, Close, Closed
<1> QED
  BY <1>1, <1>2, <1>3, <1>4, <1>5 DEF Next, ProducerAction, DrainStep, ServeStep, vars

\* The first NAL of s is an SPS, and it has a PPS and then an IDR before any slice.
Keyed(str, s) ==
    /\ 1 \in 1 .. Len(s) /\ HeaderAt(str, s, {"sps"}, 1)
    /\ \E b \in 1 .. Len(s) :
         /\ HeaderAt(str, s, {"idr"}, b)
         /\ \E a \in 1 .. b - 1 : HeaderAt(str, s, PpsKinds, a)
         /\ \A i \in 1 .. b : ~HeaderAt(str, s, {"p"}, i)

KeyIInv == found = 2 => Keyed(stream, got \o pending)

\* It stays so when s is carried on and the stream grows.
LEMMA KeyedLonger ==
    ASSUME NEW str, NEW longer, NEW s, NEW t, Len(s) \in Nat, Len(t) \in Nat, Len(s) <= Len(t),
           \A i \in 1 .. Len(s) : t[i] = s[i] /\ longer[s[i].nal].kind = str[s[i].nal].kind,
           Keyed(str, s)
    PROVE  Keyed(longer, t)
<1>1. \A i \in 1 .. Len(s) : \A kinds : HeaderAt(longer, t, kinds, i) <=> HeaderAt(str, s, kinds, i)
  BY DEF HeaderAt
<1>2. PICK b \in 1 .. Len(s) :
        /\ HeaderAt(str, s, {"idr"}, b)
        /\ \E a \in 1 .. b - 1 : HeaderAt(str, s, PpsKinds, a)
        /\ \A i \in 1 .. b : ~HeaderAt(str, s, {"p"}, i)
  BY DEF Keyed
<1>3. HeaderAt(longer, t, {"idr"}, b) /\ b \in 1 .. Len(t)
  BY <1>1, <1>2
<1>4. \E a \in 1 .. b - 1 : HeaderAt(longer, t, PpsKinds, a)
  <2>1. \A a \in 1 .. b - 1 : a \in 1 .. Len(s)
    OBVIOUS
  <2> QED
    BY <1>1, <1>2, <2>1
<1>5. \A i \in 1 .. b : ~HeaderAt(longer, t, {"p"}, i)
  <2>1. \A i \in 1 .. b : i \in 1 .. Len(s)
    OBVIOUS
  <2> QED
    BY <1>1, <1>2, <2>1
<1>6. 1 \in 1 .. Len(t) /\ HeaderAt(longer, t, {"sps"}, 1)
  BY <1>1 DEF Keyed
<1> QED
  BY <1>3, <1>4, <1>5, <1>6 DEF Keyed

\* What the scan keeps, when it has found a complete chain.
LEMMA KeptIsKeyed ==
    ASSUME NEW S, NEW d \in Seq(S), Scanned(d).found = 2
    PROVE  Keyed(stream, SubSeq(d, Scanned(d).keep, Len(d)))
<1> DEFINE l == Scanned(d).keep
           s == SubSeq(d, l, Len(d))
<1>1. Len(d) \in Nat
  OBVIOUS
<1>2. /\ Scanned(d) \in [have : 0 .. 2, sps : Nat, keep : 1 .. Len(d) + 1, found : 0 .. 2]
      /\ l \in 1 .. Len(d) /\ \E b \in l .. Len(d) : ChainAt(stream, d, l, b)
  BY <1>1, ScanResult DEF ScanKnows
<1> HIDE DEF l
<1>3. PICK b \in l .. Len(d) : ChainAt(stream, d, l, b)
  BY <1>2
<1>4. Len(s) = Len(d) - l + 1 /\ \A i \in 1 .. Len(d) - l + 1 : s[i] = d[l + i - 1]
  BY <1>2
<1> HIDE DEF s
<1>5. \A i \in 1 .. Len(s) : \A kinds :
        HeaderAt(stream, s, kinds, i) <=> HeaderAt(stream, d, kinds, l + i - 1)
  BY <1>4 DEF HeaderAt
<1>6. /\ HeaderAt(stream, d, {"sps"}, l) /\ HeaderAt(stream, d, {"idr"}, b)
      /\ \E a \in l + 1 .. b - 1 : HeaderAt(stream, d, PpsKinds, a)
      /\ \A j \in l .. b : ~HeaderAt(stream, d, {"p"}, j)
  BY <1>3 DEF ChainAt
<1> DEFINE c == b - l + 1
<1>7. c \in 1 .. Len(s) /\ l + c - 1 = b /\ 1 \in 1 .. Len(s) /\ l + 1 - 1 = l
  BY <1>1, <1>2, <1>3, <1>4
<1>8. HeaderAt(stream, s, {"idr"}, c) /\ HeaderAt(stream, s, {"sps"}, 1)
  BY <1>5, <1>6, <1>7
<1>9. \E a \in 1 .. c - 1 : HeaderAt(stream, s, PpsKinds, a)
  <2>1. PICK a \in l + 1 .. b - 1 : HeaderAt(stream, d, PpsKinds, a)
    BY <1>6
  <2>2. a - l + 1 \in 1 .. c - 1 /\ a - l + 1 \in 1 .. Len(s) /\ l + (a - l + 1) - 1 = a
    BY <1>1, <1>2, <1>3, <1>4, <2>1
  <2> QED
    BY <1>5, <2>1, <2>2
<1>10. \A i \in 1 .. c : ~HeaderAt(stream, s, {"p"}, i)
  <2>1. \A i \in 1 .. c : i \in 1 .. Len(s) /\ l + i - 1 \in l .. b
    BY <1>1, <1>2, <1>3, <1>4
  <2> QED
    BY <1>5, <1>6, <2>1
<1> HIDE DEF c
<1>11. Keyed(stream, s)
  BY <1>7, <1>8, <1>9, <1>10 DEF Keyed
<1> QED
  BY <1>11 DEF s, l

LEMMA Extended ==
    ASSUME NEW S, NEW a \in Seq(S), NEW b \in Seq(S)
    PROVE  /\ Len(a \o b) \in Nat /\ Len(a) <= Len(a \o b)
           /\ \A i \in 1 .. Len(a) : (a \o b)[i] = a[i]
OBVIOUS

LEMMA NothingAfter ==
    ASSUME NEW S, NEW a \in Seq(S)
    PROVE  a \o <<>> = a /\ <<>> \o a = a
OBVIOUS

\* Sequence u is a and then b.
Spliced(u, a, b) ==
    /\ Len(a) \in Nat /\ Len(b) \in Nat /\ Len(u) = Len(a) + Len(b)
    /\ \A i \in 1 .. Len(a) : u[i] = a[i]
    /\ \A i \in 1 .. Len(b) : u[Len(a) + i] = b[i]

LEMMA JoinSplices ==
    ASSUME NEW S, NEW a \in Seq(S), NEW b \in Seq(S)
    PROVE  Spliced(a \o b, a, b)
BY DEF Spliced

LEMMA CutSplices ==
    ASSUME NEW S, NEW b \in Seq(S), NEW n \in 0 .. Len(b)
    PROVE  Spliced(b, SubSeq(b, 1, n), SubSeq(b, n + 1, Len(b)))
<1> DEFINE c == SubSeq(b, 1, n)
           d == SubSeq(b, n + 1, Len(b))
<1>1. Len(b) \in Nat /\ n \in Nat /\ Len(c) = n /\ Len(d) = Len(b) - n
  BY First, Rest
<1>2. \A i \in 1 .. n : b[i] = c[i]
  OBVIOUS
<1>3. \A i \in 1 .. Len(b) - n : b[n + i] = d[i]
  OBVIOUS
<1> HIDE DEF c, d
<1>4. Len(b) - n \in Nat /\ Len(b) = n + (Len(b) - n)
  BY <1>1
<1>5. \A i \in 1 .. Len(c) : b[i] = c[i]
  BY <1>1, <1>2
<1>6. \A i \in 1 .. Len(d) : b[Len(c) + i] = d[i]
  BY <1>1, <1>3
<1>7. Spliced(b, c, d)
  BY <1>1, <1>4, <1>5, <1>6 DEF Spliced
<1> QED
  BY <1>7 DEF c, d

\* Serving c, the front of b, changes nothing of what is sent and to be sent.
LEMMA Served ==
    ASSUME NEW a, NEW b, NEW c, NEW d, NEW x, NEW y, NEW z,
           Spliced(x, a, c), Spliced(y, x, d), Spliced(z, a, b), Spliced(b, c, d)
    PROVE  /\ Len(y) \in Nat /\ Len(y) = Len(z)
           /\ \A i \in 1 .. Len(z) : y[i] = z[i]
<1> DEFINE p == Len(a)
           q == Len(b)
           n == Len(c)
<1>1. p \in Nat /\ q \in Nat /\ n \in Nat /\ Len(d) \in Nat /\ q = n + Len(d)
  BY DEF Spliced
<1>2. Len(x) = p + n /\ Len(y) = Len(x) + Len(d) /\ Len(z) = p + q
  BY DEF Spliced
<1>3. n \in 0 .. q /\ Len(d) = q - n /\ Len(y) = p + q
  BY <1>1, <1>2
<1>4. /\ \A i \in 1 .. n : c[i] = b[i]
      /\ \A i \in 1 .. q - n : d[i] = b[n + i]
  BY <1>3 DEF Spliced
<1>5. (\A i \in 1 .. p : x[i] = a[i]) /\ \A i \in 1 .. n : x[p + i] = c[i]
  BY DEF Spliced
<1>6. /\ \A i \in 1 .. p + n : y[i] = x[i]
      /\ \A i \in 1 .. q - n : y[p + n + i] = d[i]
  BY <1>2, <1>3 DEF Spliced
<1>7. (\A i \in 1 .. p : z[i] = a[i]) /\ \A i \in 1 .. q : z[p + i] = b[i]
  BY DEF Spliced
<1> HIDE DEF p, q, n
<1>8. \A i \in 1 .. p + q : y[i] = z[i]
  <2> TAKE i \in 1 .. p + q
  <2>1. CASE i \in 1 .. p
    <3>1. i \in 1 .. p + n
      BY <1>1, <1>3, <2>1
    <3> QED
      BY <1>5, <1>6, <1>7, <2>1, <3>1
  <2>2. CASE i \in p + 1 .. p + n
    <3>1. PICK j \in 1 .. n : i = p + j
      <4>1. i - p \in 1 .. n /\ i = p + (i - p)
        BY <1>1, <2>2
      <4> QED
        BY <4>1
    <3>2. j \in 1 .. q /\ i \in 1 .. p + n
      BY <1>1, <1>3, <2>2
    <3>3. y[i] = x[i] /\ x[i] = c[j] /\ c[j] = b[j] /\ z[i] = b[j]
      BY <1>4, <1>5, <1>6, <1>7, <3>1, <3>2
    <3> QED
      BY <3>3
  <2>3. CASE i \in p + n + 1 .. p + q
    <3>1. PICK j \in 1 .. q - n : i = p + n + j
      <4>1. i - (p + n) \in 1 .. q - n /\ i = p + n + (i - (p + n))
        BY <1>1, <1>3, <2>3
      <4> QED
        BY <4>1
    <3>2. n + j \in 1 .. q /\ i = p + (n + j)
      BY <1>1, <1>3, <3>1
    <3>3. y[i] = b[n + j]
      BY <1>4, <1>6, <3>1
    <3>4. z[i] = b[n + j]
      BY <1>7, <3>2
    <3> QED
      BY <3>3, <3>4
  <2> QED
    BY <1>1, <1>3, <2>1, <2>2, <2>3
<1> QED
  BY <1>1, <1>2, <1>3, <1>8

LEMMA KeyStep ==
    ASSUME GateIInv, Drained, SourceTypes, Phased, KeyIInv, [Next]_vars
    PROVE  KeyIInv'
<1>1. /\ got \in Seq(Cell) /\ pending \in Seq(Cell) /\ drained \in Seq(Cell)
      /\ pipe \in Seq(Cell)
  BY DEF SourceTypes, GateIInv, FifoTypeOK
<1>2. ASSUME NEW s \in Seq(Cell), Keyed(stream, s), NEW t, Len(t) \in Nat, Len(s) <= Len(t),
             \A i \in 1 .. Len(s) : t[i] = s[i]
      PROVE  Keyed(stream', t)
  <2>1. Len(s) \in Nat /\ \A i \in 1 .. Len(s) : s[i].nal \in 1 .. Len(stream)
    <3>1. \A i \in 1 .. Len(s) : s[i] \in Cell
      BY <1>2
    <3>2. \A x \in Cell : x.nal \in 1 .. Len(stream)
      BY DEF Cell
    <3> QED
      BY <1>2, <3>1, <3>2
  <2>2. \A i \in 1 .. Len(s) : stream'[s[i].nal].kind = stream[s[i].nal].kind
    BY <2>1, StreamGrows
  <2> QED
    BY <1>2, <2>1, <2>2, KeyedLonger
<1>3. CASE UNCHANGED <<got, pending, found>>
  <2> SUFFICES ASSUME found = 2 PROVE Keyed(stream', got \o pending)
    BY <1>3 DEF KeyIInv
  <2>1. PICK s : s = got \o pending
    OBVIOUS
  <2>2. Keyed(stream, s)
    BY <2>1 DEF KeyIInv
  <2>3. s \in Seq(Cell)
    BY <1>1, <2>1, Joined
  <2>4. Len(s) \in Nat /\ Len(s) <= Len(s) /\ \A i \in 1 .. Len(s) : s[i] = s[i]
    BY <2>3
  <2>5. Keyed(stream', s)
    BY <1>2, <2>2, <2>3, <2>4
  <2> QED
    BY <2>1, <2>5
<1>4. CASE ServePending
  <2> DEFINE n == Lesser(FrameMax, Len(pending))
             c == SubSeq(pending, 1, n)
             d == SubSeq(pending, n + 1, Len(pending))
             y == (got \o c) \o d
             z == got \o pending
  <2>1. n \in 0 .. Len(pending)
    <3>1. Len(pending) \in Nat
      BY <1>1
    <3> QED
      BY <3>1, SourceAssumption DEF Lesser
  <2>2. got' = got \o c /\ pending' = d /\ found' = found
    BY <1>4 DEF ServePending
  <2> HIDE DEF n
  <2>3. c \in Seq(Cell) /\ d \in Seq(Cell)
    BY <1>1, <2>1, First, Rest
  <2>4. Spliced(pending, c, d)
    BY <1>1, <2>1, CutSplices
  <2> HIDE DEF c, d
  <2>5. got \o c \in Seq(Cell) /\ z \in Seq(Cell)
    BY <1>1, <2>3, Joined
  <2>6. Spliced(got \o c, got, c) /\ Spliced(z, got, pending)
    BY <1>1, <2>3, JoinSplices
  <2>7. Spliced(y, got \o c, d)
    BY <2>3, <2>5, JoinSplices
  <2> HIDE DEF y, z
  <2>8. Len(y) \in Nat /\ Len(z) = Len(y) /\ \A i \in 1 .. Len(z) : y[i] = z[i]
    BY <2>4, <2>6, <2>7, Served
  <2>9. Len(z) <= Len(y)
    BY <2>8
  <2>10. Keyed(stream, z) => Keyed(stream', y)
    BY <1>2, <2>5, <2>8, <2>9
  <2>11. got' \o pending' = y
    BY <2>2 DEF y
  <2> QED
    BY <2>2, <2>10, <2>11 DEF KeyIInv, z
<1>5. CASE ServeFifo
  <2> DEFINE n == Lesser(FrameMax, Len(pipe))
             c == SubSeq(pipe, 1, n)
  <2>1. n \in 0 .. Len(pipe)
    <3>1. Len(pipe) \in Nat
      BY <1>1
    <3> QED
      BY <3>1, SourceAssumption DEF Lesser
  <2>2. got' = got \o c /\ pending = <<>> /\ pending' = <<>> /\ found' = found
    BY <1>5 DEF ServeFifo
  <2> HIDE DEF n
  <2>3. c \in Seq(Cell)
    BY <1>1, <2>1, First
  <2> HIDE DEF c
  <2>4. /\ Len(got \o c) \in Nat /\ Len(got) <= Len(got \o c)
        /\ \A i \in 1 .. Len(got) : (got \o c)[i] = got[i]
    BY <1>1, <2>3, Extended
  <2>5. got \o c \in Seq(Cell)
    BY <1>1, <2>3, Joined
  <2>6. got \o pending = got /\ got' \o pending' = got \o c
    <3>1. got \o <<>> = got
      BY <1>1, NothingAfter
    <3>2. (got \o c) \o <<>> = got \o c
      BY <2>5, NothingAfter
    <3> QED
      BY <2>2, <3>1, <3>2
  <2>7. Keyed(stream, got) => Keyed(stream', got \o c)
    BY <1>1, <1>2, <2>4
  <2> QED
    BY <2>2, <2>6, <2>7 DEF KeyIInv
<1>6. CASE DrainScan
  <2>1. found = 0 /\ got = <<>> /\ got' = got /\ stream' = stream
    BY <1>6 DEF DrainScan, Phased, history
  <2>2. CASE found' = 2
    <3> DEFINE k == SubSeq(drained, Scanned(drained).keep, Len(drained))
    <3> DEFINE done == Scanned(drained).found = 2 \/ attempt + 1 = Attempts
    <3>0. /\ found' = IF done THEN Scanned(drained).found ELSE found
          /\ pending' = IF done THEN k ELSE pending
      BY <1>6, Zenon DEF DrainScan
    <3>1. Scanned(drained).found = 2 /\ pending' = k
      <4> HIDE DEF k, done
      <4> QED
        BY <2>1, <2>2, <3>0
    <3>2. Keyed(stream, k)
      BY <1>1, <3>1, KeptIsKeyed
    <3>3. k \in Seq(Cell)
      BY <1>1, ScanKeepsEnd, Rest
    <3> HIDE DEF k
    <3>4. <<>> \o k = k
      BY <3>3, NothingAfter
    <3>5. got' \o pending' = k
      BY <2>1, <3>1, <3>4
    <3> QED
      BY <2>1, <3>2, <3>5 DEF KeyIInv
  <2> QED
    BY <2>2 DEF KeyIInv
<1>7. CASE Closed
  BY <1>7 DEF KeyIInv, Closed
<1>8. \/ UNCHANGED <<got, pending, found>>
      \/ ServePending \/ ServeFifo \/ DrainScan \/ Closed
  BY DEF Next, ProducerAction, Open, DrainStep, DrainRead, ServeStep, ServeEnd, Close, source, vars
<1> QED
  BY <1>3, <1>4, <1>5, <1>6, <1>7, <1>8

\* What makes the source's own invariants inductive: the gate's, the types, the phases.
SourceIInv == GateIInv /\ Drained /\ SourceTypes /\ Phased

LEMMA SourceInvariant == Spec => []SourceIInv
<1>1. Init => SourceIInv
  <2>1. Init => Phased
    BY DEF Init, SourceInit, Phased
  <2> QED
    BY <2>1, GateInit, DrainedInit, SourceTypesInit DEF SourceIInv
<1>2. SourceIInv /\ [Next]_vars => SourceIInv'
  BY GateStep, SourceTypesStep, PhasedStep DEF SourceIInv
<1> QED
  BY <1>1, <1>2, PTL DEF Spec

\* The buffer of the drain, the kept tail and what was sent hold nothing but cells that were
\* written, and the buffer is never overrun, however long the pipe and small the buffer.
THEOREM SourceTypeCorrect == Spec => []TypeOK
<1>1. SourceIInv => TypeOK
  BY DEF SourceIInv, SourceTypes, GateIInv, TypeOK
<1> QED
  BY <1>1, SourceInvariant, PTL

LEMMA KeyInvariant == Spec => []KeyIInv
<1>1. Init => KeyIInv
  BY DEF Init, SourceInit, KeyIInv
<1>2. SourceIInv /\ KeyIInv /\ [Next]_vars => KeyIInv'
  BY KeyStep DEF SourceIInv
<1> QED
  BY <1>1, <1>2, SourceInvariant, PTL DEF Spec

\* Whatever stood in the pipe when the client came, and however its parts were read: when
\* createNew found a chain, the client is sent the SPS first, and no slice before its IDR.
THEOREM KeyframeFirstTheorem == Spec => []KeyframeFirst
<1>1. ASSUME SourceIInv, KeyIInv
      PROVE  KeyframeFirst
  <2> SUFFICES ASSUME found = 2 PROVE KeyframeFirst
    BY DEF KeyframeFirst
  <2>1. PICK s : s = got \o pending
    OBVIOUS
  <2>2. Keyed(stream, s)
    BY <1>1, <2>1 DEF KeyIInv
  <2>3. s \in Seq(Cell)
    BY <1>1, <2>1, Joined DEF SourceIInv, SourceTypes
  <2>4. DOMAIN s = 1 .. Len(s) /\ Len(s) \in Nat
    BY <2>3
  <2> DEFINE Header(kinds, i) == s[i].k = 0 /\ KindOf(s[i]) \in kinds
  <2>5. \A kinds, i : Header(kinds, i) <=> HeaderAt(stream, s, kinds, i)
    BY DEF HeaderAt, KindOf
  <2> HIDE DEF Header
  <2>6. Header({"sps"}, 1)
    BY <2>2, <2>5 DEF Keyed
  <2>7. ASSUME NEW i \in 1 .. Len(s), Header({"p"}, i)
        PROVE  \E a, b \in 1 .. i : /\ a < b /\ Header({"pps", "badpps"}, a)
                                    /\ Header({"idr"}, b)
    <3>1. PICK b \in 1 .. Len(s) :
            /\ HeaderAt(stream, s, {"idr"}, b)
            /\ \E a \in 1 .. b - 1 : HeaderAt(stream, s, PpsKinds, a)
            /\ \A j \in 1 .. b : ~HeaderAt(stream, s, {"p"}, j)
      BY <2>2 DEF Keyed
    <3>2. PICK a \in 1 .. b - 1 : HeaderAt(stream, s, PpsKinds, a)
      BY <3>1
    <3>3. i \notin 1 .. b
      BY <2>5, <2>7, <3>1
    <3>4. a \in 1 .. i /\ b \in 1 .. i /\ a < b
      BY <2>4, <3>2, <3>3
    <3>5. Header({"pps", "badpps"}, a) /\ Header({"idr"}, b)
      BY <2>5, <3>1, <3>2 DEF PpsKinds
    <3> QED
      BY <3>4, <3>5
  <2> QED
    BY <2>1, <2>4, <2>6, <2>7 DEF KeyframeFirst, Header
<1> QED
  BY <1>1, SourceInvariant, KeyInvariant, PTL
-----------------------------------------------------------------------------
(***************************************************************************)
(* The order of the cells                                                  *)
(***************************************************************************)
AnyCell == [nal : Nat, k : Nat]

LEMMA BeforeOrders ==
    \A c, d \in AnyCell : Before(c, d) => ~Before(d, c)
BY DEF AnyCell, Before

Members(s) == {s[i] : i \in 1 .. Len(s)}

Precede(S, T) == \A c \in S, d \in T : Before(c, d)

InOrder(s) == \A i, j \in 1 .. Len(s) : i < j => Before(s[i], s[j])

LEMMA SplicedMembers ==
    ASSUME NEW u, NEW a, NEW b, Spliced(u, a, b)
    PROVE  Members(u) = Members(a) \cup Members(b)
<1>1. /\ Len(a) \in Nat /\ Len(b) \in Nat /\ Len(u) = Len(a) + Len(b)
      /\ \A i \in 1 .. Len(a) : u[i] = a[i]
      /\ \A i \in 1 .. Len(b) : u[Len(a) + i] = b[i]
  BY DEF Spliced
<1>2. Members(a) \subseteq Members(u)
  <2>1. \A i \in 1 .. Len(a) : i \in 1 .. Len(u)
    BY <1>1
  <2> QED
    BY <1>1, <2>1 DEF Members
<1>3. Members(b) \subseteq Members(u)
  <2>1. \A i \in 1 .. Len(b) : Len(a) + i \in 1 .. Len(u)
    BY <1>1
  <2> QED
    BY <1>1, <2>1 DEF Members
<1>4. ASSUME NEW i \in 1 .. Len(u)
      PROVE  u[i] \in Members(a) \cup Members(b)
  <2>1. CASE i \in 1 .. Len(a)
    BY <1>1, <2>1 DEF Members
  <2>2. CASE i \notin 1 .. Len(a)
    <3>1. i - Len(a) \in 1 .. Len(b) /\ i = Len(a) + (i - Len(a))
      BY <1>1, <2>2
    <3>2. PICK j \in 1 .. Len(b) : i = Len(a) + j
      BY <3>1
    <3>3. u[i] = b[j]
      BY <1>1, <3>2
    <3> QED
      BY <3>3 DEF Members
  <2> QED
    BY <2>1, <2>2
<1>5. Members(u) \subseteq Members(a) \cup Members(b)
  BY <1>4 DEF Members
<1> QED
  BY <1>2, <1>3, <1>5

LEMMA SplicedApart ==
    ASSUME NEW u, NEW a, NEW b, Spliced(u, a, b), InOrder(u)
    PROVE  InOrder(a) /\ InOrder(b) /\ Precede(Members(a), Members(b))
<1>1. /\ Len(a) \in Nat /\ Len(b) \in Nat /\ Len(u) = Len(a) + Len(b)
      /\ \A i \in 1 .. Len(a) : u[i] = a[i]
      /\ \A i \in 1 .. Len(b) : u[Len(a) + i] = b[i]
  BY DEF Spliced
<1>2. \A i \in 1 .. Len(a) : i \in 1 .. Len(u)
  BY <1>1
<1>3. \A i \in 1 .. Len(b) : Len(a) + i \in 1 .. Len(u)
  BY <1>1
<1>4. InOrder(a)
  BY <1>1, <1>2 DEF InOrder
<1>5. ASSUME NEW i \in 1 .. Len(b), NEW j \in 1 .. Len(b), i < j
      PROVE  Before(b[i], b[j])
  <2>1. Len(a) + i < Len(a) + j
    BY <1>1, <1>5
  <2>2. Before(u[Len(a) + i], u[Len(a) + j])
    BY <1>3, <2>1 DEF InOrder
  <2> QED
    BY <1>1, <2>2
<1>6. ASSUME NEW i \in 1 .. Len(a), NEW j \in 1 .. Len(b)
      PROVE  Before(a[i], b[j])
  <2>1. i < Len(a) + j
    BY <1>1
  <2>2. Before(u[i], u[Len(a) + j])
    BY <1>2, <1>3, <2>1 DEF InOrder
  <2> QED
    BY <1>1, <2>2
<1> QED
  BY <1>4, <1>5, <1>6 DEF InOrder, Precede, Members

LEMMA SplicedOrder ==
    ASSUME NEW u, NEW a, NEW b, Spliced(u, a, b), InOrder(a), InOrder(b),
           Precede(Members(a), Members(b))
    PROVE  InOrder(u)
<1>1. /\ Len(a) \in Nat /\ Len(b) \in Nat /\ Len(u) = Len(a) + Len(b)
      /\ \A i \in 1 .. Len(a) : u[i] = a[i]
      /\ \A i \in 1 .. Len(b) : u[Len(a) + i] = b[i]
  BY DEF Spliced
<1>2. ASSUME NEW i \in 1 .. Len(u), i \notin 1 .. Len(a)
      PROVE  \E m \in 1 .. Len(b) : i = Len(a) + m /\ u[i] = b[m]
  <2>1. i - Len(a) \in 1 .. Len(b) /\ i = Len(a) + (i - Len(a))
    BY <1>1, <1>2
  <2>2. PICK m \in 1 .. Len(b) : i = Len(a) + m
    BY <2>1
  <2> QED
    BY <1>1, <2>2
<1>3. SUFFICES ASSUME NEW i \in 1 .. Len(u), NEW j \in 1 .. Len(u), i < j
               PROVE  Before(u[i], u[j])
  BY DEF InOrder
<1>4. CASE i \in 1 .. Len(a) /\ j \in 1 .. Len(a)
  BY <1>1, <1>3, <1>4 DEF InOrder
<1>5. CASE i \in 1 .. Len(a) /\ j \notin 1 .. Len(a)
  <2>1. PICK m \in 1 .. Len(b) : u[j] = b[m]
    BY <1>2, <1>5
  <2> QED
    BY <1>1, <1>5, <2>1 DEF Precede, Members
<1>6. CASE i \notin 1 .. Len(a)
  <2>1. j \notin 1 .. Len(a)
    BY <1>1, <1>3, <1>6
  <2>2. PICK m \in 1 .. Len(b) : i = Len(a) + m /\ u[i] = b[m]
    BY <1>2, <1>6
  <2>3. PICK n \in 1 .. Len(b) : j = Len(a) + n /\ u[j] = b[n]
    BY <1>2, <2>1
  <2>4. m < n
    BY <1>1, <1>3, <2>2, <2>3
  <2> QED
    BY <2>2, <2>3, <2>4 DEF InOrder
<1> QED
  BY <1>4, <1>5, <1>6

LEMMA NoMembers == Members(<<>>) = {} /\ InOrder(<<>>)
  BY DEF Members, InOrder

LEMMA MembersType ==
    ASSUME NEW S, NEW s \in Seq(S)
    PROVE  Members(s) \subseteq S
BY DEF Members

\* The cells of one write.
LEMMA CellsInOrder ==
    ASSUME NEW i \in Nat, NEW k \in Nat, NEW n \in Nat
    PROVE  /\ InOrder(CellsOf(i, k, n))
           /\ \A c \in AnyCell : c \in Members(CellsOf(i, k, n))
                                   <=> c.nal = i /\ k <= c.k /\ c.k < k + n
           /\ Members(CellsOf(i, k, n)) \subseteq AnyCell
<1> DEFINE s == CellsOf(i, k, n)
<1>1. Len(s) = n /\ \A j \in 1 .. n : s[j] = [nal |-> i, k |-> k + j - 1]
  BY DEF CellsOf
<1> HIDE DEF s
<1>2. InOrder(s)
  BY <1>1 DEF InOrder, Before
<1>3. Members(s) \subseteq AnyCell
  BY <1>1 DEF Members, AnyCell
<1>4. ASSUME NEW c \in AnyCell
      PROVE  c \in Members(s) <=> c.nal = i /\ k <= c.k /\ c.k < k + n
  <2>1. ASSUME c \in Members(s)
        PROVE  c.nal = i /\ k <= c.k /\ c.k < k + n
    <3>1. PICK j \in 1 .. n : c = [nal |-> i, k |-> k + j - 1]
      BY <1>1, <2>1 DEF Members
    <3> QED
      BY <3>1
  <2>2. ASSUME c.nal = i, k <= c.k, c.k < k + n
        PROVE  c \in Members(s)
    <3>1. c.k \in Nat /\ c.k - k + 1 \in 1 .. n
      BY <2>2 DEF AnyCell
    <3>2. PICK j \in 1 .. n : c.k = k + j - 1
      <4>1. c.k = k + (c.k - k + 1) - 1
        BY <3>1
      <4> QED
        BY <3>1, <4>1
    <3>3. c = [nal |-> i, k |-> k + j - 1]
      BY <2>2, <3>2 DEF AnyCell
    <3>4. c = s[j] /\ j \in 1 .. Len(s)
      BY <1>1, <3>3
    <3> QED
      BY <3>4 DEF Members
  <2> QED
    BY <2>1, <2>2
<1> QED
  BY <1>2, <1>3, <1>4 DEF s

\* The cells that str says were put into the pipe.
PutOf(str) ==
    {c \in AnyCell : c.nal \in 1 .. Len(str) /\ c.k < str[c.nal].put}

LEMMA PutIs ==
    ASSUME NEW str, Len(str) \in Nat, DOMAIN str = 1 .. Len(str),
           \A i \in 1 .. Len(str) : str[i].put \in Nat
    PROVE  PutOf(str) = UNION {{[nal |-> i, k |-> k] : k \in 0 .. str[i].put - 1} :
                                  i \in DOMAIN str}
<1> DEFINE of(i) == {[nal |-> i, k |-> k] : k \in 0 .. str[i].put - 1}
           all == UNION {of(i) : i \in DOMAIN str}
<1>1. ASSUME NEW c \in PutOf(str)
      PROVE  c \in all
  <2>1. /\ c \in AnyCell /\ c.nal \in 1 .. Len(str) /\ c.k \in 0 .. str[c.nal].put - 1
    BY DEF PutOf, AnyCell
  <2>2. c = [nal |-> c.nal, k |-> c.k]
    BY DEF PutOf, AnyCell
  <2>3. c \in of(c.nal)
    BY <2>1, <2>2
  <2> QED
    BY <2>1, <2>3
<1>2. ASSUME NEW c \in all
      PROVE  c \in PutOf(str)
  <2>1. PICK i \in 1 .. Len(str) : c \in of(i)
    OBVIOUS
  <2>2. PICK k \in 0 .. str[i].put - 1 : c = [nal |-> i, k |-> k]
    BY <2>1
  <2> QED
    BY <2>2 DEF PutOf, AnyCell
<1> QED
  BY <1>1, <1>2
-----------------------------------------------------------------------------
(***************************************************************************)
(* From the pipe to the client                                             *)
(***************************************************************************)
\* The sets of cells G sent, P kept, D drained and Q in the pipe lie in this order; they and
\* what the purger took, T, were put into the pipe, W; and after the first cell of them
\* nothing that was put is missing but what the purger took.
Gapless(G, P, D, Q, T, W) ==
    /\ Precede(G, P) /\ Precede(G, D) /\ Precede(G, Q)
    /\ Precede(P, D) /\ Precede(P, Q) /\ Precede(D, Q)
    /\ G \subseteq W /\ P \subseteq W /\ D \subseteq W /\ Q \subseteq W /\ T \subseteq W
    /\ Precede(T, Q)
    /\ \A c \in W, e \in G \cup P \cup D \cup Q :
         Before(e, c) => c \in T \cup G \cup P \cup D \cup Q

\* The front X of the buffer is thrown away, the rest Y is kept.
LEMMA KeptGapless ==
    ASSUME NEW X, NEW Y, NEW Q, NEW T, NEW W, W \subseteq AnyCell,
           Gapless({}, {}, X \cup Y, Q, T, W), Precede(X, Y)
    PROVE  Gapless({}, Y, {}, Q, T, W)
<1>1. ASSUME NEW c \in X, NEW e \in Y \cup Q
      PROVE  ~Before(e, c)
  <2>1. Before(c, e)
    BY DEF Gapless, Precede
  <2>2. c \in AnyCell /\ e \in AnyCell
    BY DEF Gapless
  <2> QED
    BY <2>1, <2>2, BeforeOrders
<1> QED
  BY <1>1 DEF Gapless, Precede

\* The server empties the pipe into the buffer; it serves from the tail, or the pipe.
LEMMA MovedGapless ==
    ASSUME NEW G, NEW P, NEW D, NEW X, NEW Y, NEW T, NEW W, Precede(X, Y)
    PROVE  /\ Gapless(G, P, D, X \cup Y, T, W) => Gapless(G, P, D \cup X, Y, T, W)
           /\ Gapless(G, X \cup Y, {}, D, T, W) => Gapless(G \cup X, Y, {}, D, T, W)
           /\ Gapless(G, {}, {}, X \cup Y, T, W) => Gapless(G \cup X, {}, {}, Y, T, W)
BY DEF Gapless, Precede

\* The purger takes the front X of the pipe.
LEMMA PurgedGapless ==
    ASSUME NEW G, NEW P, NEW D, NEW X, NEW Y, NEW T, NEW W,
           Gapless(G, P, D, X \cup Y, T, W), Precede(X, Y)
    PROVE  Gapless(G, P, D, Y, T \cup X, W)
BY DEF Gapless, Precede

\* While nobody reads, what is taken from the front of the pipe may be forgotten.
LEMMA ForgottenGapless ==
    ASSUME NEW X, NEW Y, NEW T, NEW W, W \subseteq AnyCell,
           Gapless({}, {}, {}, X \cup Y, T, W), Precede(X, Y)
    PROVE  Gapless({}, {}, {}, Y, T, W)
<1>1. ASSUME NEW c \in X, NEW e \in Y
      PROVE  ~Before(e, c)
  <2>1. Before(c, e)
    BY DEF Precede
  <2>2. c \in AnyCell /\ e \in AnyCell
    BY DEF Gapless
  <2> QED
    BY <2>1, <2>2, BeforeOrders
<1> QED
  BY <1>1 DEF Gapless, Precede

\* A client that leaves takes all with it but what is in the pipe.
LEMMA LeftGapless ==
    ASSUME NEW G, NEW P, NEW D, NEW Q, NEW T, NEW W, W \subseteq AnyCell,
           Gapless(G, P, D, Q, T, W)
    PROVE  Gapless({}, {}, {}, Q, {}, W) /\ Gapless({}, {}, {}, {}, {}, W)
<1>1. ASSUME NEW c \in T \cup G \cup P \cup D, NEW e \in Q
      PROVE  ~Before(e, c)
  <2>1. Before(c, e)
    BY DEF Gapless, Precede
  <2>2. c \in AnyCell /\ e \in AnyCell
    BY DEF Gapless
  <2> QED
    BY <2>1, <2>2, BeforeOrders
<1> QED
  BY <1>1 DEF Gapless, Precede

\* The cells N are put into the pipe, after all others.
LEMMA WrittenGapless ==
    ASSUME NEW G, NEW P, NEW D, NEW Q, NEW T, NEW W, NEW N,
           W \subseteq AnyCell, N \subseteq AnyCell,
           Gapless(G, P, D, Q, T, W), Precede(W, N)
    PROVE  Gapless(G, P, D, Q \cup N, T, W \cup N)
<1>1. ASSUME NEW c \in W, NEW e \in N
      PROVE  ~Before(e, c)
  <2>1. Before(c, e)
    BY DEF Precede
  <2> QED
    BY <2>1, BeforeOrders
<1> QED
  BY <1>1 DEF Gapless, Precede

FlowIInv ==
    /\ InOrder(got) /\ InOrder(pending) /\ InOrder(drained) /\ InOrder(pipe)
    /\ Gapless(Members(got), Members(pending), Members(drained), Members(pipe),
               purged, PutOf(stream))

\* The first n cells are taken off the front of s.
LEMMA CutInOrder ==
    ASSUME NEW S, NEW s \in Seq(S), NEW n \in 0 .. Len(s), InOrder(s)
    PROVE  LET c == SubSeq(s, 1, n)
               d == SubSeq(s, n + 1, Len(s))
           IN  /\ InOrder(c) /\ InOrder(d)
               /\ Members(s) = Members(c) \cup Members(d)
               /\ Precede(Members(c), Members(d))
BY CutSplices, SplicedMembers, SplicedApart

LEMMA JoinInOrder ==
    ASSUME NEW S, NEW a \in Seq(S), NEW b \in Seq(S), InOrder(a), InOrder(b),
           Precede(Members(a), Members(b))
    PROVE  InOrder(a \o b) /\ Members(a \o b) = Members(a) \cup Members(b)
BY JoinSplices, SplicedMembers, SplicedOrder

LEMMA FlowTypes ==
    ASSUME SourceIInv
    PROVE  /\ got \in Seq(Cell) /\ pending \in Seq(Cell) /\ drained \in Seq(Cell)
           /\ pipe \in Seq(Cell)
           /\ Len(pending) \in Nat /\ Len(drained) \in Nat /\ Len(pipe) \in Nat
           /\ Cell \subseteq AnyCell
           /\ Len(stream) \in Nat /\ DOMAIN stream = 1 .. Len(stream)
           /\ \A i \in 1 .. Len(stream) : stream[i].put \in Nat
<1>1. FifoTypeOK /\ SourceTypes
  BY DEF SourceIInv, GateIInv
<1>2. /\ got \in Seq(Cell) /\ pending \in Seq(Cell) /\ drained \in Seq(Cell)
      /\ pipe \in Seq(Cell)
  BY <1>1 DEF SourceTypes, FifoTypeOK
<1>3. Cell \subseteq AnyCell
  BY DEF Cell, AnyCell
<1> QED
  BY <1>1, <1>2, <1>3, StreamType

\* A write of n cells of NAL i, from k, where the stream holds as many of it.
LEMMA PutAppends ==
    ASSUME SourceIInv, FlowIInv, NEW i \in Nat, NEW k \in Nat, NEW n \in Nat,
           pipe' = pipe \o CellsOf(i, k, n),
           Precede(PutOf(stream), Members(CellsOf(i, k, n))),
           PutOf(stream') = PutOf(stream) \cup Members(CellsOf(i, k, n)),
           CellsOf(i, k, n) \in Seq(AnyCell),
           UNCHANGED <<got, pending, drained, purged>>
    PROVE  FlowIInv'
<1>1. PICK new : new = CellsOf(i, k, n)
  OBVIOUS
<1>2. InOrder(new) /\ Members(new) \subseteq AnyCell /\ new \in Seq(AnyCell)
  BY <1>1, CellsInOrder
<1>3. pipe \in Seq(AnyCell)
  BY FlowTypes, Wider
<1>4. Members(pipe) \subseteq PutOf(stream)
  BY DEF FlowIInv, Gapless
<1>5. Precede(Members(pipe), Members(new))
  BY <1>1, <1>4 DEF Precede
<1>6. InOrder(pipe \o new) /\ Members(pipe \o new) = Members(pipe) \cup Members(new)
  BY <1>2, <1>3, <1>5, JoinInOrder DEF FlowIInv
<1>7. pipe' = pipe \o new
  BY <1>1
<1>8. InOrder(pipe') /\ Members(pipe') = Members(pipe) \cup Members(new)
  BY <1>6, <1>7
<1>9. PutOf(stream) \subseteq AnyCell
  BY DEF PutOf
<1>10. Gapless(Members(got), Members(pending), Members(drained), Members(pipe'), purged,
               PutOf(stream'))
  <2>1. /\ Precede(PutOf(stream), Members(new))
        /\ PutOf(stream') = PutOf(stream) \cup Members(new)
    BY <1>1
  <2>2. Gapless(Members(got), Members(pending), Members(drained), Members(pipe), purged,
                PutOf(stream))
    BY DEF FlowIInv
  <2>3. Gapless(Members(got), Members(pending), Members(drained), Members(pipe) \cup Members(new),
                purged, PutOf(stream) \cup Members(new))
    BY <1>2, <1>9, <2>1, <2>2, WrittenGapless
  <2> QED
    BY <1>8, <2>1, <2>3
<1> QED
  BY <1>8, <1>10 DEF FlowIInv

LEMMA CellsTyped ==
    ASSUME NEW i \in Nat, NEW k \in Nat, NEW n \in Nat
    PROVE  CellsOf(i, k, n) \in Seq(AnyCell)
<1> DEFINE c(j) == [nal |-> i, k |-> k + j - 1]
<1>1. \A j \in 1 .. n : c(j) \in AnyCell
  BY DEF AnyCell
<1>2. CellsOf(i, k, n) = [j \in 1 .. n |-> c(j)]
  BY DEF CellsOf
<1> HIDE DEF c
<1> QED
  BY <1>1, <1>2

LEMMA FlowWriteChain ==
    ASSUME SourceIInv, FlowIInv, WriteChain, UNCHANGED source
    PROVE  FlowIInv'
<1> DEFINE L == Len(stream)
           n == Written(NalLen[Head(todo)] - off)
           new == CellsOf(L, off, n)
<1>1. /\ FifoTypeOK /\ WritingLast /\ writing = TRUE
  <2>1. writing /\ writing \in BOOLEAN
    BY DEF SourceIInv, GateIInv, FifoTypeOK, WriteChain
  <2> QED
    BY <2>1 DEF SourceIInv, GateIInv
<1>2. /\ todo \in Seq(Kinds) /\ todo # <<>> /\ stream # <<>> /\ off \in Nat
      /\ stream[L].put = off /\ off < NalLen[Head(todo)]
  BY <1>1 DEF WritingLast, FifoTypeOK
<1>3. n \in Nat /\ L \in 1 .. L /\ L \in Nat
  <2>1. Head(todo) \in Kinds
    BY <1>2
  <2>2. NalLen[Head(todo)] \in Nat
    BY <2>1, PipeAssumption
  <2>3. NalLen[Head(todo)] - off \in Nat
    BY <1>2, <2>2
  <2>4. L \in Nat /\ stream \in Seq(Nal)
    BY <1>1 DEF FifoTypeOK
  <2>5. L # 0
    BY <1>2, <2>4
  <2>6. n \in Nat
    BY <1>1, <2>3, WrittenFits
  <2> HIDE DEF L, n
  <2> QED
    BY <2>4, <2>5, <2>6
<1>4. /\ pipe' = pipe \o new
      /\ stream' = [stream EXCEPT ![L].put = @ + n]
      /\ UNCHANGED <<got, pending, drained, purged>>
  BY DEF WriteChain, source
<1> HIDE DEF n, L
<1>5. stream \in Seq(Nal) /\ L = Len(stream)
  BY <1>1 DEF FifoTypeOK, L
<1>6. /\ Len(stream') = L
      /\ \A j \in 1 .. L : j # L => stream'[j].put = stream[j].put
      /\ stream'[L].put = off + n
  <2>1. stream[L] \in Nal
    BY <1>3, <1>5
  <2>2. /\ Len(stream') = L /\ \A j \in 1 .. L : j # L => stream'[j] = stream[j]
        /\ stream'[L] = [stream[L] EXCEPT !.put = @ + n]
    BY <1>3, <1>4, <1>5
  <2> QED
    BY <1>2, <2>1, <2>2 DEF Nal
<1>7. \A c \in AnyCell : c \in Members(new) <=> c.nal = L /\ off <= c.k /\ c.k < off + n
  BY <1>2, <1>3, CellsInOrder
<1>8. Members(new) \subseteq AnyCell /\ new \in Seq(AnyCell)
  BY <1>2, <1>3, CellsInOrder, CellsTyped
<1> HIDE DEF new
<1>9. PutOf(stream') = PutOf(stream) \cup Members(new)
  <2>1. ASSUME NEW c \in AnyCell
        PROVE  c \in PutOf(stream') <=> c \in PutOf(stream) \/ c \in Members(new)
    <3>1. c.nal \in Nat /\ c.k \in Nat
      BY DEF AnyCell
    <3>2. CASE c.nal = L
      <4>1. c \in PutOf(stream') <=> c.k < off + n
        BY <1>3, <1>6, <3>2 DEF PutOf
      <4>2. c \in PutOf(stream) <=> c.k < off
        BY <1>2, <1>3, <1>5, <3>2 DEF PutOf
      <4>3. c \in Members(new) <=> off <= c.k /\ c.k < off + n
        BY <1>7, <3>2
      <4> QED
        BY <1>2, <1>3, <3>1, <4>1, <4>2, <4>3
    <3>3. CASE c.nal # L
      <4>1. c \notin Members(new)
        BY <1>7, <3>3
      <4>2. c \in PutOf(stream') <=> c \in PutOf(stream)
        BY <1>5, <1>6, <3>3 DEF PutOf
      <4> QED
        BY <4>1, <4>2
    <3> QED
      BY <3>2, <3>3
  <2> QED
    BY <1>8, <2>1 DEF PutOf
<1>10. Precede(PutOf(stream), Members(new))
  <2>1. ASSUME NEW c \in PutOf(stream), NEW d \in Members(new)
        PROVE  Before(c, d)
    <3>1. c.nal \in 1 .. L /\ c.k \in Nat /\ c.k < stream[c.nal].put
      BY <1>5 DEF PutOf, AnyCell
    <3>2. d.nal = L /\ off <= d.k /\ d.k \in Nat
      BY <1>7, <1>8 DEF AnyCell
    <3>3. CASE c.nal = L
      BY <1>2, <3>1, <3>2, <3>3 DEF Before
    <3>4. CASE c.nal # L
      BY <1>3, <3>1, <3>2, <3>4 DEF Before
    <3> QED
      BY <3>3, <3>4
  <2> QED
    BY <2>1 DEF Precede
<1> QED
  BY <1>2, <1>3, <1>4, <1>8, <1>9, <1>10, PutAppends DEF new

LEMMA FlowWriteSlice ==
    ASSUME SourceIInv, FlowIInv, WriteSlice, UNCHANGED source, UNCHANGED purged,
           pipe' # pipe \/ stream' # stream
    PROVE  FlowIInv'
<1> DEFINE L == Len(stream)
           n == Written(NalLen["p"])
           new == CellsOf(L + 1, 0, n)
           nal == [kind |-> "p", put |-> n, by |-> starts]
<1>1. /\ pipe' = pipe \o new /\ stream' = Append(stream, nal)
      /\ UNCHANGED <<got, pending, drained, purged>>
  BY DEF WriteSlice, source
<1>2. n \in Nat /\ L \in Nat /\ L + 1 \in Nat /\ stream \in Seq(Nal)
  <2>1. FifoTypeOK
    BY DEF SourceIInv, GateIInv
  <2>2. NalLen["p"] \in Nat
    BY PipeAssumption DEF Kinds
  <2>3. stream \in Seq(Nal)
    BY <2>1 DEF FifoTypeOK
  <2>4. L \in Nat
    BY <2>3
  <2>5. n \in Nat
    BY <2>1, <2>2, WrittenFits
  <2> HIDE DEF L, n
  <2> QED
    BY <2>3, <2>4, <2>5
<1> HIDE DEF n
<1>3. /\ Len(stream') = L + 1
      /\ \A j \in 1 .. L : stream'[j].put = stream[j].put
      /\ stream'[L + 1].put = n
  <2>1. /\ Len(stream') = L + 1 /\ \A j \in 1 .. L : stream'[j] = stream[j]
        /\ stream'[L + 1] = nal
    BY <1>1, <1>2
  <2> QED
    BY <2>1
<1> HIDE DEF nal, L
<1>4. L = Len(stream)
  BY DEF L
<1>5. \A c \in AnyCell : c \in Members(new) <=> c.nal = L + 1 /\ 0 <= c.k /\ c.k < 0 + n
  BY <1>2, CellsInOrder
<1>6. Members(new) \subseteq AnyCell /\ new \in Seq(AnyCell)
  BY <1>2, CellsInOrder, CellsTyped
<1> HIDE DEF new
<1>7. PutOf(stream') = PutOf(stream) \cup Members(new)
  <2>1. ASSUME NEW c \in AnyCell
        PROVE  c \in PutOf(stream') <=> c \in PutOf(stream) \/ c \in Members(new)
    <3>1. c.nal \in Nat /\ c.k \in Nat
      BY DEF AnyCell
    <3>2. CASE c.nal = L + 1
      <4>1. c \in PutOf(stream') <=> c.k < n
        BY <1>2, <1>3, <3>2 DEF PutOf
      <4>2. c \notin PutOf(stream)
        BY <1>2, <1>4, <3>2 DEF PutOf
      <4>3. c \in Members(new) <=> c.k < n
        BY <1>2, <1>5, <3>1, <3>2
      <4> QED
        BY <4>1, <4>2, <4>3
    <3>3. CASE c.nal # L + 1
      <4>1. c \notin Members(new)
        BY <1>5, <3>3
      <4>2. c.nal \in 1 .. L + 1 <=> c.nal \in 1 .. L
        BY <1>2, <3>1, <3>3
      <4>3. c \in PutOf(stream') <=> c \in PutOf(stream)
        BY <1>3, <1>4, <4>2 DEF PutOf
      <4> QED
        BY <4>1, <4>3
    <3> QED
      BY <3>2, <3>3
  <2> QED
    BY <1>6, <2>1 DEF PutOf
<1>8. Precede(PutOf(stream), Members(new))
  <2>1. ASSUME NEW c \in PutOf(stream), NEW d \in Members(new)
        PROVE  Before(c, d)
    <3>1. c.nal \in 1 .. L
      BY <1>4 DEF PutOf
    <3>2. d.nal = L + 1
      BY <1>5, <1>6
    <3> QED
      BY <1>2, <3>1, <3>2 DEF Before
  <2> QED
    BY <2>1 DEF Precede
<1>9. pipe' = pipe \o CellsOf(L + 1, 0, n)
  BY <1>1 DEF new
<1> QED
  BY <1>1, <1>2, <1>6, <1>7, <1>8, <1>9, PutAppends DEF new

\* A chain NAL joins the stream before anything of it is written.
LEMMA FlowPassChain ==
    ASSUME SourceIInv, PassChainNal
    PROVE  PutOf(stream') = PutOf(stream)
<1> DEFINE L == Len(stream)
<1>1. L \in Nat /\ stream \in Seq(Nal)
  BY DEF SourceIInv, GateIInv, FifoTypeOK
<1>2. PICK kind, by : stream' = Append(stream, [kind |-> kind, put |-> 0, by |-> by])
  BY DEF PassChainNal
<1>3. /\ Len(stream') = L + 1 /\ \A j \in 1 .. L : stream'[j] = stream[j]
      /\ stream'[L + 1].put = 0
  BY <1>1, <1>2
<1>4. ASSUME NEW c \in AnyCell
      PROVE  c \in PutOf(stream') <=> c \in PutOf(stream)
  <2>1. c.nal \in Nat /\ c.k \in Nat
    BY DEF AnyCell
  <2>2. CASE c.nal = L + 1
    BY <1>1, <1>3, <2>1, <2>2 DEF PutOf
  <2>3. CASE c.nal # L + 1
    <3>1. c.nal \in 1 .. L + 1 <=> c.nal \in 1 .. L
      BY <1>1, <2>1, <2>3
    <3> QED
      BY <1>3, <3>1 DEF PutOf
  <2> QED
    BY <2>2, <2>3
<1> QED
  BY <1>4 DEF PutOf

LEMMA FlowPurge ==
    ASSUME SourceIInv, FlowIInv, PurgeRead(spc # "closed"), UNCHANGED source
    PROVE  FlowIInv'
<1> DEFINE n == Lesser(Lesser(pn - PurgeTrim, DrainBuf), Len(pipe))
           x == SubSeq(pipe, 1, n)
           y == SubSeq(pipe, n + 1, Len(pipe))
<1>1. FifoTypeOK /\ pipe \in Seq(Cell) /\ Len(pipe) \in Nat
  BY FlowTypes DEF SourceIInv, GateIInv
<1>2. n \in 0 .. Len(pipe)
  BY <1>1, PipeAssumption DEF PurgeRead, Lesser, FifoTypeOK
<1>3. /\ pipe' = y
      /\ purged' = IF spc # "closed" THEN purged \cup {pipe[i] : i \in 1 .. n} ELSE purged
      /\ UNCHANGED <<got, pending, drained, stream>>
  BY DEF PurgeRead, source
<1> HIDE DEF n
<1>4. /\ InOrder(x) /\ InOrder(y) /\ Members(pipe) = Members(x) \cup Members(y)
      /\ Precede(Members(x), Members(y))
  BY <1>1, <1>2, CutInOrder DEF FlowIInv
<1>5. {pipe[i] : i \in 1 .. n} = Members(x)
  <2>1. Len(x) = n /\ \A i \in 1 .. n : x[i] = pipe[i]
    BY <1>1, <1>2
  <2> HIDE DEF x
  <2> QED
    BY <2>1 DEF Members
<1> HIDE DEF x, y
<1>6. Gapless(Members(got), Members(pending), Members(drained), Members(x) \cup Members(y),
              purged, PutOf(stream))
  BY <1>4 DEF FlowIInv
<1>7. Gapless(Members(got), Members(pending), Members(drained), Members(y), purged',
              PutOf(stream))
  <2>1. CASE spc # "closed"
    BY <1>3, <1>4, <1>5, <1>6, <2>1, PurgedGapless
  <2>2. CASE spc = "closed"
    <3>1. Members(got) = {} /\ Members(pending) = {} /\ Members(drained) = {}
      BY <2>2, NoMembers DEF SourceIInv, Phased
    <3>2. purged' = purged /\ PutOf(stream) \subseteq AnyCell
      BY <1>3, <2>2 DEF PutOf
    <3> QED
      BY <1>4, <1>6, <3>1, <3>2, ForgottenGapless
  <2> QED
    BY <2>1, <2>2
<1> QED
  BY <1>3, <1>4, <1>7 DEF FlowIInv

\* The producer dies while nobody reads: the kernel throws the pipe away.
LEMMA FlowStop ==
    ASSUME SourceIInv, FlowIInv, StopProducer(spc # "closed"), UNCHANGED source
    PROVE  FlowIInv'
<1>1. UNCHANGED <<got, pending, drained, purged, stream>>
  BY DEF StopProducer, source
<1>2. CASE pipe' = pipe
  BY <1>1, <1>2 DEF FlowIInv
<1>3. CASE pipe' # pipe
  <2>1. pipe' = <<>> /\ spc = "closed"
    BY <1>3 DEF StopProducer
  <2>2. Members(got) = {} /\ Members(pending) = {} /\ Members(drained) = {}
    BY <2>1, NoMembers DEF SourceIInv, Phased
  <2>3. Members(pipe') = {} /\ InOrder(pipe')
    BY <2>1, NoMembers
  <2>4. Gapless({}, {}, {}, {}, purged, PutOf(stream))
    BY DEF FlowIInv, Gapless, Precede
  <2> QED
    BY <1>1, <2>2, <2>3, <2>4 DEF FlowIInv
<1> QED
  BY <1>2, <1>3

LEMMA FlowDrainRead ==
    ASSUME SourceIInv, FlowIInv, DrainRead
    PROVE  FlowIInv'
<1> DEFINE n == Lesser(Len(pipe), DrainCap - Len(drained))
           x == SubSeq(pipe, 1, n)
           y == SubSeq(pipe, n + 1, Len(pipe))
<1>1. /\ pipe \in Seq(Cell) /\ drained \in Seq(Cell)
      /\ Len(pipe) \in Nat /\ Len(drained) \in Nat
  BY FlowTypes
<1>2. n \in 0 .. Len(pipe)
  BY <1>1, SourceAssumption DEF DrainRead, Lesser
<1>3. /\ drained' = drained \o x /\ pipe' = y
      /\ UNCHANGED <<got, pending, purged, stream>>
  BY DEF DrainRead, history
<1> HIDE DEF n
<1>4. /\ InOrder(x) /\ InOrder(y) /\ Members(pipe) = Members(x) \cup Members(y)
      /\ Precede(Members(x), Members(y))
  BY <1>1, <1>2, CutInOrder DEF FlowIInv
<1>5. x \in Seq(Cell)
  BY <1>1, <1>2, First
<1> HIDE DEF x, y
<1>6. Gapless(Members(got), Members(pending), Members(drained), Members(x) \cup Members(y),
              purged, PutOf(stream))
  BY <1>4 DEF FlowIInv
<1>7. Precede(Members(drained), Members(x))
  BY <1>6 DEF Gapless, Precede
<1>8. InOrder(drained \o x) /\ Members(drained \o x) = Members(drained) \cup Members(x)
  BY <1>1, <1>4, <1>5, <1>7, JoinInOrder DEF FlowIInv
<1>9. Gapless(Members(got), Members(pending), Members(drained) \cup Members(x), Members(y),
              purged, PutOf(stream))
  BY <1>4, <1>6, MovedGapless
<1>10. InOrder(drained') /\ Members(drained') = Members(drained) \cup Members(x)
  BY <1>3, <1>8
<1> QED
  BY <1>3, <1>4, <1>9, <1>10 DEF FlowIInv

LEMMA FlowDrainScan ==
    ASSUME SourceIInv, FlowIInv, DrainScan
    PROVE  FlowIInv'
<1> DEFINE done == Scanned(drained).found = 2 \/ attempt + 1 = Attempts
           n == Scanned(drained).keep - 1
           x == SubSeq(drained, 1, n)
           y == SubSeq(drained, n + 1, Len(drained))
           kept == SubSeq(drained, Scanned(drained).keep, Len(drained))
<1>1. /\ pending' = IF done THEN kept ELSE pending
      /\ drained' = IF done THEN <<>> ELSE drained
      /\ UNCHANGED <<got, pipe, purged, stream>>
  BY Zenon DEF DrainScan, history
<1>2. drained \in Seq(Cell)
  BY FlowTypes
<1>3. n \in 0 .. Len(drained) /\ kept = y
  BY <1>2, ScanKeepsEnd
<1> HIDE DEF n, done, kept
<1>4. CASE ~done
  BY <1>1, <1>4 DEF FlowIInv
<1>5. CASE done
  <2>1. /\ InOrder(x) /\ InOrder(y) /\ Members(drained) = Members(x) \cup Members(y)
        /\ Precede(Members(x), Members(y))
    BY <1>2, <1>3, CutInOrder DEF FlowIInv
  <2>2. pending' = y /\ drained' = <<>>
    BY <1>1, <1>3, <1>5
  <2> HIDE DEF x, y
  <2>3. Members(got) = {} /\ Members(pending) = {}
    BY NoMembers DEF SourceIInv, Phased, DrainScan
  <2>4. Gapless({}, {}, Members(x) \cup Members(y), Members(pipe), purged, PutOf(stream))
    BY <2>1, <2>3 DEF FlowIInv
  <2>5. Gapless({}, Members(y), {}, Members(pipe), purged, PutOf(stream))
    <3>1. PutOf(stream) \subseteq AnyCell
      BY DEF PutOf
    <3> QED
      BY <2>1, <2>4, <3>1, KeptGapless
  <2>6. Members(drained') = {} /\ InOrder(drained')
    BY <2>2, NoMembers
  <2> QED
    BY <1>1, <2>1, <2>2, <2>3, <2>5, <2>6 DEF FlowIInv
<1> QED
  BY <1>4, <1>5

LEMMA FlowServePending ==
    ASSUME SourceIInv, FlowIInv, ServePending
    PROVE  FlowIInv'
<1> DEFINE n == Lesser(FrameMax, Len(pending))
           x == SubSeq(pending, 1, n)
           y == SubSeq(pending, n + 1, Len(pending))
<1>1. pending \in Seq(Cell) /\ got \in Seq(Cell) /\ Len(pending) \in Nat
  BY FlowTypes
<1>2. n \in 0 .. Len(pending)
  BY <1>1, SourceAssumption DEF Lesser
<1>3. /\ got' = got \o x /\ pending' = y
      /\ UNCHANGED <<drained, pipe, purged, stream>>
  BY DEF ServePending, history
<1> HIDE DEF n
<1>4. /\ InOrder(x) /\ InOrder(y) /\ Members(pending) = Members(x) \cup Members(y)
      /\ Precede(Members(x), Members(y))
  BY <1>1, <1>2, CutInOrder DEF FlowIInv
<1>5. x \in Seq(Cell)
  BY <1>1, <1>2, First
<1> HIDE DEF x, y
<1>6. Members(drained) = {}
  BY NoMembers DEF SourceIInv, Phased, ServePending
<1>7. Gapless(Members(got), Members(x) \cup Members(y), {}, Members(pipe), purged,
              PutOf(stream))
  BY <1>4, <1>6 DEF FlowIInv
<1>8. Precede(Members(got), Members(x))
  BY <1>7 DEF Gapless, Precede
<1>9. InOrder(got \o x) /\ Members(got \o x) = Members(got) \cup Members(x)
  BY <1>1, <1>4, <1>5, <1>8, JoinInOrder DEF FlowIInv
<1>10. Gapless(Members(got) \cup Members(x), Members(y), {}, Members(pipe), purged,
               PutOf(stream))
  BY <1>4, <1>7, MovedGapless
<1>11. InOrder(got') /\ Members(got') = Members(got) \cup Members(x)
  BY <1>3, <1>9
<1> QED
  BY <1>3, <1>4, <1>6, <1>10, <1>11 DEF FlowIInv

LEMMA FlowServeFifo ==
    ASSUME SourceIInv, FlowIInv, ServeFifo
    PROVE  FlowIInv'
<1> DEFINE n == Lesser(FrameMax, Len(pipe))
           x == SubSeq(pipe, 1, n)
           y == SubSeq(pipe, n + 1, Len(pipe))
<1>1. pipe \in Seq(Cell) /\ got \in Seq(Cell) /\ Len(pipe) \in Nat
  BY FlowTypes
<1>2. n \in 0 .. Len(pipe)
  BY <1>1, SourceAssumption DEF Lesser
<1>3. /\ got' = got \o x /\ pipe' = y
      /\ UNCHANGED <<drained, pending, purged, stream>>
  BY DEF ServeFifo, history
<1> HIDE DEF n
<1>4. /\ InOrder(x) /\ InOrder(y) /\ Members(pipe) = Members(x) \cup Members(y)
      /\ Precede(Members(x), Members(y))
  BY <1>1, <1>2, CutInOrder DEF FlowIInv
<1>5. x \in Seq(Cell)
  BY <1>1, <1>2, First
<1> HIDE DEF x, y
<1>6. Members(drained) = {} /\ Members(pending) = {}
  BY NoMembers DEF SourceIInv, Phased, ServeFifo
<1>7. Gapless(Members(got), {}, {}, Members(x) \cup Members(y), purged, PutOf(stream))
  BY <1>4, <1>6 DEF FlowIInv
<1>8. Precede(Members(got), Members(x))
  BY <1>7 DEF Gapless, Precede
<1>9. InOrder(got \o x) /\ Members(got \o x) = Members(got) \cup Members(x)
  BY <1>1, <1>4, <1>5, <1>8, JoinInOrder DEF FlowIInv
<1>10. Gapless(Members(got) \cup Members(x), {}, {}, Members(y), purged, PutOf(stream))
  BY <1>4, <1>7, MovedGapless
<1>11. InOrder(got') /\ Members(got') = Members(got) \cup Members(x)
  BY <1>3, <1>9
<1> QED
  BY <1>3, <1>4, <1>6, <1>10, <1>11 DEF FlowIInv

LEMMA FlowClosed ==
    ASSUME SourceIInv, FlowIInv, spc = "serve", Closed
    PROVE  FlowIInv'
<1>1. /\ pending' = <<>> /\ got' = <<>> /\ purged' = {} /\ drained' = drained
      /\ stream' = stream /\ (pipe' = pipe \/ pipe' = <<>>)
  BY DEF Closed
<1>2. drained = <<>>
  BY DEF SourceIInv, Phased
<1>3. PutOf(stream) \subseteq AnyCell
  BY DEF PutOf
<1>4. /\ Gapless({}, {}, {}, Members(pipe), {}, PutOf(stream))
      /\ Gapless({}, {}, {}, {}, {}, PutOf(stream))
  BY <1>3, LeftGapless DEF FlowIInv
<1>5. /\ Members(pending') = {} /\ Members(got') = {} /\ Members(drained') = {}
      /\ InOrder(pending') /\ InOrder(got') /\ InOrder(drained')
  BY <1>1, <1>2, NoMembers
<1>6. CASE pipe' = pipe
  BY <1>1, <1>4, <1>5, <1>6 DEF FlowIInv
<1>7. CASE pipe' = <<>>
  BY <1>1, <1>4, <1>5, <1>7, NoMembers DEF FlowIInv
<1> QED
  BY <1>1, <1>6, <1>7

LEMMA FlowStep ==
    ASSUME SourceIInv, FlowIInv, [Next]_vars
    PROVE  FlowIInv'
<1> DEFINE Same == /\ UNCHANGED <<got, pending, drained, pipe, purged>>
                   /\ PutOf(stream') = PutOf(stream)
<1>1. ASSUME Same PROVE FlowIInv'
  BY <1>1 DEF FlowIInv
<1>2. UNCHANGED <<got, pending, drained, pipe, purged, stream>> => Same
  OBVIOUS
<1> HIDE DEF Same
<1>3. CASE ProducerAction
  <2>1. UNCHANGED source /\ ProducerStep
    BY <1>3 DEF ProducerAction
  <2>2. UNCHANGED <<got, pending, drained>>
    BY <2>1 DEF source
  <2>3. CASE StartProducer \/ Deliver \/ DropNal \/ PurgeSample
    <3>1. UNCHANGED <<pipe, purged, stream>>
      BY <2>3 DEF StartProducer, Deliver, DropNal, PurgeSample, history
    <3> QED
      BY <1>1, <1>2, <2>2, <3>1
  <2>4. CASE PassChainNal
    <3>1. PutOf(stream') = PutOf(stream)
      BY <2>4, FlowPassChain
    <3>2. UNCHANGED <<pipe, purged>>
      BY <2>4 DEF PassChainNal
    <3> QED
      BY <1>1, <2>2, <3>1, <3>2 DEF Same
  <2>5. CASE WriteChain
    BY <2>1, <2>5, FlowWriteChain
  <2>6. CASE WriteSlice
    <3>1. UNCHANGED purged
      BY <2>6 DEF WriteSlice
    <3>2. CASE pipe' = pipe /\ stream' = stream
      BY <1>1, <1>2, <2>2, <3>1, <3>2
    <3>3. CASE pipe' # pipe \/ stream' # stream
      BY <2>1, <2>6, <3>1, <3>3, FlowWriteSlice
    <3> QED
      BY <3>2, <3>3
  <2>7. CASE PurgeRead(spc # "closed")
    BY <2>1, <2>7, FlowPurge
  <2>8. CASE StopProducer(spc # "closed")
    BY <2>1, <2>8, FlowStop
  <2> QED
    BY <2>1, <2>3, <2>4, <2>5, <2>6, <2>7, <2>8 DEF ProducerStep, EmitStep, PurgeStep
<1>4. CASE Open \/ UNCHANGED vars
  <2>1. UNCHANGED <<got, pending, drained, pipe, purged, stream>>
    BY <1>4 DEF Open, vars, source, history
  <2> QED
    BY <1>1, <1>2, <2>1
<1>5. CASE DrainStep
  BY <1>5, FlowDrainRead, FlowDrainScan DEF DrainStep
<1>6. CASE ServeEnd \/ Close
  <2>1. spc = "serve" /\ Closed
    BY <1>6 DEF ServeEnd, Close
  <2> QED
    BY <2>1, FlowClosed
<1>7. CASE ServeStep
  BY <1>6, <1>7, FlowServePending, FlowServeFifo DEF ServeStep
<1> QED
  BY <1>3, <1>4, <1>5, <1>6, <1>7 DEF Next

LEMMA FlowInvariant == Spec => []FlowIInv
<1>1. Init => FlowIInv
  <2> SUFFICES ASSUME Init PROVE FlowIInv
    OBVIOUS
  <2>1. /\ got = <<>> /\ pending = <<>> /\ drained = <<>> /\ pipe = <<>> /\ purged = {}
    BY DEF Init, SourceInit, FifoInit
  <2>2. Gapless({}, {}, {}, {}, {}, PutOf(stream))
    BY DEF Gapless, Precede
  <2> QED
    BY <2>1, <2>2, NoMembers DEF FlowIInv
<1>2. SourceIInv /\ FlowIInv /\ [Next]_vars => FlowIInv'
  BY FlowStep
<1> QED
  BY <1>1, <1>2, SourceInvariant, PTL DEF Spec

\* Byte for byte: whatever is written and purged while the server drains and serves, a client
\* gets what was put into the pipe, in its order, and between its first byte and its last
\* nothing is missing but what the purger took.
THEOREM ClientStreamTheorem == Spec => []ClientStream
<1>1. ASSUME SourceIInv, FlowIInv
      PROVE  ClientStream
  <2>1. got \in Seq(Cell) /\ Cell \subseteq AnyCell
    BY <1>1, FlowTypes
  <2>2. Len(got) \in Nat /\ DOMAIN got = 1 .. Len(got)
    BY <2>1
  <2>3. ASSUME NEW i \in 1 .. Len(got) - 1
        PROVE  Before(got[i], got[i + 1])
    <3>1. i \in 1 .. Len(got) /\ i + 1 \in 1 .. Len(got) /\ i < i + 1
      BY <2>2
    <3> QED
      BY <1>1, <3>1 DEF FlowIInv, InOrder
  <2>4. ASSUME got # <<>>, NEW c \in Put, Before(got[1], c), Before(c, Last(got))
        PROVE  c \in purged \/ \E i \in DOMAIN got : got[i] = c
    <3>1. PutOf(stream) = Put
      BY <1>1, FlowTypes, PutIs DEF Put
    <3>2. 1 \in 1 .. Len(got) /\ Len(got) \in 1 .. Len(got)
      BY <2>1, <2>4
    <3>3. Last(got) = got[Len(got)]
      BY DEF Last
    <3>4. got[1] \in Members(got) /\ Last(got) \in Members(got)
      BY <3>2, <3>3 DEF Members
    <3>5. c \in purged \cup Members(got) \cup Members(pending) \cup Members(drained)
                 \cup Members(pipe)
      BY <1>1, <2>4, <3>1, <3>4 DEF FlowIInv, Gapless
    <3>6. c \notin Members(pending) \cup Members(drained) \cup Members(pipe)
      <4>1. c \in Members(pending) \cup Members(drained) \cup Members(pipe)
              => Before(Last(got), c)
        BY <1>1, <3>4 DEF FlowIInv, Gapless, Precede
      <4>2. c \in AnyCell /\ Last(got) \in AnyCell
        BY <1>1, <3>1, <3>4 DEF FlowIInv, Gapless, PutOf
      <4> QED
        BY <2>4, <4>1, <4>2, BeforeOrders
    <3> QED
      BY <2>2, <3>5, <3>6 DEF Members
  <2> QED
    BY <2>3, <2>4 DEF ClientStream
<1> QED
  BY <1>1, SourceInvariant, FlowInvariant, PTL
=============================================================================
