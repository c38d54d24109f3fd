------------------------------ MODULE VideoFifo ------------------------------
(***************************************************************************)
(* The producer's side of /tmp/h264_high_fifo: emit_record of              *)
(* src/src/fshare2fifo/fshare2fifo.c, which routes the NAL units of each   *)
(* delivered record through the chain gate into a non-blocking pipe, and   *)
(* the purger thread of the same process, which trims the pipe.            *)
(*                                                                         *)
(* The pipe holds cells.  A NAL unit is NalLen[kind] cells, numbered from  *)
(* 0: cell 0 is its start code and NAL header.  A cell names the NAL it    *)
(* belongs to by its index in stream, the history of all NAL units of      *)
(* which at least one cell was offered to the pipe.                        *)
(***************************************************************************)
EXTENDS Integers, Sequences, SequencesExt

CONSTANTS
    Records,    \* what a record may carry: sequences of NAL kinds
    NalLen,     \* cells per kind of NAL
    PipeSize,   \* capacity of the pipe (F_GETPIPE_SZ)
    PipeBuf,    \* writes up to this long are never split (PIPE_BUF)
    PurgeTrim,  \* g_purge_trim
    DrainBuf,   \* sizeof drain: most that one read of the purger takes
    MaxRecs,    \* bound: records delivered in a behaviour
    MaxStarts,  \* bound: incarnations of the producer
    MaxJumps    \* bound: live-edge jumps of the reader

\* "badpps" is a PPS whose body does not parse, "sei" any kind the gate
\* does not know.
Kinds == {"sps", "pps", "badpps", "idr", "p", "aud", "sei"}

ASSUME PipeAssumption ==
    /\ Records \subseteq Seq(Kinds) \ {<<>>}
    /\ NalLen \in [Kinds -> Nat \ {0}]
    /\ PipeBuf \in Nat \ {0}
    /\ PipeSize \in Nat /\ PurgeTrim \in Nat
    /\ DrainBuf \in Nat \ {0}
    /\ MaxRecs \in Nat /\ MaxStarts \in Nat /\ MaxJumps \in Nat

\* main raises the pipe to 1 MB, so that a purge makes room for a write
\* that may not be split.  Nothing in the code verifies it.
ASSUME RoomAfterPurge == PurgeTrim + PipeBuf <= PipeSize

VARIABLES
    starts,     \* incarnations of the producer so far
    alive,      \* the producer process runs
    todo,       \* NAL units of the current record still to be emitted
    stage,      \* 0 nothing, 1 SPS, 2 SPS and PPS accepted
    chain_open, \* a chain has completed
    writing,    \* the first of todo has passed the gate and is being written
    off,        \* how much of it write_all_fd_wait has written
    pn,         \* purger: bytes it believes are in the pipe, 0 when asleep
    pipe,       \* the content of the pipe
    \* history variables
    recs,       \* records delivered so far
    stream,     \* the NAL units written, whole or in part
    jumps,      \* live-edge jumps so far
    severed,    \* the reader jumped, and no IDR has been emitted since
    purged      \* cells the purger took while the server had the fifo open

gate == <<stage, chain_open>>
emitter == <<todo, gate, writing, off>>
producer == <<starts, alive, emitter, pn, recs>>
jumped == <<jumps, severed>>
history == <<stream, jumped, purged>>

Lesser(a, b) == IF a < b THEN a ELSE b
Room == PipeSize - Len(pipe)

\* Cells k to k + n - 1 of NAL i.
CellsOf(i, k, n) == [j \in 1 .. n |-> [nal |-> i, k |-> k + j - 1]]
-----------------------------------------------------------------------------
FifoInit ==
    /\ starts = 0 /\ alive = FALSE
    /\ todo = <<>> /\ stage = 0 /\ chain_open = FALSE
    /\ writing = FALSE /\ off = 0
    /\ pn = 0 /\ pipe = <<>>
    /\ recs = 0 /\ stream = <<>> /\ purged = {}
    /\ jumps = 0 /\ severed = FALSE

\* main: the purger's read end is opened before the write end.
StartProducer ==
    /\ ~alive /\ starts < MaxStarts
    /\ alive' = TRUE
    /\ starts' = starts + 1
    /\ UNCHANGED <<emitter, pn, pipe, recs, history>>

\* emit_delivered is called with the record reader_loop took.  The reader
\* may have jumped over records to get it.
Deliver ==
    /\ alive /\ todo = <<>>
    /\ recs < MaxRecs
    /\ recs' = recs + 1
    /\ todo' \in Records
    /\ \/ UNCHANGED jumped
       \/ jumps < MaxJumps /\ jumps' = jumps + 1 /\ severed' = TRUE
    /\ UNCHANGED <<starts, alive, gate, writing, off, pn, pipe, stream, purged>>

AtNal == alive /\ todo # <<>> /\ ~writing

\* Mutant of Dropped: an IDR is let through as soon as there is an SPS.
DroppedLate(kind) ==
    \/ kind = "pps" /\ stage < 1
    \/ kind = "badpps"
    \/ kind = "idr" /\ stage < 1
    \/ kind = "p" /\ ~chain_open
    \/ kind = "aud"
    \/ kind = "sei" /\ ~chain_open /\ stage = 0

\* The chain gate: what emit_record leaves out.
Dropped(kind) ==
    \/ kind = "pps" /\ stage < 1
    \/ kind = "badpps"
    \/ kind = "idr" /\ stage < 2
    \/ kind = "p" /\ ~chain_open
    \/ kind = "aud"
    \/ kind = "sei" /\ ~chain_open /\ stage = 0

DropNal ==
    /\ AtNal
    /\ Dropped(Head(todo))
    /\ todo' = Tail(todo)
    /\ UNCHANGED <<starts, alive, gate, writing, off, pn, pipe, recs, history>>

\* Anything but a P slice is a chain NAL; SPS, PPS and IDR move the gate.
PassChainNal ==
    /\ AtNal
    /\ Head(todo) # "p" /\ ~Dropped(Head(todo))
    /\ stage' = CASE Head(todo) = "sps" -> 1
                  [] Head(todo) = "pps" -> 2
                  [] Head(todo) = "idr" -> 0
                  [] OTHER -> stage
    /\ chain_open' = (chain_open \/ Head(todo) = "idr")
    /\ writing' = TRUE
    /\ stream' = Append(stream, [kind |-> Head(todo), put |-> 0, by |-> starts])
    /\ severed' = (severed /\ Head(todo) # "idr")
    /\ UNCHANGED <<starts, alive, todo, off, pn, pipe, recs, jumps, purged>>

\* What one non-blocking write of n cells puts into the pipe; 0 is EAGAIN.
Written(n) == IF n <= PipeBuf /\ n > Room THEN 0 ELSE Lesser(n, Room)

\* Mutant of WriteChain: what a write leaves over is forgotten.
WriteChainOnce ==
    /\ alive /\ writing
    /\ LET n == Written(NalLen[Head(todo)]) IN
         /\ n > 0
         /\ pipe' = pipe \o CellsOf(Len(stream), 0, n)
         /\ stream' = [stream EXCEPT ![Len(stream)].put = n]
    /\ writing' = FALSE
    /\ todo' = Tail(todo)
    /\ UNCHANGED <<starts, alive, gate, off, pn, recs, jumped, purged>>

\* write_all_fd_wait: one write that makes progress.  A write that does
\* not is repeated after a sleep.
WriteChain ==
    /\ alive /\ writing
    /\ LET len == NalLen[Head(todo)]
           n   == Written(len - off) IN
         /\ n > 0
         /\ pipe' = pipe \o CellsOf(Len(stream), off, n)
         /\ stream' = [stream EXCEPT ![Len(stream)].put = @ + n]
         /\ IF off + n < len
              THEN off' = off + n /\ UNCHANGED <<writing, todo>>
              ELSE off' = 0 /\ writing' = FALSE /\ todo' = Tail(todo)
    /\ UNCHANGED <<starts, alive, gate, pn, recs, jumped, purged>>

\* write_whole_fd: one write, whatever it takes.
WriteSlice ==
    /\ AtNal
    /\ Head(todo) = "p" /\ ~Dropped("p")
    /\ LET n == Written(NalLen["p"]) IN
         IF n = 0 THEN UNCHANGED <<pipe, stream>>
         ELSE /\ pipe' = pipe \o CellsOf(Len(stream) + 1, 0, n)
              /\ stream' = Append(stream, [kind |-> "p", put |-> n,
                                           by |-> starts])
    /\ todo' = Tail(todo)
    /\ UNCHANGED <<starts, alive, gate, writing, off, pn, recs, jumped, purged>>

EmitStep == DropNal \/ PassChainNal \/ WriteChain \/ WriteSlice
-----------------------------------------------------------------------------
\* Mutant of PurgeSample: only while the producer is not writing.
PurgeSampleIdle ==
    /\ alive /\ pn = 0 /\ ~writing
    /\ Len(pipe) > PurgeTrim
    /\ pn' = Len(pipe)
    /\ UNCHANGED <<starts, alive, emitter, pipe, recs, history>>

\* The purger samples FIONREAD ...
PurgeSample ==
    /\ alive /\ pn = 0
    /\ Len(pipe) > PurgeTrim
    /\ pn' = Len(pipe)
    /\ UNCHANGED <<starts, alive, emitter, pipe, recs, history>>

\* ... and reads until, by its own count, PurgeTrim bytes are left.
PurgeRead(held) ==
    /\ alive /\ pn > PurgeTrim
    /\ LET r == Lesser(Lesser(pn - PurgeTrim, DrainBuf), Len(pipe)) IN
         /\ pipe' = SubSeq(pipe, r + 1, Len(pipe))
         /\ purged' = IF held THEN purged \union {pipe[i] : i \in 1 .. r} ELSE purged
         /\ pn' = IF r = 0 \/ pn - r <= PurgeTrim THEN 0 ELSE pn - r
    /\ UNCHANGED <<starts, alive, emitter, recs, stream, jumped>>

PurgeStep(held) == PurgeSample \/ PurgeRead(held)

\* The producer is killed or exits; the pipe keeps its content only while
\* the server holds a read end.
StopProducer(held) ==
    /\ alive /\ starts < MaxStarts
    /\ alive' = FALSE
    /\ todo' = <<>> /\ stage' = 0 /\ chain_open' = FALSE
    /\ writing' = FALSE /\ off' = 0 /\ pn' = 0
    /\ pipe' = IF held THEN pipe ELSE <<>>
    /\ severed' = FALSE
    /\ UNCHANGED <<starts, recs, stream, jumps, purged>>
-----------------------------------------------------------------------------
Cell == [nal : 1 .. Len(stream), k : Nat]
Nal == [kind : Kinds, put : Nat, by : Nat]

\* The values the variables of emitter, purger and pipe can have; the pipe
\* never holds more than it can.
FifoTypeOK ==
    /\ starts \in 0 .. MaxStarts /\ alive \in BOOLEAN
    /\ todo \in Seq(Kinds) /\ stage \in 0 .. 2 /\ chain_open \in BOOLEAN
    /\ writing \in BOOLEAN
    /\ ~writing => off = 0
    /\ off \in Nat
    /\ pn = 0 \/ pn \in PurgeTrim + 1 .. PipeSize
    /\ pipe \in Seq(Cell) /\ Len(pipe) <= PipeSize
    /\ recs \in 0 .. MaxRecs
    /\ stream \in Seq(Nal)
    /\ jumps \in 0 .. MaxJumps /\ severed \in BOOLEAN
    /\ purged \subseteq Cell
-----------------------------------------------------------------------------
(***************************************************************************)
(* Properties                                                              *)
(***************************************************************************)
\* The chain gate: within one run of the producer an IDR is written only
\* with an SPS and then a PPS before it, neither of them already used by
\* another IDR, and a P slice only once an IDR has been.
Opens(i, j) ==
    /\ stream[j].kind = "idr" /\ i < j /\ stream[i].kind = "sps"
    /\ \E m \in i + 1 .. j - 1 : stream[m].kind = "pps"
    /\ \A m \in i .. j - 1 :
         stream[m].by = stream[j].by /\ stream[m].kind # "idr"
GateOK ==
    \A j \in DOMAIN stream :
        /\ stream[j].kind = "idr" => \E i \in 1 .. j - 1 : Opens(i, j)
        /\ stream[j].kind = "p" =>
             \E i \in 1 .. j - 1 : stream[i].kind = "idr"
                                     /\ stream[i].by = stream[j].by

\* "Chain NALs must arrive whole": every NAL but the P slices is written
\* completely before the next one begins, unless the producer dies in it.
ChainWhole ==
    \A i \in DOMAIN stream :
        \/ stream[i].kind = "p"
        \/ stream[i].put = NalLen[stream[i].kind]
        \/ i = Len(stream) /\ (writing \/ ~alive)
        \/ i < Len(stream) /\ stream[i + 1].by # stream[i].by
        \/ i = Len(stream) /\ stream[i].by # starts

\* Why: every NAL is by this incarnation or an earlier one; what the gate
\* remembers is in the stream, after the last IDR; and only the NAL being
\* written is unfinished.
AfterSps(i) ==
    /\ stream[i].kind = "sps"
    /\ \A m \in i .. Len(stream) :
         stream[m].by = starts /\ stream[m].kind # "idr"
GateKnows ==
    /\ \A j \in DOMAIN stream : stream[j].by <= starts
    /\ ~alive => stage = 0 /\ ~chain_open
    /\ stage = 1 => \E i \in DOMAIN stream : AfterSps(i)
    /\ stage = 2 => \E i \in DOMAIN stream :
                      AfterSps(i) /\ \E m \in i + 1 .. Len(stream) :
                                        stream[m].kind = "pps"
    /\ chain_open => \E i \in DOMAIN stream :
                       stream[i].kind = "idr" /\ stream[i].by = starts
WritingLast ==
    writing => /\ alive /\ todo # <<>> /\ stream # <<>>
               /\ off < NalLen[Head(todo)]
               /\ stream[Len(stream)].kind = Head(todo)
               /\ stream[Len(stream)].put = off
               /\ stream[Len(stream)].by = starts

\* The inductive invariant behind GateOK and ChainWhole.
GateIInv == FifoTypeOK /\ GateKnows /\ WritingLast /\ GateOK /\ ChainWhole
=============================================================================
