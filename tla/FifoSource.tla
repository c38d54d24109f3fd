------------------------------ MODULE FifoSource ------------------------------
(***************************************************************************)
(* src/tools/vendor/ByteStreamFifoSource.cpp, the RTSP server's end of the *)
(* video fifo, composed with the producer's end.  createNew drains the     *)
(* pipe and looks for the last complete SPS-PPS-IDR chain; what is kept is *)
(* served first, then the pipe.  A DESCRIBE opens a source just to read    *)
(* the parameter sets and closes it; a PLAY opens another.                 *)
(***************************************************************************)
EXTENDS VideoFifo

CONSTANTS
    DrainCap,   \* DRAIN_CAP
    Attempts,   \* scans before createNew gives up on a complete chain (16)
    FrameMax,   \* fMaxSize: most that is delivered at once
    MaxOpens    \* bound: sources created in a behaviour

ASSUME SourceAssumption ==
    /\ DrainCap \in Nat \ {0} /\ Attempts \in Nat \ {0}
    /\ FrameMax \in Nat \ {0} /\ MaxOpens \in Nat

VARIABLES
    spc,        \* "closed", "drain" or "serve"
    drained,    \* createNew: what was read so far
    attempt,    \* createNew: scans so far
    eof,        \* feof(fFid)
    pending,    \* the kept tail still to be served
    \* history variables
    opens,      \* sources created so far
    found,      \* what createNew found: 0, 1 an SPS, 2 a complete chain
    got         \* cells delivered by this source

source == <<spc, drained, attempt, eof, pending, opens, found, got>>
vars == <<producer, pipe, history, source>>

KindOf(c) == stream[c.nal].kind

\* The scan before the first byte: nothing has been seen, all is kept.
ScanStart == [have |-> 0, sps |-> 1, keep |-> 1, found |-> 0]

\* Mutant of ScanStep: the tail is kept from the IDR itself.
ScanStepFromIdr(d, acc, i) ==
    IF d[i].k # 0 THEN acc
    ELSE CASE KindOf(d[i]) = "sps" ->
                [have |-> 1, sps |-> i, keep |-> i, found |-> 1]
           [] KindOf(d[i]) \in {"pps", "badpps"} ->
                [acc EXCEPT !.have = IF @ = 1 THEN 2 ELSE @]
           [] KindOf(d[i]) = "idr" ->
                IF acc.have = 2
                  THEN [acc EXCEPT !.have = 0, !.keep = i, !.found = 2]
                  ELSE acc
           [] KindOf(d[i]) \in {"sei", "aud"} -> acc
           [] OTHER -> [acc EXCEPT !.have = 0]

\* The scan's look at byte i: only start codes count.
ScanStep(d, acc, i) ==
    IF d[i].k # 0 THEN acc
    ELSE CASE KindOf(d[i]) = "sps" ->
                [have |-> 1, sps |-> i, keep |-> i, found |-> 1]
           [] KindOf(d[i]) \in {"pps", "badpps"} ->
                [acc EXCEPT !.have = IF @ = 1 THEN 2 ELSE @]
           [] KindOf(d[i]) = "idr" ->
                IF acc.have = 2
                  THEN [acc EXCEPT !.have = 0, !.keep = acc.sps, !.found = 2]
                  ELSE acc
           [] KindOf(d[i]) \in {"sei", "aud"} -> acc
           [] OTHER -> [acc EXCEPT !.have = 0]

\* The scan after each byte of d, in order.
Scan(d) ==
    LET scan[i \in 0 .. Len(d)] ==
          IF i = 0 THEN ScanStart ELSE ScanStep(d, scan[i - 1], i)
    IN  scan

Scanned(d) == Scan(d)[Len(d)]
-----------------------------------------------------------------------------
SourceInit ==
    /\ spc = "closed" /\ drained = <<>> /\ attempt = 0 /\ eof = FALSE
    /\ pending = <<>> /\ opens = 0 /\ found = 0 /\ got = <<>>

\* fopen returns once the fifo has a writer.
Open ==
    /\ spc = "closed" /\ alive
    /\ opens < MaxOpens
    /\ opens' = opens + 1
    /\ spc' = "drain"
    /\ UNCHANGED <<producer, pipe, history, drained, attempt, eof, pending, found,
                   got>>

\* Mutant of DrainRead: the buffer's size is not minded.
DrainReadAll ==
    /\ spc = "drain" /\ ~eof
    /\ pipe # <<>> /\ Len(drained) < DrainCap
    /\ drained' = drained \o pipe
    /\ pipe' = <<>>
    /\ UNCHANGED <<producer, history, spc, attempt, eof, pending, opens, found,
                   got>>

DrainRead ==
    /\ spc = "drain" /\ ~eof
    /\ pipe # <<>> /\ Len(drained) < DrainCap
    /\ LET n == Lesser(Len(pipe), DrainCap - Len(drained)) IN
         /\ drained' = drained \o SubSeq(pipe, 1, n)
         /\ pipe' = SubSeq(pipe, n + 1, Len(pipe))
    /\ UNCHANGED <<producer, history, spc, attempt, eof, pending, opens, found,
                   got>>

\* Mutant of DrainScan: it waits for a complete chain, however long.
DrainScanOn ==
    /\ spc = "drain"
    /\ eof \/ pipe = <<>> \/ Len(drained) >= DrainCap
    /\ LET s == Scanned(drained) IN
         /\ s.found = 2
         /\ found' = s.found
         /\ pending' = SubSeq(drained, s.keep, Len(drained))
    /\ drained' = <<>>
    /\ spc' = "serve"
    /\ UNCHANGED <<producer, pipe, history, attempt, eof, opens, got>>

\* Nothing more to read for now: scan; without a complete chain sleep and
\* try again.
DrainScan ==
    /\ spc = "drain"
    /\ eof \/ pipe = <<>> \/ Len(drained) >= DrainCap
    /\ LET s    == Scanned(drained)
           done == s.found = 2 \/ attempt + 1 = Attempts IN
         /\ found' = IF done THEN s.found ELSE found
         /\ pending' = IF done THEN SubSeq(drained, s.keep, Len(drained))
                               ELSE pending
         /\ drained' = IF done THEN <<>> ELSE drained
         /\ attempt' = IF done THEN 0 ELSE attempt + 1
         /\ spc' = IF done THEN "serve" ELSE "drain"
    /\ eof' = (eof \/ (pipe = <<>> /\ Len(drained) < DrainCap /\ ~alive))
    /\ UNCHANGED <<producer, pipe, history, opens, got>>

Closed == /\ spc' = "closed" /\ pending' = <<>> /\ eof' = FALSE
          /\ found' = 0 /\ got' = <<>> /\ purged' = {}
          /\ pipe' = IF alive THEN pipe ELSE <<>>
          /\ UNCHANGED <<producer, stream, jumped, drained, attempt, opens>>

\* doReadFromFile: the kept tail first.
ServePending ==
    /\ spc = "serve" /\ ~eof
    /\ pending # <<>>
    /\ LET n == Lesser(FrameMax, Len(pending)) IN
         /\ got' = got \o SubSeq(pending, 1, n)
         /\ pending' = SubSeq(pending, n + 1, Len(pending))
    /\ UNCHANGED <<producer, pipe, history, spc, drained, attempt, eof, opens,
                   found>>

\* Mutant of ServeFifo: the pipe is read although there is a tail to serve.
ServeFifoFirst ==
    /\ spc = "serve" /\ ~eof
    /\ pipe # <<>>
    /\ LET n == Lesser(FrameMax, Len(pipe)) IN
         /\ got' = got \o SubSeq(pipe, 1, n)
         /\ pipe' = SubSeq(pipe, n + 1, Len(pipe))
    /\ UNCHANGED <<producer, history, spc, drained, attempt, eof, pending, opens,
                   found>>

ServeFifo ==
    /\ spc = "serve" /\ ~eof
    /\ pending = <<>> /\ pipe # <<>>
    /\ LET n == Lesser(FrameMax, Len(pipe)) IN
         /\ got' = got \o SubSeq(pipe, 1, n)
         /\ pipe' = SubSeq(pipe, n + 1, Len(pipe))
    /\ UNCHANGED <<producer, history, spc, drained, attempt, eof, pending, opens,
                   found>>

\* handleClosure: end of file, now or during the drain.
ServeEnd ==
    /\ spc = "serve"
    /\ eof \/ (pending = <<>> /\ pipe = <<>> /\ ~alive)
    /\ Closed

\* The client goes away.
Close ==
    /\ spc = "serve"
    /\ Closed

DrainStep == DrainRead \/ DrainScan
ServeStep == ServePending \/ ServeFifo \/ ServeEnd
-----------------------------------------------------------------------------
ProducerStep == StartProducer \/ Deliver \/ EmitStep \/ PurgeStep(spc # "closed")
                  \/ StopProducer(spc # "closed")
ProducerAction == ProducerStep /\ UNCHANGED source

Init == FifoInit /\ SourceInit
Next == ProducerAction \/ Open \/ DrainStep \/ ServeStep \/ Close

Spec == Init /\ [][Next]_vars

\* The producer's two threads and the server's loop run.  Nobody has to
\* deliver a record, start or stop a producer, or stay connected.
Fairness == /\ WF_vars(EmitStep /\ UNCHANGED source)
            /\ WF_vars(PurgeStep(spc # "closed") /\ UNCHANGED source)
            /\ WF_vars(DrainStep)
            /\ WF_vars(ServeStep)
FairSpec == Spec /\ Fairness
-----------------------------------------------------------------------------
(***************************************************************************)
(* Properties                                                              *)
(***************************************************************************)
TypeOK ==
    /\ FifoTypeOK
    /\ spc \in {"closed", "drain", "serve"}
    /\ drained \in Seq(Cell) /\ Len(drained) <= DrainCap
    /\ attempt \in 0 .. Attempts - 1 /\ eof \in BOOLEAN
    /\ pending \in Seq(Cell) /\ opens \in 0 .. MaxOpens
    /\ found \in 0 .. 2 /\ got \in Seq(Cell)

Before(c, d) == c.nal < d.nal \/ (c.nal = d.nal /\ c.k < d.k)
Put == UNION {{[nal |-> i, k |-> k] : k \in 0 .. stream[i].put - 1} :
                 i \in DOMAIN stream}

\* What a client is sent is what the producer wrote, in order, each byte
\* once, the kept tail and the pipe joined without a gap: between the first
\* and the last byte sent nothing is missing but what the purger took.
ClientStream ==
    /\ \A i \in 1 .. Len(got) - 1 : Before(got[i], got[i + 1])
    /\ got # <<>> => \A c \in Put :
         Before(got[1], c) /\ Before(c, Last(got))
           => c \in purged \/ \E i \in DOMAIN got : got[i] = c

\* A client whose source found a complete chain is sent an SPS header
\* first of all, and a PPS and then an IDR before any slice header.
KeyframeFirst ==
    spc = "serve" /\ found = 2 =>
        LET s == got \o pending
            Header(kinds, i) == s[i].k = 0 /\ KindOf(s[i]) \in kinds
        IN  /\ Header({"sps"}, 1)
            /\ \A i \in DOMAIN s : Header({"p"}, i) =>
                 \E a, b \in 1 .. i : /\ a < b /\ Header({"pps", "badpps"}, a)
                                      /\ Header({"idr"}, b)

\* write_all_fd_wait ends: the purger makes room even when no client reads.
ChainGetsThrough == writing ~> ~writing

\* createNew ends: the server is not kept from its other clients for ever.
DrainEnds == spc = "drain" ~> spc # "drain"
-----------------------------------------------------------------------------
(***************************************************************************)
(* What comments say                                                       *)
(***************************************************************************)
\* fshare2fifo.c:485: "whole-or-drop: a P slice [...] on a full fifo [...]
\* is dropped".
WholeOrDrop ==
    \A i \in DOMAIN stream :
        stream[i].kind = "p" => stream[i].put = NalLen["p"]

\* fshare2fifo.c:781, of the live-edge jump: "The chain gate re-arms at the
\* next chain": after a jump no slice is written until an IDR has been.
GateReArms ==
    [][severed /\ Len(stream') > Len(stream)
         => stream'[Len(stream')].kind # "p"]_vars
=============================================================================
