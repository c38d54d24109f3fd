----------------------------- MODULE FshareReader -----------------------------
(***************************************************************************)
(* src/src/fshare2fifo/fshare2fifo.c: the lock-free reader of the shared   *)
(* frame buffer.  claim_slot registers it, reader_loop polls its slot,     *)
(* walks the ring from the published tail, copies the first wanted record  *)
(* out and hands it to emit_delivered; release_slot withdraws it.  It      *)
(* takes no lock, so the writer may run between any two loads: every load  *)
(* of shared memory that the writer can interfere with is a step of its    *)
(* own.  What emit_delivered does with a record is modelled elsewhere:     *)
(* here the record joins the sequence fed.                                 *)
(***************************************************************************)
EXTENDS FshareRing

CONSTANTS
    Mine,       \* g_filter: the class this reader subscribes to
    MAXPAY,     \* longest payload it accepts
    JumpGap,    \* the walk's match is "far ahead" beyond this (100)
    EraGap,     \* a counter this far behind the cursor is a new era (10000)
    ChainGap,   \* records that must follow the chain start joined at (4)
    MAX_STALL_REANCHOR, \* watchdog rounds before it gives up (4)
    MaxStarts   \* bound: incarnations of the reader in a behaviour (the
                \* last one is neither signalled nor killed)

ASSUME ReaderAssumption ==
    /\ Mine \in {"hires", "audio"}
    /\ MAXPAY \in Nat
    /\ JumpGap \in Nat /\ EraGap \in Nat /\ ChainGap \in Nat
    /\ MAX_STALL_REANCHOR \in Nat \ {0}
    /\ MaxStarts \in Nat

VARIABLES
    rpc,            \* where the reader is
    off, left,      \* the walk: offset of the next header, cells to go
    newest,         \* the newest sequence number, as sampled for this walk
    best,           \* claim_slot: the chain start found so far
    rid,            \* the record whose header matched
    payload,        \* its payload, as copied so far
    got,            \* this round has a record to emit
    slot_cursor,    \* the reader's own copy of its cursor
    last_valid, last_emit, stall_anchors,   \* the stall watchdog
    stop_flag,      \* set by the signal handler
    starts,         \* incarnations so far
    \* history variables
    fed,            \* records handed to emit_delivered by this incarnation
    base,           \* slot_cursor when the current round began
    nid,            \* Len(log) when newest was sampled
    rat,            \* absolute address of off
    misread,        \* the walk has read a header that is not the one at rat
    join            \* the record best stands for

walk     == <<off, left, newest, nid, rat, misread>>
match    == <<rid, payload, got>>
watchdog == <<last_valid, last_emit, stall_anchors>>
reader   == <<rpc, walk, best, match, slot_cursor, watchdog, stop_flag,
              starts, fed, base, join>>
vars     == <<shared, slot, writer, past, reader>>

Audio == Mine = "audio"
Running == rpc \notin {"off", "gone"}

\* Unsigned subtraction.
Sub(a, b) == (a - b) % SeqMod
-----------------------------------------------------------------------------
\* entry_wanted, for a filter that pins no subtype: the class overlaps and
\* the record is at or after the cursor's successor, in the wrap-safe order.
EntryWanted(c, r) ==
    /\ Class(r.type) = Mine
    /\ c = 0 \/ Sub(r.seq, SeqInc(c)) <= (SeqMod \div 2) - 2

\* magic_ok: the cell is some record's header.  Payload bytes and memory
\* never written do not carry the magic.
MagicOK(c) == c.id # 0 /\ c.k = 0

\* Mutant of Walkable: the newest record is not left out.
WalkableNewestToo(c) ==
    /\ left > RecHdr
    /\ MagicOK(c)
    /\ Size(log[c.id]) <= left
    /\ log[c.id].len <= MAXPAY

\* The tests both walks make of the header they have just copied.
Walkable(c) ==
    /\ left > RecHdr
    /\ MagicOK(c)
    /\ Size(log[c.id]) <= left
    /\ log[c.id].len <= MAXPAY
    /\ log[c.id].seq # newest

\* One walk step over the record whose header is at off.
Advance(r) ==
    /\ off' = Wrap(off + Size(r))
    /\ left' = left - Size(r)
    /\ rat' = rat + Size(r)
    /\ UNCHANGED <<newest, nid>>

Misread(c) == misread \/ log[c.id].at # rat

\* The walk's variables are local to the block that polls the slot, the
\* match to one round, everything else to the process.
WalkOver == /\ off' = 0 /\ left' = 0 /\ newest' = 0
            /\ nid' = 0 /\ rat' = 0 /\ misread' = FALSE /\ base' = 0
RoundOver == rid' = 0 /\ payload' = <<>> /\ got' = FALSE
ProcessOver == /\ WalkOver /\ RoundOver
               /\ best' = 0 /\ join' = 0 /\ slot_cursor' = 0
               /\ last_valid' = 0 /\ last_emit' = FALSE /\ stall_anchors' = 0
               /\ stop_flag' = FALSE
-----------------------------------------------------------------------------
ReaderInit ==
    /\ rpc = "off"
    /\ off = 0 /\ left = 0 /\ newest = 0 /\ best = 0
    /\ rid = 0 /\ payload = <<>> /\ got = FALSE
    /\ slot_cursor = 0
    /\ last_valid = 0 /\ last_emit = FALSE /\ stall_anchors = 0
    /\ stop_flag = FALSE /\ starts = 0
    /\ fed = <<>> /\ base = 0 /\ nid = 0 /\ rat = 0 /\ misread = FALSE
    /\ join = 0

\* main up to claim_slot's test of the slot: free, or left over from an
\* earlier run in the same mode.  A video reader goes on to look for a
\* chain start.
Start ==
    /\ ~Running
    /\ starts < MaxStarts
    /\ filter \in {"none", Mine}
    /\ starts' = starts + 1
    /\ rpc' = IF Audio THEN "cSeed" ELSE "cValid"
    /\ off' = IF Audio THEN 0 ELSE tail
    /\ rat' = IF Audio THEN 0 ELSE vtail
    /\ fed' = <<>>
    /\ UNCHANGED <<shared, slot, writer, past, left, newest, nid, misread,
                   best, match, slot_cursor, watchdog, stop_flag, base, join>>

ReadValid ==
    /\ \/ rpc = "cValid" /\ rpc' = "cSeq"
       \/ rpc = "rValid" /\ rpc' = "rSeq"
    /\ left' = valid
    /\ UNCHANGED <<shared, slot, writer, past, off, newest, nid, rat,
                   misread, best, match, slot_cursor, watchdog, stop_flag,
                   starts, fed, base, join>>

ReadSeq ==
    /\ \/ rpc = "cSeq" /\ rpc' = "cWalk"
       \/ rpc = "rSeq" /\ rpc' = "walk"
    /\ newest' = seq
    /\ nid' = Len(log)
    /\ UNCHANGED <<shared, slot, writer, past, off, left, rat, misread,
                   best, match, slot_cursor, watchdog, stop_flag, starts,
                   fed, base, join>>

\* claim_slot: remember the newest 0x0422 followed by enough records.
ClaimWalk ==
    /\ rpc = "cWalk"
    /\ Walkable(mem[off])
    /\ LET r == log[mem[off].id] IN
         /\ IF r.type = "sps" /\ r.seq < Sub(newest, ChainGap)
              THEN best' = r.seq /\ join' = mem[off].id
              ELSE UNCHANGED <<best, join>>
         /\ Advance(r)
    /\ misread' = Misread(mem[off])
    /\ UNCHANGED <<shared, slot, writer, past, rpc, match, slot_cursor,
                   watchdog, stop_flag, starts, fed, base>>

ClaimWalkEnd ==
    /\ rpc = "cWalk"
    /\ ~Walkable(mem[off])
    /\ rpc' = "cSeed"
    /\ UNCHANGED <<shared, slot, writer, past, walk, best, match,
                   slot_cursor, watchdog, stop_flag, starts, fed, base, join>>

\* Mutant of Seed: the chain start itself, which counts as already read.
SeedAtChainStart == IF best > 1 THEN best ELSE IF Audio THEN 0 ELSE seq

\* The cursor to start from: one before the chain start, else the live edge.
Seed == IF best > 1 THEN best - 1 ELSE IF Audio THEN 0 ELSE seq

ClaimSeed ==
    /\ rpc = "cSeed"
    /\ cursor' = Seed
    /\ pending' = TRUE
    /\ rpc' = "cFilter"
    /\ UNCHANGED <<shared, filter, writer, past, walk, best, match,
                   slot_cursor, watchdog, stop_flag, starts, fed, base, join>>

ClaimFilter ==
    /\ rpc = "cFilter"
    /\ slot_cursor' = Seed
    /\ filter' = Mine
    /\ WalkOver
    /\ rpc' = "poll"
    /\ UNCHANGED <<shared, pending, cursor, writer, past, best, match,
                   watchdog, stop_flag, starts, fed, join>>
-----------------------------------------------------------------------------
\* The head of reader_loop: nothing flagged, or start a walk at the tail.
Poll ==
    /\ rpc = "poll" /\ ~stop_flag
    /\ IF pending
         THEN /\ rpc' = "rValid"
              /\ off' = tail /\ rat' = vtail /\ base' = slot_cursor
         ELSE rpc' = "watch" /\ UNCHANGED <<off, rat, base>>
    /\ UNCHANGED <<shared, slot, writer, past, left, newest, nid, misread,
                   best, match, slot_cursor, watchdog, stop_flag, starts, fed,
                   join>>

Far(r) == Sub(r.seq, (slot_cursor + 1) % SeqMod) > JumpGap

\* Not wanted: on to the next record.
WalkSkip ==
    /\ rpc = "walk"
    /\ Walkable(mem[off])
    /\ ~EntryWanted(slot_cursor, log[mem[off].id])
    /\ Advance(log[mem[off].id])
    /\ misread' = Misread(mem[off])
    /\ UNCHANGED <<shared, slot, writer, past, rpc, best, match, slot_cursor,
                   watchdog, stop_flag, starts, fed, base, join>>

\* Mutant of WalkJump: the walk moves on before it tests again.
WalkJumpPast ==
    /\ rpc = "walk"
    /\ Walkable(mem[off])
    /\ EntryWanted(slot_cursor, log[mem[off].id])
    /\ Far(log[mem[off].id])
    /\ slot_cursor' = Sub(log[mem[off].id].seq, 1)
    /\ Advance(log[mem[off].id])
    /\ misread' = Misread(mem[off])
    /\ UNCHANGED <<shared, slot, writer, past, rpc, best, match, watchdog,
                   stop_flag, starts, fed, base, join>>

\* The live-edge jump: the cursor moves to just before this record, whose
\* header is then copied and tested again.
WalkJump ==
    /\ rpc = "walk"
    /\ Walkable(mem[off])
    /\ EntryWanted(slot_cursor, log[mem[off].id])
    /\ Far(log[mem[off].id])
    /\ slot_cursor' = Sub(log[mem[off].id].seq, 1)
    /\ UNCHANGED <<shared, slot, writer, past, rpc, walk, best, match,
                   watchdog, stop_flag, starts, fed, base, join>>

WalkMatch ==
    /\ rpc = "walk"
    /\ Walkable(mem[off])
    /\ EntryWanted(slot_cursor, log[mem[off].id])
    /\ ~Far(log[mem[off].id])
    /\ rid' = mem[off].id
    /\ payload' = <<>>
    /\ misread' = Misread(mem[off])
    /\ rpc' = "copy"
    /\ UNCHANGED <<shared, slot, writer, past, off, left, newest, nid, rat,
                   best, got, slot_cursor, watchdog, stop_flag, starts, fed,
                   base, join>>

WalkEnd ==
    /\ rpc = "walk"
    /\ ~Walkable(mem[off])
    /\ rpc' = "none"
    /\ UNCHANGED <<shared, slot, writer, past, walk, best, match, slot_cursor,
                   watchdog, stop_flag, starts, fed, base, join>>

\* ring_copy of the payload, cell by cell.
CopyOut ==
    /\ rpc = "copy"
    /\ payload' = Append(payload, mem[Wrap(off + 1 + Len(payload))])
    /\ rpc' = IF Len(payload) + 1 = log[rid].len THEN "take" ELSE "copy"
    /\ UNCHANGED <<shared, slot, writer, past, walk, best, rid, got,
                   slot_cursor, watchdog, stop_flag, starts, fed, base, join>>

\* Mutants of Take: the reader's own cursor stays behind; the flag is
\* cleared whatever is left.
TakeKeepsCursor ==
    /\ rpc = "take"
    /\ got' = TRUE
    /\ cursor' = log[rid].seq
    /\ pending' = (pending /\ (log[rid].seq + 1) % SeqMod # newest)
    /\ WalkOver
    /\ rpc' = "watch"
    /\ UNCHANGED <<shared, filter, writer, past, best, rid, payload,
                   slot_cursor, watchdog, stop_flag, starts, fed, join>>

TakeClearsFlag ==
    /\ rpc = "take"
    /\ got' = TRUE
    /\ slot_cursor' = log[rid].seq
    /\ cursor' = log[rid].seq
    /\ pending' = FALSE
    /\ WalkOver
    /\ rpc' = "watch"
    /\ UNCHANGED <<shared, filter, writer, past, best, rid, payload,
                   watchdog, stop_flag, starts, fed, join>>

\* The record is consumed; the flag is cleared when only the newest is left.
Take ==
    /\ rpc = "take"
    /\ got' = TRUE
    /\ slot_cursor' = log[rid].seq
    /\ cursor' = log[rid].seq
    /\ pending' = (pending /\ (log[rid].seq + 1) % SeqMod # newest)
    /\ WalkOver
    /\ rpc' = "watch"
    /\ UNCHANGED <<shared, filter, writer, past, best, rid, payload,
                   watchdog, stop_flag, starts, fed, join>>

\* Mutant of NoneForUs: no re-anchoring.
NoneForUsEver ==
    /\ rpc = "none"
    /\ pending' = FALSE
    /\ WalkOver
    /\ rpc' = "watch"
    /\ UNCHANGED <<shared, cursor, filter, writer, past, best, match,
                   slot_cursor, watchdog, stop_flag, starts, fed, join>>

\* Nothing for us: re-anchor if the counter fell far behind, clear the flag.
NoneForUs ==
    /\ rpc = "none"
    /\ IF newest < slot_cursor /\ slot_cursor - newest > EraGap
         THEN slot_cursor' = newest /\ cursor' = newest
         ELSE UNCHANGED <<slot_cursor, cursor>>
    /\ pending' = FALSE
    /\ WalkOver
    /\ rpc' = "watch"
    /\ UNCHANGED <<shared, filter, writer, past, best, match, watchdog,
                   stop_flag, starts, fed, join>>
-----------------------------------------------------------------------------
\* The rest of the round after the watchdog's tests: with a record the
\* clock restarts and it is emitted, without one the reader sleeps.
Rest(anchors) ==
    /\ rpc' = IF got THEN "emit" ELSE "poll"
    /\ last_emit' = (got \/ last_emit)
    /\ stall_anchors' = IF got THEN 0 ELSE anchors

\* No stall: never emitted anything yet, the ring did not move, or it moved
\* but STALL_SECS have not passed.
WatchQuiet ==
    /\ rpc = "watch"
    /\ last_valid' = IF last_emit THEN valid ELSE last_valid
    /\ Rest(stall_anchors)
    /\ UNCHANGED <<shared, slot, writer, past, walk, best, match, slot_cursor,
                   stop_flag, starts, fed, base, join>>

Stalled == rpc = "watch" /\ last_emit /\ valid # last_valid

\* The ring moved and STALL_SECS passed since the last record: re-anchor at
\* the live edge.
WatchAnchor ==
    /\ Stalled
    /\ stall_anchors + 1 < MAX_STALL_REANCHOR
    /\ slot_cursor' = seq /\ cursor' = seq
    /\ last_valid' = valid
    /\ Rest(stall_anchors + 1)
    /\ UNCHANGED <<shared, pending, filter, writer, past, walk, best, match,
                   stop_flag, starts, fed, base, join>>

\* release_slot, and the end of the process.
Release ==
    /\ filter' = "none" /\ pending' = FALSE /\ cursor' = 0
    /\ ProcessOver
    /\ rpc' = "gone"

\* Too many re-anchors in a row: release the slot and exit.
WatchGiveUp ==
    /\ Stalled
    /\ stall_anchors + 1 >= MAX_STALL_REANCHOR
    /\ Release
    /\ UNCHANGED <<shared, writer, past, starts, fed>>

Emit ==
    /\ rpc = "emit"
    /\ fed' = Append(fed, rid)
    /\ RoundOver
    /\ rpc' = "poll"
    /\ UNCHANGED <<shared, slot, writer, past, walk, best, slot_cursor,
                   watchdog, stop_flag, starts, base, join>>

\* on_term, and the loop's exit at the next test of stop_flag.
Term ==
    /\ Running /\ ~stop_flag
    /\ starts < MaxStarts
    /\ stop_flag' = TRUE
    /\ UNCHANGED <<shared, slot, writer, past, rpc, walk, best, match,
                   slot_cursor, watchdog, starts, fed, base, join>>

Stop ==
    /\ rpc = "poll" /\ stop_flag
    /\ Release
    /\ UNCHANGED <<shared, writer, past, starts, fed>>

\* The process is killed (the OOM killer does that, start-rtsp.sh says):
\* the slot stays as it is.
Kill ==
    /\ Running
    /\ starts < MaxStarts
    /\ ProcessOver
    /\ rpc' = "off"
    /\ UNCHANGED <<shared, slot, writer, past, starts, fed>>
-----------------------------------------------------------------------------
ReaderStep == \/ ReadValid \/ ReadSeq
              \/ ClaimWalk \/ ClaimWalkEnd \/ ClaimSeed \/ ClaimFilter
              \/ Poll \/ WalkSkip \/ WalkJump \/ WalkMatch \/ WalkEnd
              \/ CopyOut \/ Take \/ NoneForUs
              \/ WatchQuiet \/ WatchAnchor \/ WatchGiveUp \/ Emit \/ Stop

WriterAction == WriterNext /\ UNCHANGED reader

Init == RingInit /\ ReaderInit
Next == WriterAction \/ Start \/ ReaderStep \/ Term \/ Kill

Spec == Init /\ [][Next]_vars

\* rmm finishes the write it has begun, the scheduler runs the reader, and
\* start-rtsp.sh respawns it.  Nobody has to begin a write, send a signal or
\* kill anything.
Fairness == /\ WF_vars(WriteStep /\ UNCHANGED reader)
            /\ WF_vars(ReaderStep)
            /\ WF_vars(Start)

FairSpec == Spec /\ Fairness
-----------------------------------------------------------------------------
(***************************************************************************)
(* Properties                                                              *)
(***************************************************************************)
ReaderTypeOK ==
    /\ rpc \in {"off", "cValid", "cSeq", "cWalk", "cSeed", "cFilter", "poll",
                "rValid", "rSeq", "walk", "copy", "take", "none", "watch",
                "emit", "gone"}
    /\ off \in Cells /\ left \in Int /\ rat \in Nat
    /\ newest \in 0 .. SeqMod - 1 /\ best \in 0 .. SeqMod - 1
    /\ slot_cursor \in 0 .. SeqMod - 1 /\ base \in 0 .. SeqMod - 1
    /\ nid \in 0 .. Len(log) /\ rid \in 0 .. Len(log) /\ join \in 0 .. Len(log)
    /\ payload \in Seq([id : Nat, k : Nat])
    /\ rpc = "copy" => rid # 0 /\ Len(payload) < log[rid].len
    /\ rpc = "take" => rid # 0 /\ Len(payload) = log[rid].len
    /\ got \in BOOLEAN /\ last_emit \in BOOLEAN /\ stop_flag \in BOOLEAN
    /\ misread \in BOOLEAN
    /\ last_valid \in Nat /\ stall_anchors \in Nat /\ starts \in Nat
    /\ fed \in Seq(Nat)

\* The values the variables of the ring, its writer and its reader can have.
TypeOK == RingTypeOK /\ ReaderTypeOK

\* The ring's geometry: the writer keeps the live records end to end and
\* their committed bytes untouched, wrapping and popping included.
RingLayout == Contiguous /\ InPlace

\* What has been copied so far is the payload of the matched record.
PayloadSoFar == \A j \in 1 .. Len(payload) : payload[j] = [id |-> rid, k |-> j]
PayloadWhole == Len(payload) = log[rid].len /\ PayloadSoFar

\* Reading without locks: a record taken from the ring is complete and
\* unmixed, unless the writer lapped the reader - the record was popped
\* before its last byte was copied, or it was not yet published when the
\* walk sampled the newest sequence number.
TakenIntact == rpc = "take" /\ rid \in oldest .. nid => PayloadWhole

\* Why: newest is the number of record nid, unless that record was complete
\* when it was sampled ...
SampleOK ==
    rpc \in {"cWalk", "walk", "copy", "take"} /\ nid # 0
        => Committed(nid) \/ newest = log[nid].seq

\* ... so a matched record the writer has not lapped is complete, it is
\* where the walk found it, and its payload is copied faithfully.
MatchOK ==
    rpc \in {"copy", "take"} /\ rid \in oldest .. nid
        => Committed(rid) /\ off = Addr(rid, 0) /\ PayloadSoFar

\* The inductive invariant behind TakenIntact.
IInv == TypeOK /\ RingLayout /\ CopyingNewest /\ SampleOK /\ MatchOK

\* No record that is still in the ring is passed over: when one is taken,
\* everything wanted between the cursor the round began with and that
\* record has been popped (the jump to the live edge skips nothing).
NothingPassedOver ==
    rpc = "take" /\ ~misread =>
        \A n \in oldest .. rid - 1 : ~EntryWanted(base, log[n])

\* A video reader joins at the chain start claim_slot chose: unless that
\* record is popped first, it is the first record taken.
JoinsAtChainStart ==
    rpc = "take" /\ ~misread /\ fed = <<>> /\ best > 1
        /\ stall_anchors = 0 /\ join \in oldest .. rid
        => rid = join /\ log[rid].type = "sps"

\* Nothing older than the newest record is left for the reader.
Drained == \A n \in Live : n < Len(log) => ~EntryWanted(slot_cursor, log[n])

\* A flag raised while the writer rests is honoured: the reader polls until
\* everything older than the newest record has been taken, unless it is
\* stopped, the writer resumes or restarts its counter.
FlagHonoured ==
    (rpc = "poll" /\ pending /\ wpc = "idle" /\ eras = 0)
        ~> (Drained \/ wpc # "idle" \/ eras # 0 \/ stop_flag \/ ~Running)

\* When the counter restarts far below the cursor, the next round that finds
\* nothing brings the cursor back into the new era.
EraFollowed ==
    (rpc = "poll" /\ pending /\ wpc = "idle" /\ slot_cursor - seq > EraGap)
        ~> (slot_cursor <= seq \/ wpc # "idle" \/ stop_flag \/ ~Running)

\* The records handed on form a strictly advancing selection of the records
\* of this reader's class: the abstract feed.
Feed == INSTANCE RecordFeed WITH
            Kinds   <- {"hires", "audio"},
            MyKind  <- Mine,
            written <- [n \in 1 .. Len(log) |-> Class(log[n].type)],
            fed     <- fed
FeedSpec == Feed!Spec
-----------------------------------------------------------------------------
(***************************************************************************)
(* What comments and documents say of the reader                           *)
(***************************************************************************)
\* fshare2fifo.c:13: "There is nothing to scan, no lap to detect, and no
\* tear possible".
NoTear == rpc = "take" => PayloadWhole

\* fshare2fifo.c:168: "our slot writes (cursor/pending/filter) race
\* benignly": a reader at rest with its flag clear has nothing to read.
NoLostWakeup ==
    rpc = "poll" /\ wpc = "idle" /\ ~pending /\ ~stop_flag => Drained

\* fshare2fifo.c:775: "serving the backlog would trail the live edge by the
\* stall's whole duration [...] drop it and jump": what is taken after a
\* jump is near the newest record.
JumpReachesLiveEdge ==
    rpc = "take" /\ Sub(log[rid].seq, (base + 1) % SeqMod) > JumpGap
        => Sub(newest, log[rid].seq) <= JumpGap
=============================================================================
