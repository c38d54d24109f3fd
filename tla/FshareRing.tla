------------------------------ MODULE FshareRing ------------------------------
(***************************************************************************)
(* The shared frame buffer /dev/shm/fshare_frame_buf and its one writer,   *)
(* the camera application rmm.  rmm is not part of this repository: the    *)
(* layout and the order of its stores are those that                       *)
(* src/src/fshare2fifo/fshare2fifo.c relies on.                            *)
(*                                                                         *)
(* The ring is a circular array of cells.  A record is one header cell     *)
(* followed by len payload cells.  A cell remembers which record, and      *)
(* which part of that record, was last copied into it: k = 0 is the        *)
(* header, k > 0 the k-th payload cell.  What a header says (sequence      *)
(* number, type, length) is looked up in log, the history of all records   *)
(* ever published.                                                         *)
(*                                                                         *)
(* The writer publishes the header words valid and seq BEFORE it copies    *)
(* the bytes, and pops old records from the tail without looking at any    *)
(* reader.                                                                 *)
(***************************************************************************)
EXTENDS Integers, Sequences

CONSTANTS
    DATA_SZ,    \* number of cells in the ring
    SeqMod,     \* sequence numbers are unsigned integers modulo SeqMod
    StartSeqs,  \* where the counter may be when the models begin
    Types,      \* the record types the application writes in this instance
    Lens,       \* the payload lengths it writes
    MaxRecs,    \* bound: records written in a behaviour
    MaxEras     \* bound: times the application restarts its counter

AllTypes == {"sps", "frame", "audio"}

ASSUME RingAssumption ==
    /\ DATA_SZ \in Nat \ {0}
    /\ SeqMod \in Nat /\ SeqMod > 4
    /\ StartSeqs \subseteq 0 .. SeqMod - 1
    /\ Types \subseteq AllTypes
    /\ Lens \subseteq Nat \ {0}
    /\ \A n \in Lens : 1 + n <= DATA_SZ
    /\ MaxRecs \in Nat
    /\ MaxEras \in Nat

VARIABLES
    \* the shared memory
    mem,        \* the record ring, cell by cell
    valid,      \* 0x04: cells in use
    tail,       \* 0x10: offset of the oldest record
    seq,        \* 0x18: sequence number of the newest record
    pending,    \* slot[K]+0: there may be data for the reader
    cursor,     \* slot[K]+8: the reader's cursor
    filter,     \* slot[K]+12: the class the reader subscribes to
    \* the writer
    wpc,        \* where it is inside one fshare_write
    wrec,       \* the record it was asked to write
    wk,         \* the next cell of that record to copy
    eras,       \* how often its counter restarted
    \* history variables, which no program reads
    log,        \* every record published so far, in order
    oldest,     \* index in log of the record at the tail
    vtail       \* cells popped so far: the tail's absolute address

shared == <<mem, valid, tail, seq>>
slot   == <<pending, cursor, filter>>
writer == <<wpc, wrec, wk, eras>>
past   == <<log, oldest, vtail>>
-----------------------------------------------------------------------------
Cells == 0 .. DATA_SZ - 1
RecHdr == 1

\* Offsets stay below twice the ring size, so one subtraction is the
\* reduction modulo DATA_SZ.
Wrap(o) == IF o >= DATA_SZ THEN o - DATA_SZ ELSE o

\* Cells a record takes.
Size(r) == RecHdr + r.len

\* The class byte of a type, and the filter value that selects it.
Class(t) == IF t = "audio" THEN "audio" ELSE "hires"

\* The counter skips 0 when it wraps.
SeqInc(s) == IF s = SeqMod - 1 THEN 1 ELSE s + 1

Live == oldest .. Len(log)

\* Where cell k of the live record n is.
Addr(n, k) == Wrap(tail + (log[n].at - vtail) + k)

\* All bytes of record n have been copied into the ring.
Committed(n) == n < Len(log) \/ wpc # "copy"
-----------------------------------------------------------------------------
RingInit ==
    /\ mem = [a \in Cells |-> [id |-> 0, k |-> 0]]
    /\ valid = 0 /\ tail = 0 /\ seq \in StartSeqs
    /\ pending = FALSE /\ cursor = 0 /\ filter = "none"
    /\ wpc = "idle" /\ wrec \in [type : Types, len : Lens] /\ wk = 0
    /\ eras = 0
    /\ log = <<>> /\ oldest = 1 /\ vtail = 0

\* fshare_write is entered: the write lock is taken.
BeginWrite ==
    /\ wpc = "idle"
    /\ Len(log) < MaxRecs
    /\ wrec' \in [type : Types, len : Lens]
    /\ wpc' = "fit"
    /\ UNCHANGED <<shared, slot, past, wk, eras>>

\* Mutant of PopTail: the tail moves by the payload alone.
PopTailShort ==
    /\ wpc = "fit"
    /\ valid + Size(wrec) > DATA_SZ
    /\ oldest \in Live
    /\ valid' = valid - log[oldest].len
    /\ tail' = Wrap(tail + log[oldest].len)
    /\ vtail' = vtail + log[oldest].len
    /\ oldest' = oldest + 1
    /\ UNCHANGED <<mem, seq, slot, writer, log>>

\* The new record does not fit: the record at the tail is given up.
PopTail ==
    /\ wpc = "fit"
    /\ valid + Size(wrec) > DATA_SZ
    /\ oldest \in Live
    /\ LET n == Size(log[oldest]) IN
         /\ valid' = valid - n
         /\ tail' = Wrap(tail + n)
         /\ vtail' = vtail + n
    /\ oldest' = oldest + 1
    /\ UNCHANGED <<mem, seq, slot, writer, log>>

\* valid, seq and head are published, before any byte of the record is
\* there.  The stores are one step: a reader loads valid before seq, and
\* a walk that sees the new valid with the old seq stops at the same
\* record as one that sees both old.
Publish ==
    /\ wpc = "fit"
    /\ valid + Size(wrec) <= DATA_SZ
    /\ log' = Append(log, [type |-> wrec.type, len |-> wrec.len,
                           seq |-> SeqInc(seq), at |-> vtail + valid])
    /\ valid' = valid + Size(wrec)
    /\ seq' = SeqInc(seq)
    /\ wk' = 0
    /\ wpc' = "copy"
    /\ UNCHANGED <<mem, tail, slot, wrec, eras, oldest, vtail>>

\* ring_copy of the header, then of the payload, one cell at a time.
CopyIn ==
    /\ wpc = "copy"
    /\ mem' = [mem EXCEPT ![Addr(Len(log), wk)] = [id |-> Len(log), k |-> wk]]
    /\ wk' = wk + 1
    /\ wpc' = IF wk = wrec.len THEN "notify" ELSE "copy"
    /\ UNCHANGED <<valid, tail, seq, slot, wrec, eras, past>>

\* Every slot whose filter shares the record's class is flagged; the lock
\* is released.
Notify ==
    /\ wpc = "notify"
    /\ pending' = (pending \/ Class(wrec.type) = filter)
    /\ wpc' = "idle"
    /\ wk' = 0
    /\ UNCHANGED <<shared, cursor, filter, wrec, eras, past>>

\* The application restarts its sequence counter while it runs.
EraReset ==
    /\ wpc = "idle"
    /\ eras < MaxEras
    /\ eras' = eras + 1
    /\ seq' = 0
    /\ UNCHANGED <<mem, valid, tail, slot, wpc, wrec, wk, past>>

WriteStep == PopTail \/ Publish \/ CopyIn \/ Notify
WriterNext == BeginWrite \/ WriteStep \/ EraReset
-----------------------------------------------------------------------------
Cell == [id : 0 .. Len(log), k : Nat]
Record == [type : Types, len : Lens, seq : 0 .. SeqMod - 1, at : Nat]

RingTypeOK ==
    /\ mem \in [Cells -> Cell]
    /\ valid \in 0 .. DATA_SZ
    /\ tail \in Cells
    /\ seq \in 0 .. SeqMod - 1
    /\ pending \in BOOLEAN
    /\ cursor \in 0 .. SeqMod - 1
    /\ filter \in {"none", "hires", "audio"}
    /\ wpc \in {"idle", "fit", "copy", "notify"}
    /\ wrec \in [type : Types, len : Lens]
    /\ wk \in Nat
    /\ eras \in Nat
    /\ log \in Seq(Record)
    /\ oldest \in Nat \ {0} /\ oldest <= Len(log) + 1
    /\ vtail \in Nat

\* The live records lie end to end from the tail and fill exactly valid
\* cells (what tools/verify_fshare_map.py verifies on captures of the ring).
Contiguous ==
    /\ oldest \notin Live => valid = 0
    /\ oldest \in Live =>
         /\ log[oldest].at = vtail
         /\ log[Len(log)].at + Size(log[Len(log)]) = vtail + valid
    /\ \A n \in Live : n + 1 \in Live => log[n+1].at = log[n].at + Size(log[n])
    /\ \A n \in Live : /\ vtail <= log[n].at
                       /\ log[n].at + Size(log[n]) <= vtail + valid
    /\ \A m, n \in Live : m < n => log[m].at + Size(log[m]) <= log[n].at

\* Every copied cell of a live record is in place, and a cell that names a
\* live record is at that record's address.
InPlace ==
    /\ \A n \in Live : \A k \in 0 .. log[n].len :
         (Committed(n) \/ k < wk) => mem[Addr(n, k)] = [id |-> n, k |-> k]
    /\ \A a \in Cells : mem[a].id \in Live =>
         mem[a].k <= log[mem[a].id].len /\ a = Addr(mem[a].id, mem[a].k)

\* The record being copied is the newest one, and seq is its number.
CopyingNewest ==
    wpc = "copy" =>
        /\ Len(log) \in Live
        /\ log[Len(log)].type = wrec.type /\ log[Len(log)].len = wrec.len
        /\ log[Len(log)].seq = seq
        /\ wk <= wrec.len
=============================================================================
