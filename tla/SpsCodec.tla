------------------------------- MODULE SpsCodec -------------------------------
(***************************************************************************)
(* The SPS and PPS of the recorder's stream on their way to the fifo       *)
(* (src/src/fshare2fifo/fshare2fifo.c, emit_record and what it calls): the *)
(* app glues metadata to its SPS, so it is parsed and built anew from the  *)
(* fields that were read; a PPS loses the zeros that follow it.            *)
(*                                                                         *)
(* A NAL unit is a sequence of bytes without its start code; a position is *)
(* that of a bit, counted from 0.                                          *)
(***************************************************************************)
EXTENDS Integers, Sequences, SequencesExt, FiniteSetsExt

CONSTANTS
    Sent,           \* what the app may send: its fields and what it glues to them
    Ppss,           \* the PPS NAL units it may send
    NAL_BUF_MAX

ASSUME CodecAssumption == NAL_BUF_MAX \in Nat \ {0}

VARIABLES
    at,     \* where emit_record is: "record", "nal", "parsed" or "done"
    sent,   \* the fields of the SPS, or NoSps
    nal,    \* the NAL unit
    si,     \* struct sps_info
    out     \* what is written to the fifo

vars == <<at, sent, nal, si, out>>

HighProfiles == {100, 110, 122, 244, 44, 83, 86, 118, 128, 138, 139, 134, 135}
-----------------------------------------------------------------------------
(* Reading bits: s is a NAL unit, p the position in it *)

Pow2[n \in 0 .. 30] == IF n = 0 THEN 1 ELSE 2 * Pow2[n - 1]

\* The number that bits stand for, the first one the highest.
Number(bits) ==
    LET v[i \in 0 .. Len(bits)] == IF i = 0 THEN 0 ELSE 2 * v[i - 1] + bits[i]
    IN  v[Len(bits)]

Bit(s, p) == IF p < 8 * Len(s) THEN (s[(p \div 8) + 1] \div Pow2[7 - (p % 8)]) % 2 ELSE 0

\* The k bits from p on.
BitsAt(s, p, k) == [i \in 1 .. k |-> Bit(s, p + i - 1)]

\* The position after one bit; reading ends with the data.
After(s, p) == Min({p + 1, 8 * Len(s)})

\* sps_read_ue: the zeros up to the next 1, then as many bits; the value and the
\* position after it.
NextOne(s, p) ==
    LET Ones == {q \in p .. 8 * Len(s) - 1 : Bit(s, q) = 1}
    IN  IF Ones = {} THEN 8 * Len(s) ELSE Min(Ones)

UeFrom(s, p, z) ==
    LET k == Min({z, 24})
    IN  [v   |-> IF z > 24 THEN 65535 ELSE Pow2[z] - 1 + Number(BitsAt(s, p, k)),
         pos |-> Min({p + k, 8 * Len(s)})]

ReadUe(s, p) == UeFrom(s, After(s, NextOne(s, p)), NextOne(s, p) - p)

\* The position after k numbers that are not kept.
SkipUes(s, p, k) ==
    LET q[i \in 0 .. k] == IF i = 0 THEN p ELSE ReadUe(s, q[i - 1]).pos
    IN  q[k]

\* A byte 3 that keeps a start code out of a NAL unit is left out.
StripByte(s, b) ==
    IF b = 3 /\ Len(s) >= 2 /\ s[Len(s)] = 0 /\ s[Len(s) - 1] = 0 THEN s ELSE Append(s, b)

Strip(d) ==
    LET s[i \in 0 .. Len(d)] == IF i = 0 THEN <<>> ELSE StripByte(s[i - 1], d[i])
    IN  s[Len(d)]

\* A scaling list of n entries.  Its increments are read as unsigned.
Increment(s, x) ==
    IF x.nxt = 0 THEN x
    ELSE LET u == ReadUe(s, x.pos)
             v == (x.last + u.v) % 256
         IN  [pos |-> u.pos, nxt |-> v, last |-> IF v = 0 THEN x.last ELSE v]

ScalingList(s, p, n) ==
    LET x[i \in 0 .. n] == IF i = 0 THEN [pos |-> p, nxt |-> 8, last |-> 8]
                                    ELSE Increment(s, x[i - 1])
    IN  x[n].pos

\* The m-th of the lists there may be.
ListSize(m) == IF m <= 6 THEN 16 ELSE 64
PassList(s, p, m) ==
    IF Bit(s, p) = 1 THEN ScalingList(s, After(s, p), ListSize(m)) ELSE After(s, p)

ScalingLists(s, p, n) ==
    LET q[m \in 0 .. n] == IF m = 0 THEN p ELSE PassList(s, q[m - 1], m)
    IN  q[n]

\* The part that only the high profiles have; of it nothing is kept.
HighPart(s, p) ==
    LET chroma == ReadUe(s, p)
        planes == IF chroma.v = 3 THEN After(s, chroma.pos) ELSE chroma.pos
        matrix == After(s, SkipUes(s, planes, 2))
    IN  IF Bit(s, matrix) = 0 THEN After(s, matrix)
        ELSE ScalingLists(s, After(s, matrix), IF chroma.v # 3 THEN 8 ELSE 12)
-----------------------------------------------------------------------------
(* parse_sps_full *)

\* Mutant of PocPart: the type of picture order count is not looked at.
PocPartAny(s, p) ==
    LET type == ReadUe(s, p)
        lsb  == ReadUe(s, type.pos)
    IN  [type |-> type.v, lsb |-> lsb.v, pos |-> lsb.pos]

\* Picture order count; 9 stands for a type that is not rebuilt.
PocPart(s, p) ==
    LET type  == ReadUe(s, p)
        lsb   == ReadUe(s, type.pos)
        cycle == ReadUe(s, SkipUes(s, After(s, type.pos), 2))
    IN  CASE type.v = 0 -> [type |-> 0, lsb |-> lsb.v, pos |-> lsb.pos]
          [] type.v = 1 -> [type |-> 9, lsb |-> 0,
                            pos |-> SkipUes(s, cycle.pos, Min({cycle.v, 255}))]
          [] OTHER      -> [type |-> type.v, lsb |-> 0, pos |-> type.pos]

NoFrame == [w |-> 0, h |-> 0, fmbo |-> 0, mb_adaptive |-> 0, direct8x8 |-> 0,
            crop_flag |-> 0, crop |-> <<0, 0, 0, 0>>, ok |-> FALSE]

\* The four cropping offsets, and whether they could be read.
ReadCrop(s, p) ==
    LET c1 == ReadUe(s, p)
        c2 == ReadUe(s, c1.pos)
        c3 == ReadUe(s, c2.pos)
        c4 == ReadUe(s, c3.pos)
    IN  <<c1.v, c2.v, c3.v, c4.v>>

CropRead(crop) == \A i \in 1 .. 4 : crop[i] # 65535

\* What comes after the size, which is in macroblocks, minus one.
FramePart(s, p, w, h) ==
    LET fmbo == Bit(s, p)
        mb   == After(s, p)
        d8   == IF fmbo = 1 THEN mb ELSE After(s, mb)
        cf   == After(s, d8)
        crop == IF Bit(s, cf) = 0 THEN <<0, 0, 0, 0>> ELSE ReadCrop(s, After(s, cf))
    IN  [w |-> 16 * (w + 1), h |-> 16 * (h + 1) * (2 - fmbo), fmbo |-> fmbo,
         mb_adaptive |-> IF fmbo = 1 THEN 0 ELSE Bit(s, mb), direct8x8 |-> Bit(s, d8),
         crop_flag |-> Bit(s, cf), crop |-> crop, ok |-> CropRead(crop)]

NoInfo == [profile |-> 0, constraint |-> 0, level |-> 0, sps_id |-> 0, log2frm |-> 0,
           poc_type |-> 0, poc_lsb |-> 0, max_ref |-> 0, frame |-> NoFrame]

\* struct sps_info as the parser leaves it; frame is what it holds from w on.
ParseStripped(s) ==
    LET id  == ReadUe(s, 32)
        frm == ReadUe(s, IF s[2] \in HighProfiles THEN HighPart(s, id.pos) ELSE id.pos)
        poc == PocPart(s, frm.pos)
        ref == ReadUe(s, poc.pos)
        w   == ReadUe(s, After(s, ref.pos))
        h   == ReadUe(s, w.pos)
    IN  [profile |-> s[2], constraint |-> s[3], level |-> s[4], sps_id |-> id.v,
         log2frm |-> frm.v, poc_type |-> poc.type, poc_lsb |-> poc.lsb, max_ref |-> ref.v,
         frame |-> IF w.v > 300 \/ h.v > 300 THEN NoFrame ELSE FramePart(s, h.pos, w.v, h.v)]

Parse(d) == IF Len(d) < 4 \/ Len(d) > NAL_BUF_MAX \/ Len(Strip(d)) < 4 THEN NoInfo
            ELSE ParseStripped(Strip(d))
-----------------------------------------------------------------------------
(* build_sps *)

\* sps_wbits and sps_wue.
Bits(v, n) == [i \in 1 .. n |-> (v \div Pow2[n - i]) % 2]
UeBits(v) ==
    LET n == CHOOSE k \in 0 .. 24 : Pow2[k] <= v + 1 /\ v + 1 < Pow2[k + 1]
    IN  Bits(0, n) \o Bits(v + 1, n + 1)

CropBits(c) == UeBits(c[1]) \o UeBits(c[2]) \o UeBits(c[3]) \o UeBits(c[4])

\* The i-th byte of bits, filled with zeros.
Octet(bits, i) ==
    Number([k \in 1 .. 8 |-> IF 8 * (i - 1) + k <= Len(bits) THEN bits[8 * (i - 1) + k] ELSE 0])

\* Mutant of Pack: the length is rounded up to whole words.
PackWords(bits) == [i \in 1 .. 4 * ((Len(bits) + 31) \div 32) |-> Octet(bits, i)]

Pack(bits) == [i \in 1 .. (Len(bits) + 7) \div 8 |-> Octet(bits, i)]

\* Mutant of Build: the height of a field is written for that of a frame.
BuildFrameHeight(x) ==
    Pack(Bits(103, 8) \o Bits(x.profile, 8) \o Bits(x.constraint, 8) \o Bits(x.level, 8)
      \o UeBits(x.sps_id) \o UeBits(x.log2frm) \o UeBits(x.poc_type)
      \o (IF x.poc_type = 0 THEN UeBits(x.poc_lsb) ELSE <<>>)
      \o UeBits(x.max_ref) \o <<0>>
      \o UeBits(x.frame.w \div 16 - 1) \o UeBits(x.frame.h \div 16 - 1)
      \o <<x.frame.fmbo>> \o (IF x.frame.fmbo = 1 THEN <<>> ELSE <<x.frame.mb_adaptive>>)
      \o <<x.frame.direct8x8, x.frame.crop_flag>>
      \o (IF x.frame.crop_flag = 1 THEN CropBits(x.frame.crop) ELSE <<>>)
      \o <<0, 1>>)

\* No gaps in frame_num, no VUI.
Build(x) ==
    Pack(Bits(103, 8) \o Bits(x.profile, 8) \o Bits(x.constraint, 8) \o Bits(x.level, 8)
      \o UeBits(x.sps_id) \o UeBits(x.log2frm) \o UeBits(x.poc_type)
      \o (IF x.poc_type = 0 THEN UeBits(x.poc_lsb) ELSE <<>>)
      \o UeBits(x.max_ref) \o <<0>>
      \o UeBits(x.frame.w \div 16 - 1)
      \o UeBits((IF x.frame.fmbo = 1 THEN x.frame.h ELSE x.frame.h \div 2) \div 16 - 1)
      \o <<x.frame.fmbo>> \o (IF x.frame.fmbo = 1 THEN <<>> ELSE <<x.frame.mb_adaptive>>)
      \o <<x.frame.direct8x8, x.frame.crop_flag>>
      \o (IF x.frame.crop_flag = 1 THEN CropBits(x.frame.crop) ELSE <<>>)
      \o <<0, 1>>)
-----------------------------------------------------------------------------
(* The encoder of the app, by the syntax of H.264 (7.3.2.1.1, 7.4.1) *)

SeCode(v) == IF v > 0 THEN 2 * v - 1 ELSE -2 * v
SeBits(v) == UeBits(SeCode(v))

\* A scaling list is its increments, none if it is not sent.
ListBits(l) == IF l = <<>> THEN <<0>>
               ELSE <<1>> \o FlattenSeq([i \in 1 .. Len(l) |-> SeBits(l[i])])

HighBits(x) ==
    UeBits(x.chroma) \o (IF x.chroma = 3 THEN <<0>> ELSE <<>>) \o UeBits(0) \o UeBits(0) \o <<0>>
      \o (IF x.lists = <<>> THEN <<0>>
          ELSE <<1>> \o FlattenSeq([m \in 1 .. Len(x.lists) |-> ListBits(x.lists[m])]))

PocBits(x) ==
    UeBits(x.poc_type)
      \o (CASE x.poc_type = 0 -> UeBits(x.poc_lsb)
            [] x.poc_type = 1 -> <<0>> \o SeBits(-1) \o SeBits(0) \o UeBits(1) \o SeBits(2)
            [] x.poc_type = 2 -> <<>>)

\* The bits up to the size, and the ones after it up to the VUI.
SizeBits(x) ==
    Bits(103, 8) \o Bits(x.profile, 8) \o Bits(x.constraint, 8) \o Bits(x.level, 8)
      \o UeBits(x.sps_id) \o (IF x.profile \in HighProfiles THEN HighBits(x) ELSE <<>>)
      \o UeBits(x.log2frm) \o PocBits(x) \o UeBits(x.max_ref) \o <<x.gaps>>
      \o UeBits(x.w) \o UeBits(x.h)

FrameBits(x) ==
    <<x.fmbo>> \o (IF x.fmbo = 1 THEN <<>> ELSE <<x.mb_adaptive>>) \o <<x.direct8x8>>
      \o (IF x.crop = <<>> THEN <<0>> ELSE <<1>> \o CropBits(x.crop))

\* x.vui: the bits from the VUI flag on.
Encode(x) == SizeBits(x) \o FrameBits(x) \o x.vui

EscapeByte(s, b) ==
    IF b <= 3 /\ Len(s) >= 2 /\ s[Len(s)] = 0 /\ s[Len(s) - 1] = 0
      THEN s \o <<3, b>> ELSE Append(s, b)

Escape(d) ==
    LET s[i \in 0 .. Len(d)] == IF i = 0 THEN <<>> ELSE EscapeByte(s[i - 1], d[i])
    IN  s[Len(d)]
-----------------------------------------------------------------------------
(* emit_record, for a NAL unit of type 7 or 8 *)

NoSps == [profile |-> 0]
Init ==
    /\ at = "record" /\ sent = NoSps /\ nal = <<>> /\ si = NoInfo /\ out = <<>>

\* A record brings an SPS, with the app's metadata glued to it, or a PPS.
Arrive ==
    /\ at = "record"
    /\ at' = "nal"
    /\ \/ \E x \in Sent : sent' = x /\ nal' = Escape(Pack(Encode(x))) \o x.junk
       \/ sent' = NoSps /\ nal' \in Ppss
    /\ UNCHANGED <<si, out>>

NalType(d) == d[1] % 32

ParseSps ==
    /\ at = "nal" /\ NalType(nal) = 7
    /\ at' = "parsed" /\ si' = Parse(nal)
    /\ UNCHANGED <<sent, nal, out>>

\* Is the SPS built anew?
Rebuilt == si.frame.ok /\ si.poc_type = 0

WriteSps ==
    /\ at = "parsed"
    /\ at' = "done" /\ out' = IF Rebuilt THEN Build(si) ELSE nal
    /\ UNCHANGED <<sent, nal, si>>

\* Mutant of PpsBody: the zeros stay.
PpsBodyWhole(d) == d

\* A PPS up to its last byte that is not 0.
PpsBody(d) == SubSeq(d, 1, Max({0} \union {i \in DOMAIN d : d[i] # 0}))

\* A PPS of nothing but zeros, or two numbers that cannot be read.  They are
\* read from the NAL header on.
PpsRefused(b) ==
    LET x == ReadUe(b, 0)
        y == ReadUe(b, x.pos)
    IN  Len(b) < 2 \/ x.v = 65535 \/ y.v = 65535

\* The app sends no SPS without fields, and of every PPS that is more than its NAL
\* header the two numbers that are read can be read.
PpssRead ==
    /\ NoSps \notin Sent
    /\ \A d \in Ppss :
         /\ d \in Seq(0 .. 255) /\ d # <<>> /\ NalType(d) = 8
         /\ LET b == PpsBody(d)
                x == ReadUe(b, 0)
            IN  Len(b) >= 2 => x.v # 65535 /\ ReadUe(b, x.pos).v # 65535

WritePps ==
    /\ at = "nal" /\ NalType(nal) = 8
    /\ at' = "done"
    /\ out' = IF PpsRefused(PpsBody(nal)) THEN <<>> ELSE PpsBody(nal)
    /\ UNCHANGED <<sent, nal, si>>

Next == Arrive \/ ParseSps \/ WriteSps \/ WritePps

Spec == Init /\ [][Next]_vars
-----------------------------------------------------------------------------
(* Properties *)

\* What H.264 says of a scaling list that ends early (one of its increments
\* brings the next entry to 0).
EndsEarly(x) == \E m \in DOMAIN x.lists :
                  LET l == x.lists[m] IN l # <<>> /\ Len(l) < ListSize(m)

\* What the entries of a scaling list are taken for when its increments are read
\* as unsigned; a list is read whole if 0 is not among them.
Scales(l) ==
    LET t[i \in 0 .. Len(l)] == IF i = 0 THEN 8 ELSE (t[i - 1] + SeCode(l[i])) % 256
    IN  t

ReadWhole(l) == \A i \in 0 .. Len(l) - 1 : Scales(l)[i] # 0

\* The fields of an SPS as H.264 has them; a size is that of its highest level.
IdFields(x) ==
    /\ x.profile \in 0 .. 255 /\ x.constraint \in 0 .. 255 /\ x.level \in 9 .. 255
    /\ x.sps_id \in 0 .. 31

SizeFields(x) ==
    /\ x.log2frm \in 0 .. 12 /\ x.max_ref \in 0 .. 16
    /\ x.poc_type \in 0 .. 2 /\ x.poc_lsb \in 0 .. 12
    /\ x.gaps \in 0 .. 1 /\ x.w \in 0 .. 1054 /\ x.h \in 0 .. 1054

FlagFields(x) ==
    x.fmbo \in 0 .. 1 /\ x.mb_adaptive \in 0 .. 1 /\ x.direct8x8 \in 0 .. 1

SentCrop(crop) == crop = <<>> \/ crop \in [1 .. 4 -> 0 .. 2046]

TailFields(x) ==
    /\ x.vui \in Seq(0 .. 1) /\ Len(x.vui) >= 2
    /\ x.junk \in Seq(0 .. 255)

SpsFields(x) ==
    IdFields(x) /\ SizeFields(x) /\ FlagFields(x) /\ SentCrop(x.crop) /\ TailFields(x)

HighSpsFields(x) ==
    /\ x.chroma \in 0 .. 3
    /\ x.lists \in Seq(Seq(-128 .. 127))
    /\ x.lists = <<>> \/ Len(x.lists) = IF x.chroma # 3 THEN 8 ELSE 12
    /\ \A m \in DOMAIN x.lists : Len(x.lists[m]) <= ListSize(m)

\* The app sends fields of H.264, in a NAL unit that fits the buffer, and scaling
\* lists that end where their entries do are read whole.
SpssRead ==
    \A x \in Sent :
      /\ SpsFields(x)
      /\ x.profile \in HighProfiles => HighSpsFields(x)
      /\ Len(Escape(Pack(Encode(x))) \o x.junk) <= NAL_BUF_MAX
      /\ ~EndsEarly(x) => \A m \in DOMAIN x.lists : ReadWhole(x.lists[m])

\* Whatever is glued to an SPS and whatever it is escaped with, the fields are
\* read as they were sent, in every profile (fshare2fifo.c 322-417).
ParsedAsSent ==
    (/\ at \in {"parsed", "done"} /\ sent # NoSps
     /\ sent.w <= 300 /\ sent.h <= 300 /\ ~EndsEarly(sent)) =>
        /\ si.profile = sent.profile /\ si.constraint = sent.constraint
        /\ si.level = sent.level /\ si.sps_id = sent.sps_id /\ si.log2frm = sent.log2frm
        /\ si.poc_type = IF sent.poc_type = 1 THEN 9 ELSE sent.poc_type
        /\ sent.poc_type = 0 => si.poc_lsb = sent.poc_lsb
        /\ si.max_ref = sent.max_ref
        /\ si.frame.ok /\ si.frame.fmbo = sent.fmbo /\ si.frame.direct8x8 = sent.direct8x8
        /\ sent.fmbo = 0 => si.frame.mb_adaptive = sent.mb_adaptive
        /\ si.frame.w = 16 * (sent.w + 1)
        /\ si.frame.h = 16 * (sent.h + 1) * (2 - sent.fmbo)
        /\ si.frame.crop = IF sent.crop = <<>> THEN <<0, 0, 0, 0>> ELSE sent.crop

\* A decoder reads from a rebuilt SPS what was read from the one sent, then no
\* VUI and the end (fshare2fifo.c 446-479).
RebuiltReadsSame ==
    (at = "done" /\ sent # NoSps /\ Rebuilt /\ si.profile \notin HighProfiles) =>
      /\ Parse(out) = si
      /\ \E k \in 0 .. 7 : LET end == 8 * Len(out) - k IN
             /\ \A p \in end .. 8 * Len(out) - 1 : Bit(out, p) = 0
             /\ Bit(out, end - 1) = 1 /\ Bit(out, end - 2) = 0

\* Nothing that is written looks like a start code or its escape, although
\* build_sps does not escape what it writes (fshare2fifo.c 446-479).
NoStartCode ==
    (at = "done" /\ sent # NoSps /\ Rebuilt) =>
      \A i \in 1 .. Len(out) - 2 : ~(out[i] = 0 /\ out[i + 1] = 0 /\ out[i + 2] <= 3)

\* A PPS is written without the zeros that follow it, and not at all when it is
\* nothing else (fshare2fifo.c 616-645).
PpsTrimmed ==
    (at = "done" /\ sent = NoSps) =>
      /\ (\E i \in 2 .. Len(nal) : nal[i] # 0) <=> out # <<>>
      /\ out # <<>> => /\ Last(out) # 0 /\ IsPrefix(out, nal)
                       /\ \A i \in Len(out) + 1 .. Len(nal) : nal[i] = 0
=============================================================================
