--------------------------- MODULE RtpTcpReadProofs ---------------------------
(***************************************************************************)
(* Proof that the bytes of a client reach their readers.  What is on its   *)
(* way on a connection is, behind the rest of the frame that is being      *)
(* read, whole requests and frames, and the channel of a frame is in the   *)
(* table: Whole(s), for some set of boundaries.  Every step of the reader  *)
(* takes bytes from the front of one element; every step of the client     *)
(* adds one at the end.                                                    *)
(***************************************************************************)
EXTENDS RtpTcpRead, TLAPS
-----------------------------------------------------------------------------
(***************************************************************************)
(* The inductive invariant                                                 *)
(***************************************************************************)
Bytes == [val : Chans \union {Dollar, Other} \union (0 .. MaxSize),
          of  : {"request", "header"} \union Chans]

\* The bytes of requests and frames.
Asked(I, i) == I[i].of = "request" /\ I[i].val # Dollar

Framed(I, i, c, n) ==
    /\ I[i] = Byte(Dollar, "header") /\ I[i+1] = Byte(c, "header")
    /\ I[i+2] = Byte(n, "header")
    /\ \A k \in i + 3 .. i + 2 + n : I[k].of = c

\* The element of I that begins at i, one of the boundaries B: a request, or
\* a frame of a channel that is in the table R, with no tear-down of that
\* channel before it.
Element(I, B, R, i) ==
    \/ i = Len(I) + 1
    \/ Asked(I, i) /\ i + 1 \in B
    \/ \E c \in Chans, n \in 0 .. MaxSize :
         /\ Framed(I, i, c, n) /\ i + 3 + n \in B
         /\ R[c] # Null
         /\ \A k \in 1 .. i - 1 : I[k] # Byte(c, "request")

\* What has not been read is, from the first boundary on, whole elements.
Elements(I, B, R) ==
    /\ B \subseteq 1 .. Len(I) + 1 /\ Len(I) + 1 \in B
    /\ \A i \in B : Element(I, B, R, i)

\* Before the first boundary b is the rest of the frame that is being read.
Rest(I, R, state, c, left, from, s, b) ==
    \/ state = "AWAITING_DOLLAR" /\ b = 1
    \/ /\ state = "AWAITING_STREAM_CHANNEL_ID"
       /\ \E d \in Chans, n \in 0 .. MaxSize :
            /\ R[d] # Null /\ b = n + 3
            /\ I[1] = Byte(d, "header") /\ I[2] = Byte(n, "header")
            /\ \A k \in 3 .. n + 2 : I[k].of = d
    \/ /\ state = "AWAITING_SIZE" /\ c \in Chans /\ R[c] # Null
       /\ \E n \in 0 .. MaxSize :
            /\ b = n + 2 /\ I[1] = Byte(n, "header")
            /\ \A k \in 2 .. n + 1 : I[k].of = c
    \/ /\ state = "AWAITING_PACKET_DATA" /\ c \in Chans /\ R[c] # Null
       /\ b = left[R[c]] + 1
       /\ left[R[c]] # 0 => from[R[c]] = s
       /\ \A k \in 1 .. left[R[c]] : I[k].of = c

Whole(s) ==
    \E B \in SUBSET (1 .. Len(input[s]) + 1) : \E b \in B :
      /\ Elements(input[s], B, fSubChannelHashTable[s])
      /\ Rest(input[s], fSubChannelHashTable[s], fTCPReadingState[s],
              fStreamChannelId[s], fNextTCPReadSize,
              fNextTCPReadStreamSocketNum, s, b)

\* A channel the client plays is in the table, and no tear-down is on its way.
Plays(s) ==
    \A c \in playing[s] :
      /\ fSubChannelHashTable[s][c] # Null
      /\ \A k \in 1 .. Len(input[s]) : input[s][k] # Byte(c, "request")

ReadTypeOK ==
    /\ ReaderTypeOK
    /\ input \in [Conns -> Seq(Bytes)]
    /\ \A s \in Conns : \A c \in Chans :
         fSubChannelHashTable[s][c] \in {Table[s][c], Null}

ReadIInv ==
    /\ ReadTypeOK
    /\ \A s \in Conns : Whole(s) /\ Plays(s)
    /\ ~misread
-----------------------------------------------------------------------------
(***************************************************************************)
(* Bytes added at the end and taken from the front                         *)
(***************************************************************************)

\* J is I with n bytes taken from the front.
Drops(I, J, n) == /\ Len(J) = Len(I) - n
                  /\ \A k \in 1 .. Len(J) : J[k] = I[k + n]

\* J is I with bytes added.
Extends(I, J) == /\ Len(I) <= Len(J)
                 /\ \A k \in 1 .. Len(I) : J[k] = I[k]

LEMMA TailDrops ==
    ASSUME NEW S, NEW I \in Seq(S), I # <<>>
    PROVE  Tail(I) \in Seq(S) /\ Drops(I, Tail(I), 1) /\ Head(I) = I[1]
           /\ 1 <= Len(I)
BY DEF Drops

LEMMA SubSeqDrops ==
    ASSUME NEW S, NEW I \in Seq(S), NEW n \in 1 .. Len(I)
    PROVE  /\ SubSeq(I, n + 1, Len(I)) \in Seq(S)
           /\ Drops(I, SubSeq(I, n + 1, Len(I)), n)
BY DEF Drops

\* J is I with the bytes of K added.
Joins(I, K, J) == /\ J \in Seq(Bytes) /\ Extends(I, J)
                  /\ Len(J) = Len(I) + Len(K)
                  /\ \A k \in 1 .. Len(K) : J[Len(I) + k] = K[k]

LEMMA ConcatJoins ==
    ASSUME NEW I \in Seq(Bytes), NEW K \in Seq(Bytes)
    PROVE  Joins(I, K, I \o K)
BY DEF Joins, Extends

\* The elements behind the bytes that are taken stay what they are.
LEMMA DropsElements ==
    ASSUME NEW I \in Seq(Bytes), NEW J \in Seq(Bytes), NEW n \in Nat,
           Drops(I, J, n), NEW B \in SUBSET (1 .. Len(I) + 1), NEW R,
           Elements(I, B, R), NEW b \in B, n < b
    PROVE  \E C \in SUBSET (1 .. Len(J) + 1) :
             b - n \in C /\ Elements(J, C, R)
<1>1. PICK l : l = Len(I)
  OBVIOUS
<1>2. PICK m : m = Len(J)
  OBVIOUS
<1>3. /\ l \in Nat /\ m \in Nat /\ m = l - n
      /\ \A k \in 1 .. m : J[k] = I[k + n]
      /\ B \subseteq 1 .. l + 1 /\ l + 1 \in B
      /\ \A i \in B : Element(I, B, R, i)
  BY <1>1, <1>2 DEF Drops, Elements
<1>3a. l \in Nat /\ m \in Nat /\ m = l - n
  BY <1>3
<1>4. PICK C : C = {k \in 1 .. m + 1 : k + n \in B}
  OBVIOUS
<1>5. /\ C \in SUBSET (1 .. m + 1)
      /\ \A k \in 1 .. m + 1 : k \in C <=> k + n \in B
  BY <1>4
<1>6. b - n \in C
  <2>1. b \in 1 .. l + 1
    BY <1>3
  <2>2. b - n \in 1 .. m + 1 /\ (b - n) + n = b
    BY <1>3a, <2>1
  <2> QED
    BY <1>5, <2>2
<1>7. m + 1 \in C
  <2>1. m + 1 \in 1 .. m + 1 /\ (m + 1) + n = l + 1
    BY <1>3a
  <2> QED
    BY <1>3, <1>5, <2>1
<1>8. ASSUME NEW i \in C
      PROVE  Element(J, C, R, i)
  <2>1. i \in 1 .. m + 1 /\ i + n \in B
    BY <1>5, <1>8
  <2>2. Element(I, B, R, i + n)
    BY <1>3, <2>1
  <2>3. CASE i + n = l + 1
    <3>1. i = m + 1
      BY <1>3a, <2>1, <2>3
    <3> QED
      BY <1>2, <3>1 DEF Element
  <2>4. CASE Asked(I, i + n) /\ (i + n) + 1 \in B
    <3>1. (i + n) + 1 \in 1 .. l + 1
      BY <1>3, <2>4
    <3>2. i \in 1 .. m /\ i + 1 \in 1 .. m + 1 /\ (i + 1) + n = (i + n) + 1
      BY <1>3a, <2>1, <3>1
    <3>3. i + 1 \in C /\ J[i] = I[i + n]
      BY <1>3, <1>5, <2>4, <3>2
    <3> QED
      BY <2>4, <3>3 DEF Element, Asked
  <2>5. ASSUME NEW c \in Chans, NEW p \in 0 .. MaxSize,
               Framed(I, i + n, c, p), (i + n) + 3 + p \in B, R[c] # Null,
               \A k \in 1 .. (i + n) - 1 : I[k] # Byte(c, "request")
        PROVE  Element(J, C, R, i)
    <3>0. (i + n) + 3 + p \in 1 .. l + 1
      BY <1>3, <2>5
    <3>1. p \in Nat /\ (i + n) + 3 + p \in 1 .. l + 1
      BY <3>0
    <3>2. /\ i + 3 + p \in 1 .. m + 1 /\ (i + 3 + p) + n = (i + n) + 3 + p
          /\ i \in Nat /\ i + 2 + p <= m
      BY <1>3a, <2>1, <3>1
    <3>3. i + 3 + p \in C
      BY <1>5, <2>5, <3>2
    <3>4. J[i] = I[i + n] /\ J[i+1] = I[(i+n)+1] /\ J[i+2] = I[(i+n)+2]
      <4>1. /\ i \in 1 .. m /\ i + 1 \in 1 .. m /\ i + 2 \in 1 .. m
            /\ (i + 1) + n = (i + n) + 1 /\ (i + 2) + n = (i + n) + 2
        BY <1>3a, <2>1, <3>1, <3>2
      <4>2. J[i] = I[i + n] /\ J[i+1] = I[(i + 1) + n] /\ J[i+2] = I[(i + 2) + n]
        BY <1>3, <4>1
      <4> QED
        BY <4>1, <4>2
    <3>5. ASSUME NEW k \in i + 3 .. i + 2 + p
          PROVE  J[k].of = c
      <4>1. /\ k \in 1 .. m
            /\ k + n \in (i + n) + 3 .. (i + n) + 2 + p
        BY <1>3a, <2>1, <3>1, <3>2
      <4> QED
        BY <1>3, <2>5, <4>1 DEF Framed
    <3>6. ASSUME NEW k \in 1 .. i - 1
          PROVE  J[k] # Byte(c, "request")
      <4>1. k \in 1 .. m /\ k + n \in 1 .. (i + n) - 1
        BY <1>3a, <2>1, <3>2
      <4> QED
        BY <1>3, <2>5, <4>1
    <3>7. Framed(J, i, c, p)
      BY <2>5, <3>4, <3>5 DEF Framed
    <3> QED
      BY <2>5, <3>3, <3>6, <3>7 DEF Element
  <2> QED
    BY <1>1, <2>2, <2>3, <2>4, <2>5 DEF Element
<1> QED
  BY <1>2, <1>5, <1>6, <1>7, <1>8 DEF Elements

\* A new element at the end leaves the others what they are.
LEMMA ExtendsElements ==
    ASSUME NEW I \in Seq(Bytes), NEW J \in Seq(Bytes), Extends(I, J),
           NEW B \in SUBSET (1 .. Len(I) + 1), NEW R, Elements(I, B, R),
           Element(J, {Len(J) + 1}, R, Len(I) + 1)
    PROVE  \E C \in SUBSET (1 .. Len(J) + 1) :
             B \subseteq C /\ Elements(J, C, R)
<1>1. PICK l : l = Len(I)
  OBVIOUS
<1>2. PICK m : m = Len(J)
  OBVIOUS
<1>3. /\ l \in Nat /\ m \in Nat /\ l <= m
      /\ \A k \in 1 .. l : J[k] = I[k]
      /\ B \subseteq 1 .. l + 1 /\ l + 1 \in B
      /\ \A i \in B : Element(I, B, R, i)
  BY <1>1, <1>2 DEF Extends, Elements
<1>3a. l \in Nat /\ m \in Nat /\ l <= m
  BY <1>3
<1>4. PICK C : C = B \union {m + 1}
  OBVIOUS
<1>5. C \in SUBSET (1 .. m + 1) /\ B \subseteq C /\ m + 1 \in C
  BY <1>3, <1>4
<1>6. ASSUME NEW i \in C
      PROVE  Element(J, C, R, i)
  <2>1. CASE i = m + 1
    BY <1>2, <2>1 DEF Element
  <2>2. CASE i = l + 1
    <3>1. Element(J, {m + 1}, R, i)
      BY <1>1, <1>2, <2>2
    <3>2. \A k : k \in {m + 1} => k \in C
      BY <1>5
    <3> QED
      BY <3>1, <3>2 DEF Element
  <2>3. CASE i \in B /\ i # l + 1
    <3>1. Element(I, B, R, i) /\ i \in 1 .. l
      BY <1>3, <2>3
    <3>2. CASE Asked(I, i) /\ i + 1 \in B
      <4>1. J[i] = I[i] /\ i + 1 \in C
        BY <1>3, <1>5, <3>1, <3>2
      <4> QED
        BY <3>2, <4>1 DEF Element, Asked
    <3>3. ASSUME NEW c \in Chans, NEW p \in 0 .. MaxSize,
                 Framed(I, i, c, p), i + 3 + p \in B, R[c] # Null,
                 \A k \in 1 .. i - 1 : I[k] # Byte(c, "request")
          PROVE  Element(J, C, R, i)
      <4>1. p \in Nat /\ i + 3 + p \in 1 .. l + 1 /\ i \in Nat /\ i >= 1
        BY <1>3, <3>1, <3>3
      <4>2. J[i] = I[i] /\ J[i+1] = I[i+1] /\ J[i+2] = I[i+2]
        <5>1. i \in 1 .. l /\ i + 1 \in 1 .. l /\ i + 2 \in 1 .. l
          BY <1>3a, <4>1
        <5> QED
          BY <1>3, <5>1
      <4>3. ASSUME NEW k \in i + 3 .. i + 2 + p
            PROVE  J[k].of = c
        <5>1. k \in 1 .. l
          BY <1>3a, <4>1
        <5> QED
          BY <1>3, <3>3, <5>1 DEF Framed
      <4>4. ASSUME NEW k \in 1 .. i - 1
            PROVE  J[k] # Byte(c, "request")
        <5>1. k \in 1 .. l
          BY <1>3a, <3>1
        <5> QED
          BY <1>3, <3>3, <5>1
      <4>5. Framed(J, i, c, p) /\ i + 3 + p \in C
        BY <1>5, <3>3, <4>2, <4>3 DEF Framed
      <4> QED
        BY <3>3, <4>4, <4>5 DEF Element
    <3> QED
      BY <1>1, <2>3, <3>1, <3>2, <3>3 DEF Element
  <2> QED
    BY <1>4, <1>6, <2>1, <2>2, <2>3
<1> QED
  BY <1>2, <1>5, <1>6 DEF Elements

\* Neither does the rest of the frame that is being read.
LEMMA ExtendsRest ==
    ASSUME NEW I \in Seq(Bytes), NEW J \in Seq(Bytes), Extends(I, J),
           NEW R, NEW state, NEW c, NEW left, NEW from, NEW s,
           NEW b \in 1 .. Len(I) + 1, Rest(I, R, state, c, left, from, s, b),
           MaxSize \in Nat,
           state = "AWAITING_PACKET_DATA" => left[R[c]] \in Nat
    PROVE  Rest(J, R, state, c, left, from, s, b)
<1>1. PICK l : l = Len(I)
  OBVIOUS
<1>2. l \in Nat /\ b \in 1 .. l + 1 /\ \A k \in 1 .. l : J[k] = I[k]
  BY <1>1 DEF Extends
<1>3. CASE state = "AWAITING_DOLLAR"
  BY <1>3 DEF Rest
<1>4. CASE state = "AWAITING_STREAM_CHANNEL_ID"
  <2>1. PICK d \in Chans, n \in 0 .. MaxSize :
            /\ R[d] # Null /\ b = n + 3
            /\ I[1] = Byte(d, "header") /\ I[2] = Byte(n, "header")
            /\ \A k \in 3 .. n + 2 : I[k].of = d
    BY <1>4 DEF Rest
  <2>2. n \in Nat /\ n + 2 <= l
    BY <1>2, <2>1
  <2>3. 1 \in 1 .. l /\ 2 \in 1 .. l /\ \A k \in 3 .. n + 2 : k \in 1 .. l
    BY <1>2, <2>2
  <2>4. J[1] = I[1] /\ J[2] = I[2] /\ \A k \in 3 .. n + 2 : J[k] = I[k]
    BY <1>2, <2>3
  <2> QED
    BY <1>4, <2>1, <2>4 DEF Rest
<1>5. CASE state = "AWAITING_SIZE"
  <2>1. PICK n \in 0 .. MaxSize :
            /\ b = n + 2 /\ I[1] = Byte(n, "header")
            /\ \A k \in 2 .. n + 1 : I[k].of = c
    BY <1>5 DEF Rest
  <2>2. n \in Nat /\ n + 1 <= l
    BY <1>2, <2>1
  <2>3. 1 \in 1 .. l /\ \A k \in 2 .. n + 1 : k \in 1 .. l
    BY <1>2, <2>2
  <2>4. J[1] = I[1] /\ \A k \in 2 .. n + 1 : J[k] = I[k]
    BY <1>2, <2>3
  <2> QED
    BY <1>5, <2>1, <2>4 DEF Rest
<1>6. CASE state = "AWAITING_PACKET_DATA"
  <2>1. PICK n : n = left[R[c]]
    OBVIOUS
  <2>2. n \in Nat /\ b = n + 1 /\ n <= l
    BY <1>2, <1>6, <2>1 DEF Rest
  <2>3. \A k \in 1 .. n : k \in 1 .. l
    BY <1>2, <2>2
  <2>4. \A k \in 1 .. n : J[k] = I[k]
    BY <1>2, <2>3
  <2> QED
    BY <1>6, <2>1, <2>4 DEF Rest
<1> QED
  BY <1>3, <1>4, <1>5, <1>6 DEF Rest
-----------------------------------------------------------------------------
(***************************************************************************)
(* What the client sends                                                   *)
(***************************************************************************)
LEMMA RequestBytes ==
    ASSUME Wired, NEW v \in Chans \union {Other}
    PROVE  /\ Request(v) \in Seq(Bytes) /\ Len(Request(v)) = 1
           /\ Request(v)[1] = Byte(v, "request")
<1>1. Byte(v, "request") \in Bytes
  BY DEF Byte, Bytes
<1> QED
  BY <1>1 DEF Request

LEMMA FrameBytes ==
    ASSUME Wired, NEW c \in Chans, NEW body \in Bodies
    PROVE  \E n \in 0 .. MaxSize :
             /\ Frame(c, body) \in Seq(Bytes) /\ Len(Frame(c, body)) = n + 3
             /\ Framed(Frame(c, body), 1, c, n)
             /\ \A k \in 1 .. n + 3 : \A d \in Chans :
                  Frame(c, body)[k] # Byte(d, "request")
<1>1. PICK n \in 0 .. MaxSize : body \in [1 .. n -> {Dollar, Other}]
  BY DEF Bodies
<1>2. n \in Nat /\ MaxSize \in Nat
  BY <1>1 DEF Wired
<1>3. body \in Seq({Dollar, Other}) /\ Len(body) = n
  BY <1>1, <1>2
<1>4. PICK K : K = [k \in 1 .. Len(body) |-> Byte(body[k], c)]
  OBVIOUS
<1>5. /\ K \in Seq(Bytes) /\ Len(K) = n
      /\ \A k \in 1 .. n : K[k] = Byte(body[k], c) /\ body[k] \in {Dollar, Other}
  <2>1. \A k \in 1 .. n : /\ body[k] \in {Dollar, Other}
                          /\ Byte(body[k], c) \in Bytes
    BY <1>1 DEF Byte, Bytes
  <2>2. K \in [1 .. n -> Bytes]
    BY <1>3, <1>4, <2>1
  <2> QED
    BY <1>2, <1>3, <1>4, <2>1, <2>2
<1>6. PICK H : H = <<Byte(Dollar, "header"), Byte(c, "header"),
                     Byte(n, "header")>>
  OBVIOUS
<1>7. /\ H \in Seq(Bytes) /\ Len(H) = 3
      /\ H[1] = Byte(Dollar, "header") /\ H[2] = Byte(c, "header")
      /\ H[3] = Byte(n, "header")
  <2>1. /\ Byte(Dollar, "header") \in Bytes /\ Byte(c, "header") \in Bytes
        /\ Byte(n, "header") \in Bytes
    BY DEF Byte, Bytes
  <2> QED
    BY <1>6, <2>1
<1>8. PICK F : F = Frame(c, body)
  OBVIOUS
<1>9. F = H \o K
  BY <1>3, <1>4, <1>6, <1>8 DEF Frame
<1>10. /\ F \in Seq(Bytes) /\ Extends(H, F) /\ Len(F) = 3 + n
       /\ \A k \in 1 .. n : F[3 + k] = K[k]
  <2>1. Joins(H, K, F)
    BY <1>5, <1>7, <1>9, ConcatJoins
  <2> QED
    BY <1>5, <1>7, <2>1 DEF Joins
<1>11. F[1] = H[1] /\ F[2] = H[2] /\ F[3] = H[3]
  BY <1>7, <1>10 DEF Extends
<1>12. ASSUME NEW k \in 4 .. 3 + n
       PROVE  F[k].of = c /\ F[k].val \in {Dollar, Other}
  <2>1. k - 3 \in 1 .. n /\ 3 + (k - 3) = k
    BY <1>2
  <2>2. F[k] = K[k - 3]
    BY <1>10, <2>1
  <2> QED
    BY <1>5, <2>1, <2>2 DEF Byte
<1>13. Framed(F, 1, c, n)
  <2>1. 1 + 3 = 4 /\ 1 + 2 + n = 3 + n /\ 1 + 1 = 2 /\ 1 + 2 = 3
    BY <1>2
  <2> QED
    BY <1>7, <1>11, <1>12, <2>1 DEF Framed
<1>14. ASSUME NEW k \in 1 .. n + 3, NEW d \in Chans
       PROVE  F[k] # Byte(d, "request")
  <2>1. k = 1 \/ k = 2 \/ k = 3 \/ k \in 4 .. 3 + n
    BY <1>2
  <2>2. CASE k \in {1, 2, 3}
    BY <1>7, <1>11, <2>2 DEF Byte
  <2>3. CASE k \in 4 .. 3 + n
    <3>1. F[k].val \in {Dollar, Other} /\ d \notin {Dollar, Other}
      BY <1>12, <2>3 DEF Wired
    <3> QED
      BY <3>1 DEF Byte
  <2> QED
    BY <2>1, <2>2, <2>3
<1> QED
  BY <1>2, <1>8, <1>10, <1>13, <1>14

\* What every reader step and every sender leaves to the other connections.
LEMMA OthersKept ==
    ASSUME Wired, ReadTypeOK, NEW s \in Conns, NEW t \in Conns, t # s,
           input'[t] = input[t], playing'[t] = playing[t],
           fSubChannelHashTable'[t] = fSubChannelHashTable[t],
           fTCPReadingState'[t] = fTCPReadingState[t],
           fStreamChannelId'[t] = fStreamChannelId[t],
           \A c \in Chans : LET i == fSubChannelHashTable[t][c] IN i # Null =>
             /\ fNextTCPReadSize'[i] = fNextTCPReadSize[i]
             /\ fNextTCPReadStreamSocketNum'[i] = fNextTCPReadStreamSocketNum[i],
           Whole(t), Plays(t)
    PROVE  Whole(t)' /\ Plays(t)'
<1>1. Plays(t)'
  BY DEF Plays
<1>2. PICK B \in SUBSET (1 .. Len(input[t]) + 1) : \E b \in B :
        /\ Elements(input[t], B, fSubChannelHashTable[t])
        /\ Rest(input[t], fSubChannelHashTable[t], fTCPReadingState[t],
                fStreamChannelId[t], fNextTCPReadSize,
                fNextTCPReadStreamSocketNum, t, b)
  BY DEF Whole
<1>3. PICK b \in B :
        /\ Elements(input[t], B, fSubChannelHashTable[t])
        /\ Rest(input[t], fSubChannelHashTable[t], fTCPReadingState[t],
                fStreamChannelId[t], fNextTCPReadSize,
                fNextTCPReadStreamSocketNum, t, b)
  BY <1>2
<1>4. Rest(input'[t], fSubChannelHashTable'[t], fTCPReadingState'[t],
           fStreamChannelId'[t], fNextTCPReadSize',
           fNextTCPReadStreamSocketNum', t, b)
  <2>1. PICK R : R = fSubChannelHashTable[t]
    OBVIOUS
  <2>2. PICK c : c = fStreamChannelId[t]
    OBVIOUS
  <2>3. c \in Chans /\ R[c] # Null =>
          /\ fNextTCPReadSize'[R[c]] = fNextTCPReadSize[R[c]]
          /\ fNextTCPReadStreamSocketNum'[R[c]] = fNextTCPReadStreamSocketNum[R[c]]
    BY <2>1
  <2>4. Rest(input[t], R, fTCPReadingState[t], c, fNextTCPReadSize',
             fNextTCPReadStreamSocketNum', t, b)
    BY <1>3, <2>1, <2>2, <2>3 DEF Rest
  <2> QED
    BY <2>1, <2>2, <2>4
<1>5. Elements(input'[t], B, fSubChannelHashTable'[t])
      /\ B \in SUBSET (1 .. Len(input'[t]) + 1)
  BY <1>3
<1> QED
  BY <1>1, <1>3, <1>4, <1>5 DEF Whole

\* An interface in the table of one connection is in no other's.
LEMMA PrivateInterfaces ==
    ASSUME Wired, ReadTypeOK, NEW s \in Conns, NEW t \in Conns,
           NEW c \in Chans, NEW d \in Chans,
           fSubChannelHashTable[s][c] = fSubChannelHashTable[t][d],
           fSubChannelHashTable[s][c] # Null
    PROVE  s = t /\ c = d
BY DEF Wired, ReadTypeOK
\* A client that sends whole elements keeps the invariant.
LEMMA SendKeeps ==
    ASSUME Wired, ReadIInv, NEW s \in Conns, NEW bytes \in Seq(Bytes),
           Sends(s, bytes),
           Element(input[s] \o bytes, {Len(input[s] \o bytes) + 1},
                   fSubChannelHashTable[s], Len(input[s]) + 1),
           playing' \in [Conns -> SUBSET Chans],
           \A t \in Conns : t # s => playing'[t] = playing[t],
           playing'[s] \subseteq playing[s],
           \A c \in playing'[s] : \A k \in 1 .. Len(bytes) :
             bytes[k] # Byte(c, "request")
    PROVE  ReadIInv'
<1>1. PICK I : I = input[s]
  OBVIOUS
<1>2. PICK J : J = I \o bytes
  OBVIOUS
<1>3. /\ I \in Seq(Bytes) /\ J \in Seq(Bytes) /\ Extends(I, J)
      /\ Len(J) = Len(I) + Len(bytes)
      /\ \A k \in 1 .. Len(bytes) : J[Len(I) + k] = bytes[k]
  <2>1. I \in Seq(Bytes)
    BY <1>1 DEF ReadIInv, ReadTypeOK
  <2>2. Joins(I, bytes, J)
    BY <1>2, <2>1, ConcatJoins
  <2> QED
    BY <2>1, <2>2 DEF Joins
<1>4. /\ input' = [input EXCEPT ![s] = J]
      /\ UNCHANGED <<fSubChannelHashTable, fTCPReadingState, fStreamChannelId,
                     fNextTCPReadSize, fNextTCPReadStreamSocketNum, misread>>
  BY <1>1, <1>2 DEF Sends, descriptor, next
<1>5. input \in [Conns -> Seq(Bytes)] /\ ReaderTypeOK
  BY DEF ReadIInv, ReadTypeOK
<1>6. /\ input'[s] = J /\ input' \in [Conns -> Seq(Bytes)]
      /\ \A t \in Conns : t # s => input'[t] = input[t]
  BY <1>3, <1>4, <1>5
<1>7. ReadTypeOK'
  BY <1>4, <1>6 DEF ReadIInv, ReadTypeOK, ReaderTypeOK
<1>8. ASSUME NEW t \in Conns, t # s
      PROVE  Whole(t)' /\ Plays(t)'
  BY <1>4, <1>6, <1>8, OthersKept DEF ReadIInv
<1>9. Whole(s)'
  <2>1. PICK B \in SUBSET (1 .. Len(I) + 1) : \E b \in B :
          /\ Elements(I, B, fSubChannelHashTable[s])
          /\ Rest(I, fSubChannelHashTable[s], fTCPReadingState[s],
                  fStreamChannelId[s], fNextTCPReadSize,
                  fNextTCPReadStreamSocketNum, s, b)
    BY <1>1 DEF ReadIInv, Whole
  <2>2. PICK b \in B :
          /\ Elements(I, B, fSubChannelHashTable[s])
          /\ Rest(I, fSubChannelHashTable[s], fTCPReadingState[s],
                  fStreamChannelId[s], fNextTCPReadSize,
                  fNextTCPReadStreamSocketNum, s, b)
    BY <2>1
  <2>3. PICK C \in SUBSET (1 .. Len(J) + 1) :
          B \subseteq C /\ Elements(J, C, fSubChannelHashTable[s])
    <3>1. PICK R : R = fSubChannelHashTable[s]
      OBVIOUS
    <3>2. Element(J, {Len(J) + 1}, R, Len(I) + 1)
      BY <1>1, <1>2, <3>1
    <3>3. Elements(I, B, R)
      BY <2>2, <3>1
    <3>4. \E C \in SUBSET (1 .. Len(J) + 1) : B \subseteq C /\ Elements(J, C, R)
      BY <1>3, <3>2, <3>3, ExtendsElements
    <3> QED
      BY <3>1, <3>4
  <2>4. fTCPReadingState[s] = "AWAITING_PACKET_DATA" =>
          fNextTCPReadSize[fSubChannelHashTable[s][fStreamChannelId[s]]] \in Nat
    <3> SUFFICES ASSUME fTCPReadingState[s] = "AWAITING_PACKET_DATA"
                 PROVE  fNextTCPReadSize[fSubChannelHashTable[s][fStreamChannelId[s]]]
                          \in Nat
      OBVIOUS
    <3>1. /\ fStreamChannelId[s] \in Chans
          /\ fSubChannelHashTable[s][fStreamChannelId[s]] # Null
      BY <2>2 DEF Rest
    <3>2. fSubChannelHashTable[s][fStreamChannelId[s]] \in Interfaces
      BY <1>5, <3>1 DEF ReaderTypeOK
    <3>3. MaxSize \in Nat
      BY DEF Wired
    <3> QED
      BY <1>5, <3>2, <3>3 DEF ReaderTypeOK
  <2>5. Rest(J, fSubChannelHashTable[s], fTCPReadingState[s],
             fStreamChannelId[s], fNextTCPReadSize,
             fNextTCPReadStreamSocketNum, s, b)
    BY <1>3, <2>1, <2>2, <2>4, ExtendsRest DEF Wired
  <2>6. b \in C
    BY <2>3
  <2> QED
    BY <1>4, <1>6, <2>3, <2>5, <2>6 DEF Whole
<1>10. Plays(s)'
  <2> SUFFICES ASSUME NEW c \in playing'[s]
               PROVE  /\ fSubChannelHashTable'[s][c] # Null
                      /\ \A k \in 1 .. Len(J) : J[k] # Byte(c, "request")
    BY <1>6 DEF Plays
  <2>1. /\ fSubChannelHashTable[s][c] # Null
        /\ \A k \in 1 .. Len(I) : I[k] # Byte(c, "request")
    BY <1>1 DEF ReadIInv, Plays
  <2>2. ASSUME NEW k \in 1 .. Len(J)
        PROVE  J[k] # Byte(c, "request")
    <3>1. CASE k \in 1 .. Len(I)
      <4>1. J[k] = I[k]
        BY <1>3, <3>1 DEF Extends
      <4> QED
        BY <2>1, <3>1, <4>1
    <3>2. CASE k \notin 1 .. Len(I)
      <4>1. PICK l \in Nat : l = Len(I)
        BY <1>3
      <4>2. k - l \in 1 .. Len(bytes) /\ l + (k - l) = k
        BY <1>3, <3>2, <4>1
      <4>3. J[k] = bytes[k - l]
        BY <1>3, <4>1, <4>2
      <4> QED
        BY <4>2, <4>3
    <3> QED
      BY <3>1, <3>2
  <2> QED
    BY <1>4, <2>1, <2>2
<1> QED
  BY <1>4, <1>7, <1>8, <1>9, <1>10 DEF ReadIInv

LEMMA ClientKeeps ==
    ASSUME Wired, ReadIInv, NEW s \in Conns,
           ClientAsks(s) \/ ClientReports(s) \/ ClientTearsDown(s)
    PROVE  ReadIInv'
<1>1. PICK I : I = input[s]
  OBVIOUS
<1>2. /\ I \in Seq(Bytes) /\ Len(I) \in Nat /\ playing \in [Conns -> SUBSET Chans]
  BY <1>1 DEF ReadIInv, ReadTypeOK, ReaderTypeOK
<1>3. ASSUME NEW v \in Chans \union {Other}
      PROVE  /\ Request(v) \in Seq(Bytes) /\ Len(Request(v)) = 1
             /\ Request(v)[1] = Byte(v, "request")
             /\ Element(I \o Request(v), {Len(I \o Request(v)) + 1},
                        fSubChannelHashTable[s], Len(I) + 1)
  <2>1. /\ Request(v) \in Seq(Bytes) /\ Len(Request(v)) = 1
        /\ Request(v)[1] = Byte(v, "request")
    BY <1>3, RequestBytes
  <2>2. PICK J : J = I \o Request(v)
    OBVIOUS
  <2>3. Len(J) = Len(I) + 1 /\ J[Len(I) + 1] = Byte(v, "request")
    <3>1. Joins(I, Request(v), J)
      BY <1>2, <2>1, <2>2, ConcatJoins
    <3>2. /\ Len(J) = Len(I) + 1
          /\ \A k \in 1 .. 1 : J[Len(I) + k] = Request(v)[k]
      BY <2>1, <3>1 DEF Joins
    <3> QED
      BY <2>1, <3>2
  <2>4. v # Dollar
    BY DEF Wired
  <2>5. Asked(J, Len(I) + 1)
    BY <2>3, <2>4 DEF Asked, Byte
  <2>6. (Len(I) + 1) + 1 \in {Len(J) + 1}
    BY <1>2, <2>3
  <2>7. Element(J, {Len(J) + 1}, fSubChannelHashTable[s], Len(I) + 1)
    BY <2>5, <2>6 DEF Element
  <2> QED
    BY <2>1, <2>2, <2>7
<1>4. CASE ClientAsks(s)
  <2>1. Sends(s, Request(Other)) /\ playing' = playing
    BY <1>4 DEF ClientAsks
  <2>2. ASSUME NEW c \in Chans, NEW k \in 1 .. Len(Request(Other))
        PROVE  Request(Other)[k] # Byte(c, "request")
    <3>1. Len(Request(Other)) = 1 /\ Request(Other)[1] = Byte(Other, "request")
      BY <1>3
    <3>2. k = 1 /\ c # Other
      BY <2>2, <3>1 DEF Wired
    <3> QED
      BY <3>1, <3>2 DEF Byte
  <2>3. Request(Other) \in Seq(Bytes)
        /\ Element(I \o Request(Other), {Len(I \o Request(Other)) + 1},
                   fSubChannelHashTable[s], Len(I) + 1)
    BY <1>3
  <2>4. playing[s] \subseteq Chans
    BY <1>2
  <2> QED
    BY <1>1, <1>2, <2>1, <2>2, <2>3, <2>4, SendKeeps
<1>5. CASE ClientTearsDown(s)
  <2>1. PICK v \in playing[s] :
          Sends(s, Request(v))
          /\ playing' = [playing EXCEPT ![s] = @ \ {v}]
    BY <1>5 DEF ClientTearsDown
  <2>2. /\ v \in Chans /\ playing'[s] = playing[s] \ {v}
        /\ playing' \in [Conns -> SUBSET Chans]
        /\ \A t \in Conns : t # s => playing'[t] = playing[t]
    BY <1>2, <2>1
  <2>3. ASSUME NEW c \in playing'[s], NEW k \in 1 .. Len(Request(v))
        PROVE  Request(v)[k] # Byte(c, "request")
    <3>1. Len(Request(v)) = 1 /\ Request(v)[1] = Byte(v, "request")
      BY <1>3, <2>2
    <3>2. k = 1 /\ c # v
      BY <2>2, <2>3, <3>1
    <3> QED
      BY <3>1, <3>2 DEF Byte
  <2>4. Request(v) \in Seq(Bytes)
        /\ Element(I \o Request(v), {Len(I \o Request(v)) + 1},
                   fSubChannelHashTable[s], Len(I) + 1)
    BY <1>3, <2>2
  <2>5. playing'[s] \subseteq playing[s]
    BY <2>2
  <2> QED
    BY <1>1, <2>1, <2>2, <2>3, <2>4, <2>5, SendKeeps
<1>6. CASE ClientReports(s)
  <2>1. PICK c \in playing[s], body \in Bodies :
          Sends(s, Frame(c, body)) /\ playing' = playing
    BY <1>6 DEF ClientReports
  <2>2. c \in Chans
    BY <1>2
  <2>3. PICK n \in 0 .. MaxSize :
             /\ Frame(c, body) \in Seq(Bytes) /\ Len(Frame(c, body)) = n + 3
             /\ Framed(Frame(c, body), 1, c, n)
             /\ \A k \in 1 .. n + 3 : \A d \in Chans :
                  Frame(c, body)[k] # Byte(d, "request")
    BY <2>2, FrameBytes
  <2>4. PICK F : F = Frame(c, body)
    OBVIOUS
  <2>5. PICK J : J = I \o F
    OBVIOUS
  <2>6. PICK l \in Nat : l = Len(I)
    BY <1>2
  <2>7. /\ Len(J) = l + (n + 3) /\ F \in Seq(Bytes) /\ Extends(I, J)
        /\ \A k \in 1 .. n + 3 : J[l + k] = F[k]
    <3>1. F \in Seq(Bytes) /\ Len(F) = n + 3
      BY <2>3, <2>4
    <3>2. Joins(I, F, J)
      BY <1>2, <2>5, <3>1, ConcatJoins
    <3> QED
      BY <2>6, <3>1, <3>2 DEF Joins
  <2>8. n \in Nat
    BY DEF Wired
  <2>9. Framed(J, l + 1, c, n)
    <3>1. J[l + 1] = F[1] /\ J[l + 2] = F[2] /\ J[l + 3] = F[3]
      BY <2>7, <2>8
    <3>2. ASSUME NEW k \in (l + 1) + 3 .. (l + 1) + 2 + n
          PROVE  J[k].of = c
      <4>1. k - l \in 1 .. n + 3 /\ l + (k - l) = k
            /\ k - l \in 1 + 3 .. 1 + 2 + n
        BY <2>8
      <4>2. J[k] = F[k - l]
        BY <2>7, <4>1
      <4> QED
        BY <2>3, <2>4, <4>1, <4>2 DEF Framed
    <3>3. (l + 1) + 1 = l + 2 /\ (l + 1) + 2 = l + 3 /\ 1 + 1 = 2 /\ 1 + 2 = 3
      OBVIOUS
    <3> QED
      BY <2>3, <2>4, <3>1, <3>2, <3>3 DEF Framed
  <2>10. Element(J, {Len(J) + 1}, fSubChannelHashTable[s], l + 1)
    <3>1. (l + 1) + 3 + n \in {Len(J) + 1} /\ (l + 1) - 1 = l
      BY <2>7, <2>8
    <3>2. /\ fSubChannelHashTable[s][c] # Null
          /\ \A k \in 1 .. l : I[k] # Byte(c, "request")
      BY <1>1, <2>6 DEF ReadIInv, Plays
    <3>3. \A k \in 1 .. l : J[k] = I[k]
      BY <2>6, <2>7 DEF Extends
    <3> QED
      BY <2>2, <2>9, <3>1, <3>2, <3>3 DEF Element
  <2>11. \A d \in playing[s] : \A k \in 1 .. Len(F) : F[k] # Byte(d, "request")
    BY <1>2, <2>3, <2>4
  <2> QED
    BY <1>1, <1>2, <2>1, <2>4, <2>5, <2>6, <2>7, <2>10, <2>11, SendKeeps
<1> QED
  BY <1>4, <1>5, <1>6
-----------------------------------------------------------------------------
(***************************************************************************)
(* What the server reads                                                   *)
(***************************************************************************)

\* A channel leaves the table when its tear-down is read: no frame of it
\* follows.
LEMMA TornDownElements ==
    ASSUME NEW I \in Seq(Bytes), I # <<>>, NEW v, I[1] = Byte(v, "request"),
           NEW B \in SUBSET (1 .. Len(I) + 1), NEW R, Elements(I, B, R),
           NEW Q, \A c \in Chans : c # v => Q[c] = R[c]
    PROVE  Elements(I, B, Q)
<1>1. PICK l \in Nat : l = Len(I)
  OBVIOUS
<1>2. ASSUME NEW i \in B
      PROVE  Element(I, B, Q, i)
  <2>1. Element(I, B, R, i) /\ i \in 1 .. l + 1
    BY <1>1 DEF Elements
  <2>2. ASSUME NEW c \in Chans, NEW n \in 0 .. MaxSize,
               Framed(I, i, c, n), i + 3 + n \in B, R[c] # Null,
               \A k \in 1 .. i - 1 : I[k] # Byte(c, "request")
        PROVE  Element(I, B, Q, i)
    <3>1. i # 1
      BY <2>2 DEF Framed, Byte
    <3>2. 1 \in 1 .. i - 1
      BY <2>1, <3>1
    <3>3. c # v
      BY <2>2, <3>2
    <3> QED
      BY <2>2, <3>3 DEF Element
  <2> QED
    BY <2>1, <2>2 DEF Element
<1> QED
  BY <1>2 DEF Elements

\* A step that reads n bytes, the first boundary being at b.
LEMMA ReadWhole ==
    ASSUME NEW s \in Conns, NEW I \in Seq(Bytes), NEW J \in Seq(Bytes),
           input'[s] = J, NEW n \in Nat, Drops(I, J, n),
           NEW B \in SUBSET (1 .. Len(I) + 1), NEW R,
           fSubChannelHashTable'[s] = R, Elements(I, B, R),
           NEW b \in B, n < b,
           Rest(J, R, fTCPReadingState'[s], fStreamChannelId'[s],
                fNextTCPReadSize', fNextTCPReadStreamSocketNum', s, b - n)
    PROVE  Whole(s)'
<1>1. PICK C \in SUBSET (1 .. Len(J) + 1) : b - n \in C /\ Elements(J, C, R)
  BY DropsElements
<1> QED
  BY <1>1 DEF Whole

LEMMA ReadPlays ==
    ASSUME NEW s \in Conns, NEW n \in Nat, Drops(input[s], input'[s], n),
           Len(input[s]) \in Nat, playing'[s] = playing[s], Plays(s),
           \A c \in playing[s] :
             fSubChannelHashTable'[s][c] = fSubChannelHashTable[s][c]
    PROVE  Plays(s)'
<1> SUFFICES ASSUME NEW c \in playing[s], NEW k \in 1 .. Len(input'[s])
             PROVE  input'[s][k] # Byte(c, "request")
  BY DEF Plays
<1>1. PICK I : I = input[s]
  OBVIOUS
<1>2. PICK J : J = input'[s]
  OBVIOUS
<1>3. /\ Len(J) = Len(I) - n /\ Len(I) \in Nat /\ k \in 1 .. Len(J)
      /\ J[k] = I[k + n]
  BY <1>1, <1>2 DEF Drops
<1>4. k + n \in 1 .. Len(I)
  BY <1>3
<1> QED
  BY <1>1, <1>2, <1>3, <1>4 DEF Plays

LEMMA ReadKeeps ==
    ASSUME Wired, ReadIInv, NEW s \in Conns, ReadTypeOK', ~misread',
           playing' = playing,
           \A t \in Conns : t # s =>
             /\ input'[t] = input[t]
             /\ fSubChannelHashTable'[t] = fSubChannelHashTable[t]
             /\ fTCPReadingState'[t] = fTCPReadingState[t]
             /\ fStreamChannelId'[t] = fStreamChannelId[t],
           \A i \in Interfaces :
             \/ \E c \in Chans : fSubChannelHashTable[s][c] = i
             \/ /\ fNextTCPReadSize'[i] = fNextTCPReadSize[i]
                /\ fNextTCPReadStreamSocketNum'[i] = fNextTCPReadStreamSocketNum[i],
           Whole(s)', Plays(s)'
    PROVE  ReadIInv'
<1>1. ASSUME NEW t \in Conns, t # s
      PROVE  Whole(t)' /\ Plays(t)'
  <2>1. ReadTypeOK /\ Whole(t) /\ Plays(t)
    BY DEF ReadIInv
  <2>2. ASSUME NEW c \in Chans, fSubChannelHashTable[t][c] # Null
        PROVE  LET i == fSubChannelHashTable[t][c] IN
               /\ fNextTCPReadSize'[i] = fNextTCPReadSize[i]
               /\ fNextTCPReadStreamSocketNum'[i] = fNextTCPReadStreamSocketNum[i]
    <3>1. fSubChannelHashTable[t][c] \in Interfaces
      BY <2>1, <2>2 DEF ReadTypeOK, ReaderTypeOK
    <3>2. ~ \E d \in Chans :
            fSubChannelHashTable[s][d] = fSubChannelHashTable[t][c]
      BY <1>1, <2>1, <2>2, PrivateInterfaces
    <3> QED
      BY <3>1, <3>2
  <2> QED
    BY <1>1, <2>1, <2>2, OthersKept
<1> QED
  BY <1>1 DEF ReadIInv

\* What a step that reads one byte, and no more, does.
LEMMA ReadsOne ==
    ASSUME ReadTypeOK, NEW s \in Conns, NEW state, Reads(s, state)
    PROVE  \E I, J \in Seq(Bytes) :
             /\ I = input[s] /\ J = input'[s] /\ Drops(I, J, 1) /\ I # <<>>
             /\ Head(input[s]) = I[1] /\ I[1] \in Bytes /\ Len(I) \in Nat
             /\ 1 <= Len(I)
             /\ input' \in [Conns -> Seq(Bytes)]
             /\ \A t \in Conns : t # s => input'[t] = input[t]
             /\ playing' = playing /\ fTCPReadingState[s] = state
<1>1. /\ input \in [Conns -> Seq(Bytes)] /\ input[s] # <<>>
      /\ input' = [input EXCEPT ![s] = Tail(input[s])]
      /\ playing' = playing /\ fTCPReadingState[s] = state
  BY DEF ReadTypeOK, Reads
<1>2. PICK I \in Seq(Bytes) : I = input[s]
  BY <1>1
<1>3. /\ Tail(I) \in Seq(Bytes) /\ Drops(I, Tail(I), 1) /\ Head(I) = I[1]
      /\ 1 <= Len(I)
  BY <1>1, <1>2, TailDrops
<1>4. /\ input'[s] = Tail(I) /\ input' \in [Conns -> Seq(Bytes)]
      /\ \A t \in Conns : t # s => input'[t] = input[t]
  BY <1>1, <1>2, <1>3
<1>5. I[1] \in Bytes /\ Len(I) \in Nat
  BY <1>2, <1>3
<1> QED
  BY <1>1, <1>2, <1>3, <1>4, <1>5

LEMMA AwaitDollarKeeps ==
    ASSUME Wired, ReadIInv, NEW s \in Conns, AwaitDollar(s)
    PROVE  ReadIInv'
<1>0. ReadTypeOK /\ ReaderTypeOK /\ ~misread /\ Whole(s) /\ Plays(s)
  BY DEF ReadIInv, ReadTypeOK
<1>1. Reads(s, "AWAITING_DOLLAR")
  BY DEF AwaitDollar
<1>2. PICK I \in Seq(Bytes), J \in Seq(Bytes) :
        /\ I = input[s] /\ J = input'[s] /\ Drops(I, J, 1) /\ I # <<>>
        /\ Head(input[s]) = I[1] /\ I[1] \in Bytes /\ Len(I) \in Nat
        /\ 1 <= Len(I)
        /\ input' \in [Conns -> Seq(Bytes)]
        /\ \A t \in Conns : t # s => input'[t] = input[t]
        /\ playing' = playing /\ fTCPReadingState[s] = "AWAITING_DOLLAR"
  BY <1>0, <1>1, ReadsOne
<1>3. PICK R : R = fSubChannelHashTable[s]
  OBVIOUS
<1>4. PICK B \in SUBSET (1 .. Len(I) + 1) :
        \E b \in B : /\ Elements(I, B, R)
                     /\ Rest(I, R, fTCPReadingState[s], fStreamChannelId[s],
                             fNextTCPReadSize, fNextTCPReadStreamSocketNum, s, b)
  BY <1>0, <1>2, <1>3 DEF Whole
<1>5. 1 \in B /\ Elements(I, B, R) /\ Element(I, B, R, 1)
  BY <1>2, <1>4 DEF Rest, Elements
<1>6. UNCHANGED <<fStreamChannelId, fNextTCPReadSize,
                  fNextTCPReadStreamSocketNum>>
  BY DEF AwaitDollar, next
<1>7. 1 # Len(I) + 1
  BY <1>2
<1>8. CASE I[1].val = Dollar
  <2>1. /\ misread' = (misread \/ ~(I[1].of = "header"))
        /\ fTCPReadingState' =
             [fTCPReadingState EXCEPT ![s] = "AWAITING_STREAM_CHANNEL_ID"]
        /\ fSubChannelHashTable' = fSubChannelHashTable
    BY <1>2, <1>8 DEF AwaitDollar, Expect, Becomes
  <2>2. PICK c \in Chans, n \in 0 .. MaxSize :
          /\ Framed(I, 1, c, n) /\ 1 + 3 + n \in B /\ R[c] # Null
    BY <1>5, <1>7, <1>8 DEF Element, Asked
  <2>3. n \in Nat
    BY DEF Wired
  <2>4. ~misread'
    <3>1. I[1].of = "header"
      BY <2>2 DEF Framed, Byte
    <3> QED
      BY <1>0, <2>1, <3>1
  <2>5. /\ fTCPReadingState'[s] = "AWAITING_STREAM_CHANNEL_ID"
        /\ \A t \in Conns : t # s => fTCPReadingState'[t] = fTCPReadingState[t]
    BY <1>0, <2>1 DEF ReaderTypeOK
  <2>6. ReadTypeOK'
    BY <1>0, <1>2, <1>6, <2>1, <2>4 DEF ReadTypeOK, ReaderTypeOK
  <2>7. PICK b \in B : b = 1 + 3 + n
    BY <2>2
  <2>8. PICK m \in Nat : m = Len(J)
    BY <1>2
  <2>9. /\ m = Len(I) - 1 /\ \A k \in 1 .. m : J[k] = I[k + 1]
        /\ n + 2 <= m
    <3>1. b <= Len(I) + 1
      BY <2>7
    <3> QED
      BY <1>2, <2>3, <2>7, <2>8, <3>1 DEF Drops
  <2>10. Rest(J, R, fTCPReadingState'[s], fStreamChannelId'[s],
              fNextTCPReadSize', fNextTCPReadStreamSocketNum', s, b - 1)
    <3>1. b - 1 = n + 3
      BY <2>3, <2>7
    <3>2. J[1] = I[1 + 1] /\ J[2] = I[1 + 2]
      <4>1. 1 \in 1 .. m /\ 2 \in 1 .. m
        BY <2>3, <2>9
      <4> QED
        BY <2>9, <4>1
    <3>3. ASSUME NEW k \in 3 .. n + 2
          PROVE  J[k].of = c
      <4>1. k \in 1 .. m /\ k + 1 \in 1 + 3 .. 1 + 2 + n
        BY <2>3, <2>9
      <4> QED
        BY <2>2, <2>9, <4>1 DEF Framed
    <3> QED
      BY <2>2, <2>5, <3>1, <3>2, <3>3 DEF Rest, Framed
  <2>11. Whole(s)'
    <3>1. 1 < b /\ 1 \in Nat /\ fSubChannelHashTable'[s] = R
      BY <1>3, <2>1, <2>3, <2>7
    <3> QED
      BY <1>2, <1>5, <2>10, <3>1, ReadWhole
  <2>12. Plays(s)'
    BY <1>0, <1>2, <2>1, ReadPlays
  <2> QED
    BY <1>2, <1>6, <2>1, <2>4, <2>5, <2>6, <2>11, <2>12, ReadKeeps
<1>9. CASE I[1].val # Dollar
  <2>1. /\ misread' = (misread \/ ~(I[1].of = "request"))
        /\ fTCPReadingState' = fTCPReadingState
        /\ fSubChannelHashTable' =
             IF I[1].val \in Chans
             THEN [fSubChannelHashTable EXCEPT ![s][I[1].val] = Null]
             ELSE fSubChannelHashTable
    BY <1>2, <1>9 DEF AwaitDollar, Expect
  <2>2. Asked(I, 1) /\ 1 + 1 \in B
    <3>1. ~ \E c \in Chans, n \in 0 .. MaxSize : Framed(I, 1, c, n)
      <4>1. I[1] # Byte(Dollar, "header")
        BY <1>9 DEF Byte
      <4> QED
        BY <4>1 DEF Framed
    <3> QED
      BY <1>5, <1>7, <3>1, Zenon DEF Element
  <2>3. ~misread'
    BY <1>0, <2>1, <2>2 DEF Asked
  <2>4. PICK v : v = I[1].val
    OBVIOUS
  <2>5. I[1] = Byte(v, "request")
    BY <1>2, <2>2, <2>4 DEF Asked, Byte, Bytes
  <2>6. PICK Q : Q = fSubChannelHashTable'[s]
    OBVIOUS
  <2>7. /\ \A c \in Chans : c # v => Q[c] = R[c]
        /\ fSubChannelHashTable' \in [Conns -> [Chans -> Interfaces \union {Null}]]
        /\ \A t \in Conns : t # s =>
             fSubChannelHashTable'[t] = fSubChannelHashTable[t]
        /\ \A t \in Conns : \A c \in Chans :
             fSubChannelHashTable'[t][c] \in {fSubChannelHashTable[t][c], Null}
    <3>1. fSubChannelHashTable \in [Conns -> [Chans -> Interfaces \union {Null}]]
      BY <1>0 DEF ReaderTypeOK
    <3>2. CASE v \notin Chans
      BY <1>3, <2>1, <2>4, <2>6, <3>1, <3>2
    <3>3. CASE v \in Chans
      <4>1. fSubChannelHashTable' =
              [fSubChannelHashTable EXCEPT ![s] = [R EXCEPT ![v] = Null]]
        BY <1>3, <2>1, <2>4, <3>3
      <4>2. R \in [Chans -> Interfaces \union {Null}]
        BY <1>3, <3>1
      <4>3. /\ [R EXCEPT ![v] = Null] \in [Chans -> Interfaces \union {Null}]
            /\ \A c \in Chans : /\ c # v => [R EXCEPT ![v] = Null][c] = R[c]
                                /\ [R EXCEPT ![v] = Null][c] \in {R[c], Null}
        BY <3>3, <4>2
      <4>4. Q = [R EXCEPT ![v] = Null]
        BY <2>6, <3>1, <4>1
      <4>5. \A t \in Conns : t # s =>
              fSubChannelHashTable'[t] = fSubChannelHashTable[t]
        BY <3>1, <4>1
      <4> QED
        BY <1>3, <2>6, <3>1, <4>1, <4>3, <4>4, <4>5
    <3> QED
      BY <3>2, <3>3
  <2>8. ReadTypeOK'
    BY <1>0, <1>2, <1>6, <2>1, <2>3, <2>7 DEF ReadTypeOK, ReaderTypeOK
  <2>9. Elements(I, B, Q)
    BY <1>2, <1>5, <2>5, <2>7, TornDownElements
  <2>10. Whole(s)'
    <3>1. PICK b \in B : b = 2
      BY <2>2
    <3>2. Rest(J, Q, fTCPReadingState'[s], fStreamChannelId'[s],
               fNextTCPReadSize', fNextTCPReadStreamSocketNum', s, b - 1)
      BY <1>2, <2>1, <3>1 DEF Rest
    <3>3. 1 < b /\ 1 \in Nat /\ fSubChannelHashTable'[s] = Q
      BY <2>6, <3>1
    <3> QED
      BY <1>2, <2>9, <3>2, <3>3, ReadWhole
  <2>11. Plays(s)'
    <3>1. ASSUME NEW c \in playing[s]
          PROVE  fSubChannelHashTable'[s][c] = fSubChannelHashTable[s][c]
      <4>1. c # v
        <5>1. 1 \in 1 .. Len(I)
          BY <1>2
        <5> QED
          BY <1>0, <1>2, <2>5, <5>1 DEF Plays
      <4>2. c \in Chans
        BY <1>0 DEF ReaderTypeOK
      <4> QED
        BY <1>3, <2>6, <2>7, <4>1, <4>2
    <3> QED
      BY <1>0, <1>2, <3>1, ReadPlays
  <2> QED
    BY <1>2, <1>6, <2>1, <2>3, <2>7, <2>8, <2>10, <2>11, ReadKeeps
<1> QED
  BY <1>8, <1>9

LEMMA AwaitChannelKeeps ==
    ASSUME Wired, ReadIInv, NEW s \in Conns, AwaitChannel(s)
    PROVE  ReadIInv'
<1>0. ReadTypeOK /\ ReaderTypeOK /\ ~misread /\ Whole(s) /\ Plays(s)
  BY DEF ReadIInv, ReadTypeOK
<1>1. Reads(s, "AWAITING_STREAM_CHANNEL_ID")
  BY DEF AwaitChannel
<1>2. PICK I \in Seq(Bytes), J \in Seq(Bytes) :
        /\ I = input[s] /\ J = input'[s] /\ Drops(I, J, 1) /\ I # <<>>
        /\ Head(input[s]) = I[1] /\ I[1] \in Bytes /\ Len(I) \in Nat
        /\ 1 <= Len(I)
        /\ input' \in [Conns -> Seq(Bytes)]
        /\ \A t \in Conns : t # s => input'[t] = input[t]
        /\ playing' = playing
        /\ fTCPReadingState[s] = "AWAITING_STREAM_CHANNEL_ID"
  BY <1>0, <1>1, ReadsOne
<1>3. PICK R : R = fSubChannelHashTable[s]
  OBVIOUS
<1>4. PICK B \in SUBSET (1 .. Len(I) + 1) :
        \E b \in B : /\ Elements(I, B, R)
                     /\ Rest(I, R, fTCPReadingState[s], fStreamChannelId[s],
                             fNextTCPReadSize, fNextTCPReadStreamSocketNum, s, b)
  BY <1>0, <1>2, <1>3 DEF Whole
<1>5. PICK b \in B : /\ Elements(I, B, R)
                     /\ Rest(I, R, fTCPReadingState[s], fStreamChannelId[s],
                             fNextTCPReadSize, fNextTCPReadStreamSocketNum, s, b)
  BY <1>4
<1>6. PICK d \in Chans, n \in 0 .. MaxSize :
        /\ R[d] # Null /\ b = n + 3
        /\ I[1] = Byte(d, "header") /\ I[2] = Byte(n, "header")
        /\ \A k \in 3 .. n + 2 : I[k].of = d
  BY <1>2, <1>5 DEF Rest
<1>7. n \in Nat /\ I[1].val = d /\ I[1].of = "header"
  BY <1>6 DEF Wired, Byte
<1>8. /\ misread' = misread
      /\ fStreamChannelId' = [fStreamChannelId EXCEPT ![s] = d]
      /\ fTCPReadingState' = [fTCPReadingState EXCEPT ![s] = "AWAITING_SIZE"]
      /\ UNCHANGED <<fSubChannelHashTable, fNextTCPReadSize,
                     fNextTCPReadStreamSocketNum>>
  <2>1. I[1].val \in Chans /\ fSubChannelHashTable[s][I[1].val] # Null
    BY <1>3, <1>6, <1>7
  <2>2. misread' = (misread \/ ~TRUE)
    BY <1>2, <1>7, <2>1 DEF AwaitChannel, Expect
  <2>3. misread' = misread
    BY <1>0, <2>2 DEF ReaderTypeOK
  <2> QED
    BY <1>2, <1>7, <2>1, <2>3 DEF AwaitChannel, Becomes, next
<1>9. /\ fTCPReadingState'[s] = "AWAITING_SIZE" /\ fStreamChannelId'[s] = d
      /\ \A t \in Conns : t # s =>
           /\ fTCPReadingState'[t] = fTCPReadingState[t]
           /\ fStreamChannelId'[t] = fStreamChannelId[t]
  BY <1>0, <1>8 DEF ReaderTypeOK
<1>10. ReadTypeOK'
  BY <1>0, <1>2, <1>8 DEF ReadTypeOK, ReaderTypeOK
<1>11. PICK m \in Nat : m = Len(J)
  BY <1>2
<1>12. /\ m = Len(I) - 1 /\ \A k \in 1 .. m : J[k] = I[k + 1]
       /\ n + 1 <= m
  <2>1. b <= Len(I) + 1
    OBVIOUS
  <2> QED
    BY <1>2, <1>6, <1>7, <1>11, <2>1 DEF Drops
<1>13. Rest(J, R, fTCPReadingState'[s], fStreamChannelId'[s],
            fNextTCPReadSize', fNextTCPReadStreamSocketNum', s, b - 1)
  <2>1. b - 1 = n + 2
    BY <1>6, <1>7
  <2>2. J[1] = I[2]
    <3>1. 1 \in 1 .. m /\ 1 + 1 = 2
      BY <1>7, <1>12
    <3> QED
      BY <1>12, <3>1
  <2>3. ASSUME NEW k \in 2 .. n + 1
        PROVE  J[k].of = d
    <3>1. k \in 1 .. m /\ k + 1 \in 3 .. n + 2
      BY <1>7, <1>12
    <3> QED
      BY <1>6, <1>12, <3>1
  <2> QED
    BY <1>6, <1>9, <2>1, <2>2, <2>3 DEF Rest
<1>14. Whole(s)'
  <2>1. 1 < b /\ 1 \in Nat /\ fSubChannelHashTable'[s] = R
    BY <1>3, <1>6, <1>7, <1>8
  <2> QED
    BY <1>2, <1>5, <1>13, <2>1, ReadWhole
<1>15. Plays(s)'
  BY <1>0, <1>2, <1>8, ReadPlays
<1> QED
  BY <1>0, <1>2, <1>8, <1>9, <1>10, <1>14, <1>15, ReadKeeps

LEMMA AwaitSizeKeeps ==
    ASSUME Wired, ReadIInv, NEW s \in Conns, AwaitSize(s)
    PROVE  ReadIInv'
<1>0. ReadTypeOK /\ ReaderTypeOK /\ ~misread /\ Whole(s) /\ Plays(s)
  BY DEF ReadIInv, ReadTypeOK
<1>1. Reads(s, "AWAITING_SIZE")
  BY DEF AwaitSize
<1>2. PICK I \in Seq(Bytes), J \in Seq(Bytes) :
        /\ I = input[s] /\ J = input'[s] /\ Drops(I, J, 1) /\ I # <<>>
        /\ Head(input[s]) = I[1] /\ I[1] \in Bytes /\ Len(I) \in Nat
        /\ 1 <= Len(I)
        /\ input' \in [Conns -> Seq(Bytes)]
        /\ \A t \in Conns : t # s => input'[t] = input[t]
        /\ playing' = playing /\ fTCPReadingState[s] = "AWAITING_SIZE"
  BY <1>0, <1>1, ReadsOne
<1>3. PICK R : R = fSubChannelHashTable[s]
  OBVIOUS
<1>4. PICK B \in SUBSET (1 .. Len(I) + 1) :
        \E b \in B : /\ Elements(I, B, R)
                     /\ Rest(I, R, fTCPReadingState[s], fStreamChannelId[s],
                             fNextTCPReadSize, fNextTCPReadStreamSocketNum, s, b)
  BY <1>0, <1>2, <1>3 DEF Whole
<1>5. PICK b \in B : /\ Elements(I, B, R)
                     /\ Rest(I, R, fTCPReadingState[s], fStreamChannelId[s],
                             fNextTCPReadSize, fNextTCPReadStreamSocketNum, s, b)
  BY <1>4
<1>6. PICK c : c = fStreamChannelId[s]
  OBVIOUS
<1>7. c \in Chans /\ R[c] # Null
  BY <1>2, <1>5, <1>6 DEF Rest
<1>8. PICK n \in 0 .. MaxSize :
        /\ b = n + 2 /\ I[1] = Byte(n, "header")
        /\ \A k \in 2 .. n + 1 : I[k].of = c
  BY <1>2, <1>5, <1>6 DEF Rest
<1>9. n \in Nat /\ I[1].val = n /\ I[1].of = "header"
  BY <1>8 DEF Wired, Byte
<1>10. PICK i : i = R[c]
  OBVIOUS
<1>11. i \in Interfaces /\ i # Null /\ Interface(s) = i
  BY <1>0, <1>3, <1>6, <1>7, <1>10 DEF ReaderTypeOK, Interface
<1>12. /\ misread' = (misread \/ ~(I[1].of = "header"))
       /\ fNextTCPReadSize' = [fNextTCPReadSize EXCEPT ![i] = n]
       /\ fNextTCPReadStreamSocketNum' =
            [fNextTCPReadStreamSocketNum EXCEPT ![i] = s]
       /\ fTCPReadingState' =
            [fTCPReadingState EXCEPT ![s] = "AWAITING_PACKET_DATA"]
       /\ UNCHANGED <<fSubChannelHashTable, fStreamChannelId>>
  BY <1>2, <1>9, <1>11 DEF AwaitSize, Expect, Becomes
<1>13. ~misread'
  BY <1>0, <1>9, <1>12
<1>14. /\ fTCPReadingState'[s] = "AWAITING_PACKET_DATA"
       /\ \A t \in Conns : t # s => fTCPReadingState'[t] = fTCPReadingState[t]
       /\ fNextTCPReadSize'[i] = n /\ fNextTCPReadStreamSocketNum'[i] = s
       /\ \A j \in Interfaces : j # i =>
            /\ fNextTCPReadSize'[j] = fNextTCPReadSize[j]
            /\ fNextTCPReadStreamSocketNum'[j] = fNextTCPReadStreamSocketNum[j]
  BY <1>0, <1>11, <1>12 DEF ReaderTypeOK
<1>15. ReadTypeOK'
  BY <1>0, <1>2, <1>11, <1>12, <1>13 DEF ReadTypeOK, ReaderTypeOK
<1>16. PICK m \in Nat : m = Len(J)
  BY <1>2
<1>17. /\ m = Len(I) - 1 /\ \A k \in 1 .. m : J[k] = I[k + 1]
       /\ n <= m
  <2>1. b <= Len(I) + 1
    OBVIOUS
  <2> QED
    BY <1>2, <1>8, <1>9, <1>16, <2>1 DEF Drops
<1>18. Rest(J, R, fTCPReadingState'[s], fStreamChannelId'[s],
            fNextTCPReadSize', fNextTCPReadStreamSocketNum', s, b - 1)
  <2>1. b - 1 = n + 1
    BY <1>8, <1>9
  <2>2. ASSUME NEW k \in 1 .. n
        PROVE  J[k].of = c
    <3>1. k \in 1 .. m /\ k + 1 \in 2 .. n + 1
      BY <1>9, <1>17
    <3> QED
      BY <1>8, <1>17, <3>1
  <2>3. fStreamChannelId'[s] = c
    BY <1>6, <1>12
  <2> QED
    BY <1>7, <1>10, <1>14, <2>1, <2>2, <2>3 DEF Rest
<1>19. Whole(s)'
  <2>1. 1 < b /\ 1 \in Nat /\ fSubChannelHashTable'[s] = R
    BY <1>3, <1>8, <1>9, <1>12
  <2> QED
    BY <1>2, <1>5, <1>18, <2>1, ReadWhole
<1>20. Plays(s)'
  BY <1>0, <1>2, <1>12, ReadPlays
<1>21. \A j \in Interfaces :
         \/ \E d \in Chans : fSubChannelHashTable[s][d] = j
         \/ /\ fNextTCPReadSize'[j] = fNextTCPReadSize[j]
            /\ fNextTCPReadStreamSocketNum'[j] = fNextTCPReadStreamSocketNum[j]
  BY <1>3, <1>7, <1>10, <1>14
<1> QED
  BY <1>2, <1>12, <1>13, <1>14, <1>15, <1>19, <1>20, <1>21, ReadKeeps

\* Where a connection stands while it reads a packet.
LEMMA InPacket ==
    ASSUME Wired, ReadIInv, NEW s \in Conns,
           fTCPReadingState[s] = "AWAITING_PACKET_DATA"
    PROVE  /\ Interface(s) \in Interfaces \ {Null}
           /\ fStreamChannelId[s] \in Chans
           /\ Interface(s) = fSubChannelHashTable[s][fStreamChannelId[s]]
           /\ fNextTCPReadSize[Interface(s)] \in Nat
           /\ fNextTCPReadSize[Interface(s)] # 0 =>
                fNextTCPReadStreamSocketNum[Interface(s)] = s
           /\ \E B \in SUBSET (1 .. Len(input[s]) + 1) :
                /\ Elements(input[s], B, fSubChannelHashTable[s])
                /\ fNextTCPReadSize[Interface(s)] + 1 \in B
                /\ \A k \in 1 .. fNextTCPReadSize[Interface(s)] :
                     input[s][k].of = fStreamChannelId[s]
<1>0. ReadTypeOK /\ ReaderTypeOK /\ ~misread /\ Whole(s)
  BY DEF ReadIInv, ReadTypeOK
<1>1. PICK I : I = input[s]
  OBVIOUS
<1>2. PICK R : R = fSubChannelHashTable[s]
  OBVIOUS
<1>3. PICK c : c = fStreamChannelId[s]
  OBVIOUS
<1>4. PICK B \in SUBSET (1 .. Len(I) + 1) :
        \E b \in B : /\ Elements(I, B, R)
                     /\ Rest(I, R, fTCPReadingState[s], c, fNextTCPReadSize,
                             fNextTCPReadStreamSocketNum, s, b)
  BY <1>0, <1>1, <1>2, <1>3 DEF Whole
<1>5. PICK b \in B : /\ Elements(I, B, R)
                     /\ Rest(I, R, fTCPReadingState[s], c, fNextTCPReadSize,
                             fNextTCPReadStreamSocketNum, s, b)
  BY <1>4
<1>6. /\ c \in Chans /\ R[c] # Null
      /\ b = fNextTCPReadSize[R[c]] + 1
      /\ fNextTCPReadSize[R[c]] # 0 => fNextTCPReadStreamSocketNum[R[c]] = s
      /\ \A k \in 1 .. fNextTCPReadSize[R[c]] : I[k].of = c
  BY <1>5 DEF Rest
<1>7. Interface(s) = R[c] /\ R[c] \in Interfaces
  BY <1>0, <1>2, <1>3, <1>6 DEF Interface, ReaderTypeOK
<1>8. fNextTCPReadSize[R[c]] \in Nat
  BY <1>0, <1>7 DEF ReaderTypeOK, Wired
<1>9. \E C \in SUBSET (1 .. Len(input[s]) + 1) :
                /\ Elements(input[s], C, fSubChannelHashTable[s])
                /\ fNextTCPReadSize[Interface(s)] + 1 \in C
                /\ \A k \in 1 .. fNextTCPReadSize[Interface(s)] :
                     input[s][k].of = fStreamChannelId[s]
  <2>1. /\ Elements(I, B, R) /\ fNextTCPReadSize[R[c]] + 1 \in B
        /\ \A k \in 1 .. fNextTCPReadSize[R[c]] : I[k].of = c
    BY <1>5, <1>6
  <2> QED
    BY <1>1, <1>2, <1>3, <1>7, <2>1
<1> QED
  BY <1>2, <1>3, <1>6, <1>7, <1>8, <1>9

LEMMA AwaitDataEndsKeeps ==
    ASSUME Wired, ReadIInv, NEW s \in Conns, AwaitDataEnds(s)
    PROVE  ReadIInv'
<1>0. ReadTypeOK /\ ReaderTypeOK /\ ~misread /\ Whole(s) /\ Plays(s)
  BY DEF ReadIInv, ReadTypeOK
<1>1. /\ fTCPReadingState[s] = "AWAITING_PACKET_DATA"
      /\ Interface(s) = Null \/ fNextTCPReadSize[Interface(s)] = 0
      /\ fTCPReadingState' = [fTCPReadingState EXCEPT ![s] = "AWAITING_DOLLAR"]
      /\ UNCHANGED <<input, playing, fSubChannelHashTable, fStreamChannelId,
                     fNextTCPReadSize, fNextTCPReadStreamSocketNum, misread>>
  BY DEF AwaitDataEnds, Becomes, next
<1>2. PICK B \in SUBSET (1 .. Len(input[s]) + 1) :
        Elements(input[s], B, fSubChannelHashTable[s]) /\ 1 \in B
  BY <1>1, InPacket
<1>3. /\ fTCPReadingState'[s] = "AWAITING_DOLLAR"
      /\ \A t \in Conns : t # s => fTCPReadingState'[t] = fTCPReadingState[t]
  BY <1>0, <1>1 DEF ReaderTypeOK
<1>4. ReadTypeOK'
  BY <1>0, <1>1 DEF ReadTypeOK, ReaderTypeOK
<1>5. Whole(s)'
  BY <1>1, <1>2, <1>3 DEF Whole, Rest
<1>6. Plays(s)'
  BY <1>0, <1>1 DEF Plays
<1> QED
  BY <1>0, <1>1, <1>3, <1>4, <1>5, <1>6, ReadKeeps

\* Taking n bytes of the packet, by the descriptor or by the handler.
LEMMA PacketKeeps ==
    ASSUME Wired, ReadIInv, NEW s \in Conns,
           fTCPReadingState[s] = "AWAITING_PACKET_DATA",
           NEW n \in Nat, n <= fNextTCPReadSize[Interface(s)],
           NEW J \in Seq(Bytes), Drops(input[s], J, n),
           input' = [input EXCEPT ![s] = J],
           fNextTCPReadSize' =
             [fNextTCPReadSize EXCEPT ![Interface(s)] = @ - n],
           fNextTCPReadStreamSocketNum' \in [Interfaces -> Conns \union {Null}],
           \A i \in Interfaces : i # Interface(s) =>
             fNextTCPReadStreamSocketNum'[i] = fNextTCPReadStreamSocketNum[i],
           n # fNextTCPReadSize[Interface(s)] =>
             fNextTCPReadStreamSocketNum'[Interface(s)]
               = fNextTCPReadStreamSocketNum[Interface(s)],
           UNCHANGED <<playing, descriptor>>, misread' \in BOOLEAN, ~misread'
    PROVE  ReadIInv'
<1>0. ReadTypeOK /\ ReaderTypeOK /\ Whole(s) /\ Plays(s)
  BY DEF ReadIInv, ReadTypeOK
<1>1. PICK i : i = Interface(s)
  OBVIOUS
<1>2. PICK z \in Nat : z = fNextTCPReadSize[i]
  BY <1>1, InPacket
<1>3. PICK I \in Seq(Bytes) : I = input[s]
  BY <1>0 DEF ReadTypeOK
<1>4. PICK c : c = fStreamChannelId[s]
  OBVIOUS
<1>5. PICK R : R = fSubChannelHashTable[s]
  OBVIOUS
<1>6. /\ i \in Interfaces /\ i # Null /\ c \in Chans /\ i = R[c] /\ n <= z
      /\ z # 0 => fNextTCPReadStreamSocketNum[i] = s
  BY <1>1, <1>2, <1>4, <1>5, InPacket
<1>7. PICK B \in SUBSET (1 .. Len(I) + 1) :
        /\ Elements(I, B, R) /\ z + 1 \in B
        /\ \A k \in 1 .. z : I[k].of = c
  BY <1>1, <1>2, <1>3, <1>4, <1>5, InPacket
<1>8. UNCHANGED <<fSubChannelHashTable, fTCPReadingState, fStreamChannelId,
                  playing>>
  BY DEF descriptor
<1>9. /\ input'[s] = J /\ input' \in [Conns -> Seq(Bytes)]
      /\ \A t \in Conns : t # s => input'[t] = input[t]
  BY <1>0 DEF ReadTypeOK
<1>10. /\ fNextTCPReadSize'[i] = z - n
       /\ \A j \in Interfaces : j # i => fNextTCPReadSize'[j] = fNextTCPReadSize[j]
       /\ fNextTCPReadSize' \in [Interfaces -> 0 .. MaxSize]
  <2>1. /\ fNextTCPReadSize \in [Interfaces -> 0 .. MaxSize]
        /\ fNextTCPReadSize' = [fNextTCPReadSize EXCEPT ![i] = z - n]
    BY <1>0, <1>1, <1>2 DEF ReaderTypeOK
  <2>2. z \in 0 .. MaxSize /\ MaxSize \in Nat
    BY <1>2, <1>6, <2>1 DEF Wired
  <2>3. z - n \in 0 .. MaxSize
    BY <1>6, <2>2
  <2> QED
    BY <1>6, <2>1, <2>3
<1>11. ReadTypeOK'
  BY <1>0, <1>8, <1>9, <1>10 DEF ReadTypeOK, ReaderTypeOK
<1>12. PICK m \in Nat : m = Len(J)
  OBVIOUS
<1>13. /\ m = Len(I) - n /\ \A k \in 1 .. m : J[k] = I[k + n]
       /\ Drops(I, J, n)
  BY <1>3, <1>12 DEF Drops
<1>14. z - n <= m
  <2>1. z + 1 \in 1 .. Len(I) + 1 /\ Len(I) \in Nat
    BY <1>7
  <2>2. m = Len(I) - n
    BY <1>13, Zenon
  <2> QED
    BY <2>1, <2>2
<1>15. PICK b \in B : b = z + 1
  BY <1>7
<1>16. Rest(J, R, fTCPReadingState'[s], fStreamChannelId'[s],
            fNextTCPReadSize', fNextTCPReadStreamSocketNum', s, b - n)
  <2>1. b - n = (z - n) + 1
    BY <1>15
  <2>2. ASSUME NEW k \in 1 .. z - n
        PROVE  J[k].of = c
    <3>0. n <= z
      BY <1>6, Zenon
    <3>1. z - n <= m
      BY <1>14
    <3>2. n \in Nat /\ z \in Nat /\ m \in Nat
      OBVIOUS
    <3>3. k \in 1 .. m /\ k + n \in 1 .. z
      BY <3>0, <3>1, <3>2
    <3> QED
      BY <1>7, <1>13, <3>3
  <2>3. z - n # 0 => fNextTCPReadStreamSocketNum'[i] = s
    <3>1. z - n # 0 => n # z /\ z # 0
      BY <1>6
    <3> QED
      BY <1>1, <1>2, <1>6, <3>1
  <2> QED
    BY <1>4, <1>6, <1>8, <1>10, <2>1, <2>2, <2>3 DEF Rest
<1>17. Whole(s)'
  <2>1. n < b /\ fSubChannelHashTable'[s] = R
    BY <1>5, <1>6, <1>8, <1>15
  <2> QED
    BY <1>7, <1>9, <1>13, <1>16, <2>1, ReadWhole
<1>18. Plays(s)'
  BY <1>0, <1>3, <1>8, <1>9, <1>13, ReadPlays
<1>19. \A j \in Interfaces :
         \/ \E d \in Chans : fSubChannelHashTable[s][d] = j
         \/ /\ fNextTCPReadSize'[j] = fNextTCPReadSize[j]
            /\ fNextTCPReadStreamSocketNum'[j] = fNextTCPReadStreamSocketNum[j]
  BY <1>1, <1>5, <1>6, <1>10
<1> QED
  BY <1>8, <1>9, <1>11, <1>17, <1>18, <1>19, ReadKeeps

LEMMA AwaitDataSkipsKeeps ==
    ASSUME Wired, ReadIInv, NEW s \in Conns, AwaitDataSkips(s)
    PROVE  ReadIInv'
<1>0. ReadTypeOK /\ ReaderTypeOK /\ misread = FALSE
  BY DEF ReadIInv, ReadTypeOK, ReaderTypeOK
<1>1. Reads(s, "AWAITING_PACKET_DATA")
  BY DEF AwaitDataSkips
<1>2. PICK I \in Seq(Bytes), J \in Seq(Bytes) :
        /\ I = input[s] /\ J = input'[s] /\ Drops(I, J, 1)
        /\ Head(input[s]) = I[1]
        /\ playing' = playing /\ fTCPReadingState[s] = "AWAITING_PACKET_DATA"
  BY <1>0, <1>1, ReadsOne
<1>3. PICK i : i = Interface(s)
  OBVIOUS
<1>4. PICK z \in Nat : z = fNextTCPReadSize[i]
  BY <1>2, <1>3, InPacket
<1>5. /\ z > 0
      /\ fNextTCPReadSize' = [fNextTCPReadSize EXCEPT ![i] = @ - 1]
      /\ misread' = (misread \/ ~(I[1].of = fStreamChannelId[s]))
      /\ UNCHANGED <<playing, descriptor, fNextTCPReadStreamSocketNum>>
  BY <1>2, <1>3, <1>4 DEF AwaitDataSkips, Expect
<1>6. 1 \in 1 .. z /\ 1 <= z
  BY <1>5
<1>7. input[s][1].of = fStreamChannelId[s]
  <2>1. \A k \in 1 .. z : input[s][k].of = fStreamChannelId[s]
    BY <1>2, <1>3, <1>4, InPacket
  <2> QED
    BY <1>6, <2>1
<1>8. misread' = FALSE
  BY <1>0, <1>2, <1>5, <1>7
<1>9. input' = [input EXCEPT ![s] = J]
  BY <1>0, <1>1, <1>2 DEF Reads, ReadTypeOK
<1>10. fNextTCPReadStreamSocketNum' \in [Interfaces -> Conns \union {Null}]
  BY <1>0, <1>5 DEF ReaderTypeOK
<1> QED
  BY <1>2, <1>3, <1>4, <1>5, <1>6, <1>8, <1>9, <1>10, PacketKeeps

LEMMA AwaitDataHandledKeeps ==
    ASSUME Wired, ReadIInv, NEW s \in Conns, AwaitDataHandled(s)
    PROVE  ReadIInv'
<1>0. ReadTypeOK /\ ReaderTypeOK /\ misread = FALSE
  BY DEF ReadIInv, ReadTypeOK, ReaderTypeOK
<1>1. PICK i : i = Interface(s)
  OBVIOUS
<1>2. fTCPReadingState[s] = "AWAITING_PACKET_DATA"
  BY DEF AwaitDataHandled
<1>3. PICK z \in Nat : z = fNextTCPReadSize[i]
  BY <1>1, <1>2, InPacket
<1>4. z > 0
  BY <1>1, <1>3 DEF AwaitDataHandled
<1>5. /\ i \in Interfaces /\ fNextTCPReadStreamSocketNum[i] = s
      /\ \A k \in 1 .. z : input[s][k].of = fStreamChannelId[s]
  BY <1>1, <1>2, <1>3, <1>4, InPacket
<1>6. PICK n \in 1 .. Len(input[s]) :
         /\ n <= z
         /\ input' = [input EXCEPT ![s] = SubSeq(@, n + 1, Len(@))]
         /\ misread' = (misread \/ ~(/\ s = s
                                     /\ \A m \in 1 .. n : input[s][m].of = fStreamChannelId[s]))
         /\ fNextTCPReadSize' = [fNextTCPReadSize EXCEPT ![i] = @ - n]
         /\ fNextTCPReadStreamSocketNum' =
              [fNextTCPReadStreamSocketNum EXCEPT ![i] = IF n = z THEN Null ELSE @]
         /\ UNCHANGED <<playing, descriptor>>
  BY <1>1, <1>3, <1>5 DEF AwaitDataHandled, Expect
<1>7. PICK I \in Seq(Bytes) : I = input[s]
  BY <1>0 DEF ReadTypeOK
<1>8. PICK J : J = SubSeq(I, n + 1, Len(I))
  OBVIOUS
<1>9. J \in Seq(Bytes) /\ Drops(I, J, n)
  BY <1>6, <1>7, <1>8, SubSeqDrops
<1>10. input' = [input EXCEPT ![s] = J]
  BY <1>0, <1>6, <1>7, <1>8 DEF ReadTypeOK
<1>11. \A m \in 1 .. n : m \in 1 .. z
  <2>1. n \in Nat /\ n <= z
    BY <1>6, <1>7
  <2> QED
    BY <2>1
<1>12. misread' = FALSE
  BY <1>0, <1>5, <1>6, <1>11
<1>13. /\ fNextTCPReadStreamSocketNum' \in [Interfaces -> Conns \union {Null}]
       /\ \A j \in Interfaces : j # i =>
            fNextTCPReadStreamSocketNum'[j] = fNextTCPReadStreamSocketNum[j]
       /\ n # z => fNextTCPReadStreamSocketNum'[i] = fNextTCPReadStreamSocketNum[i]
  BY <1>0, <1>5, <1>6 DEF ReaderTypeOK
<1>14. n \in Nat /\ n <= z
  BY <1>6, <1>7
<1>15. UNCHANGED <<playing, descriptor>>
       /\ fNextTCPReadSize' = [fNextTCPReadSize EXCEPT ![i] = @ - n]
  BY <1>6
<1> QED
  BY <1>1, <1>2, <1>3, <1>7, <1>9, <1>10, <1>12, <1>13, <1>14, <1>15, PacketKeeps

\* The RTSP side, when the descriptor is gone with the last channel.
LEMMA RtspReadsKeeps ==
    ASSUME Wired, ReadIInv, NEW s \in Conns, RtspReads(s)
    PROVE  ReadIInv'
<1>0. ReadTypeOK /\ ReaderTypeOK /\ misread = FALSE /\ Whole(s) /\ Plays(s)
  BY DEF ReadIInv, ReadTypeOK, ReaderTypeOK
<1>1. /\ \A c \in Chans : fSubChannelHashTable[s][c] = Null
      /\ input[s] # <<>> /\ input' = [input EXCEPT ![s] = Tail(input[s])]
      /\ misread' = (misread \/ ~(Head(input[s]).of = "request"))
      /\ UNCHANGED <<playing, fSubChannelHashTable, fTCPReadingState,
                     fStreamChannelId, fNextTCPReadSize,
                     fNextTCPReadStreamSocketNum>>
  BY <1>0 DEF RtspReads, Described, Expect, descriptor, next, ReadTypeOK
<1>2. PICK I \in Seq(Bytes) : I = input[s]
  BY <1>0 DEF ReadTypeOK
<1>3. PICK J : J = Tail(I)
  OBVIOUS
<1>4. J \in Seq(Bytes) /\ Drops(I, J, 1) /\ Head(I) = I[1] /\ 1 <= Len(I)
  BY <1>1, <1>2, <1>3, TailDrops
<1>5. /\ input'[s] = J /\ input' \in [Conns -> Seq(Bytes)]
      /\ \A t \in Conns : t # s => input'[t] = input[t]
  BY <1>0, <1>1, <1>2, <1>3, <1>4 DEF ReadTypeOK
<1>6. PICK R : R = fSubChannelHashTable[s]
  OBVIOUS
<1>7. PICK B \in SUBSET (1 .. Len(I) + 1) : \E b \in B :
        /\ Elements(I, B, R)
        /\ Rest(I, R, fTCPReadingState[s], fStreamChannelId[s],
                fNextTCPReadSize, fNextTCPReadStreamSocketNum, s, b)
  BY <1>0, <1>2, <1>6 DEF Whole
<1>8. PICK b \in B :
        /\ Elements(I, B, R)
        /\ Rest(I, R, fTCPReadingState[s], fStreamChannelId[s],
                fNextTCPReadSize, fNextTCPReadStreamSocketNum, s, b)
  BY <1>7
<1>9. \A c \in Chans : R[c] = Null
  BY <1>1, <1>6
<1>10. fTCPReadingState[s] = "AWAITING_DOLLAR" /\ b = 1
  BY <1>8, <1>9 DEF Rest
<1>11. Element(I, B, R, 1) /\ 1 # Len(I) + 1
  BY <1>4, <1>8, <1>10 DEF Elements
<1>12. Asked(I, 1) /\ 1 + 1 \in B
  BY <1>9, <1>11 DEF Element
<1>13. PICK d \in B : d = 2
  BY <1>12
<1>14. misread' = FALSE
  BY <1>0, <1>1, <1>2, <1>4, <1>12 DEF Asked
<1>15. ReadTypeOK'
  BY <1>0, <1>1, <1>5, <1>14 DEF ReadTypeOK, ReaderTypeOK
<1>16. Rest(J, R, fTCPReadingState'[s], fStreamChannelId'[s],
            fNextTCPReadSize', fNextTCPReadStreamSocketNum', s, d - 1)
  BY <1>1, <1>10, <1>13 DEF Rest
<1>17. Whole(s)'
  <2>1. 1 < d /\ 1 \in Nat /\ fSubChannelHashTable'[s] = R
    BY <1>1, <1>6, <1>13
  <2> QED
    BY <1>4, <1>5, <1>8, <1>16, <2>1, ReadWhole
<1>18. Plays(s)'
  <2>1. Len(input[s]) \in Nat /\ Drops(input[s], input'[s], 1)
    BY <1>2, <1>4, <1>5
  <2> QED
    BY <1>0, <1>1, <2>1, ReadPlays
<1> QED
  BY <1>1, <1>5, <1>14, <1>15, <1>17, <1>18, ReadKeeps
-----------------------------------------------------------------------------
LEMMA ReadInitIInv ==
    ASSUME Wired, ReadInit
    PROVE  ReadIInv
<1>1. \A s \in Conns : input[s] = <<>> /\ Len(input[s]) = 0
  BY DEF ReadInit
<1>2. ReadTypeOK /\ ~misread
  <2>1. input \in [Conns -> Seq(Bytes)]
    BY DEF ReadInit
  <2>2. ReaderTypeOK
    <3>1. /\ playing \in [Conns -> SUBSET Chans]
          /\ fSubChannelHashTable \in [Conns -> [Chans -> Interfaces \union {Null}]]
      BY DEF ReadInit, Wired
    <3>2. 0 \in 0 .. MaxSize
      BY DEF Wired
    <3>3. fNextTCPReadSize \in [Interfaces -> 0 .. MaxSize]
      BY <3>2 DEF ReadInit
    <3>4. /\ fTCPReadingState \in [Conns -> {"AWAITING_DOLLAR"}]
          /\ fStreamChannelId \in [Conns -> Chans \union {Null}]
          /\ fNextTCPReadStreamSocketNum \in [Interfaces -> Conns \union {Null}]
          /\ misread = FALSE
      BY DEF ReadInit
    <3> QED
      BY <3>1, <3>3, <3>4 DEF ReaderTypeOK
  <2>3. \A s \in Conns : \A c \in Chans :
          fSubChannelHashTable[s][c] \in {Table[s][c], Null}
    BY DEF ReadInit
  <2> QED
    BY <2>1, <2>2, <2>3 DEF ReadTypeOK, ReadInit
<1>3. ASSUME NEW s \in Conns
      PROVE  Whole(s) /\ Plays(s)
  <2>1. Plays(s)
    BY <1>1 DEF Plays, ReadInit
  <2>2. {1} \in SUBSET (1 .. Len(input[s]) + 1) /\ 1 \in {1}
    BY <1>1
  <2>3. Elements(input[s], {1}, fSubChannelHashTable[s])
    BY <1>1 DEF Elements, Element
  <2>4. Rest(input[s], fSubChannelHashTable[s], fTCPReadingState[s],
             fStreamChannelId[s], fNextTCPReadSize,
             fNextTCPReadStreamSocketNum, s, 1)
    BY DEF Rest, ReadInit
  <2> QED
    BY <2>1, <2>2, <2>3, <2>4 DEF Whole
<1> QED
  BY <1>2, <1>3 DEF ReadIInv

LEMMA ReadIInvNext ==
    ASSUME Wired, ReadIInv, [ReadNext]_readvars
    PROVE  ReadIInv'
<1>1. CASE UNCHANGED readvars
  BY <1>1 DEF ReadIInv, ReadTypeOK, ReaderTypeOK, Whole, Plays, readvars, descriptor, next
<1>2. CASE ReadNext
  <2>1. PICK s \in Conns :
          \/ Handler(s) \/ RtspReads(s)
          \/ ClientAsks(s) \/ ClientReports(s) \/ ClientTearsDown(s)
    BY <1>2 DEF ReadNext
  <2>2. CASE Handler(s)
    BY <2>2, AwaitDollarKeeps, AwaitChannelKeeps, AwaitSizeKeeps,
       AwaitDataEndsKeeps, AwaitDataSkipsKeeps, AwaitDataHandledKeeps
       DEF Handler
  <2> QED
    BY <2>1, <2>2, RtspReadsKeeps, ClientKeeps
<1> QED
  BY <1>1, <1>2

\* Where no interface serves two connections, every byte a client sends goes
\* to its reader, in whatever pieces it arrives: a request to the RTSP side, a
\* packet to the interface of its channel, a header to neither
\* (tcpReadHandler1 of the patched RTPInterface.cpp).  Two connections that
\* share an interface share what it keeps of a packet, and this fails.
THEOREM PiecesApartTheorem == Wired => (ReadSpec => []PiecesApart)
<1> SUFFICES ASSUME Wired
             PROVE  ReadSpec => []PiecesApart
  OBVIOUS
<1>1. ReadInit => ReadIInv
  BY ReadInitIInv
<1>2. ReadIInv /\ [ReadNext]_readvars => ReadIInv'
  BY ReadIInvNext
<1>3. ReadIInv => PiecesApart
  BY DEF ReadIInv, PiecesApart
<1> QED
  BY <1>1, <1>2, <1>3, PTL DEF ReadSpec
=============================================================================
