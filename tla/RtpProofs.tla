------------------------------ MODULE RtpProofs ------------------------------
(***************************************************************************)
(* Proofs about RtpOverTcp: types, whole frames, the bound of a wait, the  *)
(* agreement of lists and descriptors, the walk of sendPacket that passes  *)
(* nobody over, and the client that reads and keeps its stream.            *)
(***************************************************************************)
EXTENDS RtpOverTcp, SequenceTheorems, TLAPS

Distinct(list) == \A m, n \in 1 .. Len(list) : list[m] = list[n] => m = n

\* Where the server is in a frame: a frame that is not given up is on the wire
\* up to the cell the server has counted, and no other is open.
InFrame ==
    /\ Sending => stream \in Socks /\ sent < HDR + size
    /\ ~Sending => sent = 0
    /\ pc = "send" => sent \in {0, HDR}
    /\ \A s \in Socks \ cut :
         s \notin spoilt /\ wire[s] = IF Sending /\ s = stream THEN sent ELSE 0

\* What of the ticks spent is accounted for by the present wait.
Waited ==
    /\ pc = "send" => elapsed = 0
    /\ held <= elapsed + IF sent >= HDR THEN BUDGET ELSE 0

\* Lists hold a socket once, and agree with the descriptors.
Agreed ==
    /\ \A i \in Ifaces : Distinct(fTCPStreams[i])
    /\ Registered

SendInv == TypeOK /\ InFrame /\ Waited /\ Agreed
-----------------------------------------------------------------------------
(* Lists *)

LEMMA Constants ==
    /\ None \notin Socks /\ Prompt \subseteq Socks
    /\ HDR \in Nat /\ HDR > 0 /\ MaxPacket \in Nat /\ MaxPacket > 0
    /\ SNDBUF \in Nat /\ SNDBUF > 0 /\ BUDGET \in Nat /\ BUDGET > 0
  BY TcpAssumption

LEMMA AfterType == \A list, s : After(list, s) \in Socks \union {None}
<1> TAKE list, s
<1>1. CASE \E t \in Socks, n \in 1 .. Len(list) - 1 : list[n] = s /\ list[n + 1] = t
  <2>1. \E t \in Socks : \E n \in 1 .. Len(list) - 1 : list[n] = s /\ list[n + 1] = t
    BY <1>1
  <2>2. (CHOOSE t \in Socks : \E n \in 1 .. Len(list) - 1 : list[n] = s /\ list[n + 1] = t)
          \in Socks
    BY <2>1
  <2> QED  BY <1>1, <2>2 DEF After
<1>2. CASE ~ \E t \in Socks, n \in 1 .. Len(list) - 1 : list[n] = s /\ list[n + 1] = t
  BY <1>2 DEF After
<1> QED  BY <1>1, <1>2

\* RemoveAt takes out one position.
LEMMA RemoveAtElems ==
  ASSUME NEW list \in Seq(Socks), NEW p \in 1 .. Len(list)
  PROVE  /\ RemoveAt(list, p) \in Seq(Socks)
         /\ Len(RemoveAt(list, p)) = Len(list) - 1
         /\ \A n \in 1 .. Len(list) - 1 :
              RemoveAt(list, p)[n] = IF n < p THEN list[n] ELSE list[n + 1]
<1> DEFINE a == SubSeq(list, 1, p - 1)
           b == SubSeq(list, p + 1, Len(list))
<1>1. Len(list) \in Nat /\ p \in Nat /\ p >= 1 /\ p <= Len(list)
  OBVIOUS
<1>2. /\ a \in Seq(Socks) /\ Len(a) = p - 1
      /\ \A n \in 1 .. p - 1 : a[n] = list[n]
  BY <1>1
<1>3. /\ b \in Seq(Socks) /\ Len(b) = Len(list) - p
      /\ \A n \in 1 .. Len(list) - p : b[n] = list[p + n]
  BY <1>1
<1> HIDE DEF a, b
<1>4. /\ a \o b \in Seq(Socks) /\ Len(a \o b) = Len(a) + Len(b)
      /\ \A n \in 1 .. Len(a) + Len(b) :
           (a \o b)[n] = IF n <= Len(a) THEN a[n] ELSE b[n - Len(a)]
  BY <1>2, <1>3, ConcatProperties
<1> DEFINE ab == a \o b
<1> HIDE DEF ab
<1>5. /\ ab \in Seq(Socks) /\ Len(ab) = Len(list) - 1
      /\ \A n \in 1 .. Len(list) - 1 : ab[n] = IF n < p THEN list[n] ELSE list[n + 1]
  <2>1. Len(a) + Len(b) = Len(list) - 1 /\ Len(ab) = Len(list) - 1 /\ ab \in Seq(Socks)
    BY <1>1, <1>2, <1>3, <1>4 DEF ab
  <2>2. ASSUME NEW n \in 1 .. Len(list) - 1
        PROVE  ab[n] = IF n < p THEN list[n] ELSE list[n + 1]
    <3>1. ab[n] = IF n <= p - 1 THEN a[n] ELSE b[n - (p - 1)]
      BY <1>2, <1>4, <2>1 DEF ab
    <3>2. CASE n <= p - 1
      BY <1>1, <1>2, <3>1, <3>2
    <3>3. CASE n >= p
      <4>1. n - (p - 1) \in 1 .. Len(list) - p /\ p + (n - (p - 1)) = n + 1
        BY <1>1, <3>3
      <4> QED  BY <1>1, <1>3, <3>1, <3>3, <4>1
    <3> QED  BY <1>1, <3>2, <3>3
  <2> QED  BY <2>1, <2>2
<1>6. RemoveAt(list, p) = ab
  BY DEF RemoveAt, ab, a, b
<1> QED  BY <1>5, <1>6

LEMMA WithoutElems ==
  ASSUME NEW list \in Seq(Socks), NEW s \in Socks, Distinct(list)
  PROVE  /\ Without(list, s) \in Seq(Socks) /\ Distinct(Without(list, s))
         /\ \A t \in Socks : Contains(Without(list, s), t) <=> Contains(list, t) /\ t # s
<1>1. CASE ~Contains(list, s)
  BY <1>1 DEF Without, Contains
<1>2. CASE Contains(list, s)
  <2> DEFINE p == CHOOSE n \in 1 .. Len(list) : list[n] = s
             r == RemoveAt(list, p)
  <2>1. p \in 1 .. Len(list) /\ list[p] = s
    BY <1>2 DEF Contains
  <2>2. Without(list, s) = r
    BY <1>2 DEF Without
  <2> HIDE DEF p
  <2>3. /\ r \in Seq(Socks) /\ Len(r) = Len(list) - 1
        /\ \A n \in 1 .. Len(list) - 1 : r[n] = IF n < p THEN list[n] ELSE list[n + 1]
    BY <2>1, RemoveAtElems
  <2> HIDE DEF r
  <2>4. Len(list) \in Nat
    OBVIOUS
  <2>5. Distinct(r)
    BY <2>1, <2>3, <2>4 DEF Distinct
  <2>6. ASSUME NEW t \in Socks, Contains(r, t)
        PROVE  Contains(list, t) /\ t # s
    <3>1. PICK n \in 1 .. Len(list) - 1 : r[n] = t
      BY <2>3, <2>6 DEF Contains
    <3>2. PICK m \in 1 .. Len(list) : list[m] = t /\ m # p
      BY <2>1, <2>3, <2>4, <3>1
    <3> QED  BY <2>1, <3>2 DEF Contains, Distinct
  <2>7. ASSUME NEW t \in Socks, Contains(list, t), t # s
        PROVE  Contains(r, t)
    <3>1. PICK m \in 1 .. Len(list) : list[m] = t
      BY <2>7 DEF Contains
    <3>2. m # p
      BY <2>1, <2>7, <3>1
    <3>3. CASE m < p
      <4>1. m \in 1 .. Len(list) - 1 /\ r[m] = t
        BY <2>1, <2>3, <2>4, <3>1, <3>3
      <4> QED  BY <2>3, <4>1 DEF Contains
    <3>4. CASE m > p
      <4>1. m - 1 \in 1 .. Len(list) - 1 /\ r[m - 1] = t
        BY <2>1, <2>3, <2>4, <3>1, <3>4
      <4> QED  BY <2>3, <4>1 DEF Contains
    <3> QED  BY <2>1, <2>4, <3>2, <3>3, <3>4
  <2> QED  BY <2>2, <2>3, <2>5, <2>6, <2>7
<1> QED  BY <1>1, <1>2
-----------------------------------------------------------------------------
(* Lists and descriptors *)

\* removeStreamSocket keeps lists and descriptors typed and in agreement.
LEMMA RemoveAgrees ==
  ASSUME TypeOK, Agreed, NEW i \in Ifaces, NEW s \in Socks, removeStreamSocket(i, s)
  PROVE  /\ fTCPStreams' \in [Ifaces -> Seq(Socks)]
         /\ subChannels' \in [Socks -> SUBSET Ifaces]
         /\ Agreed'
<1>1. /\ fTCPStreams \in [Ifaces -> Seq(Socks)] /\ subChannels \in [Socks -> SUBSET Ifaces]
  BY DEF TypeOK
<1>2. /\ Without(fTCPStreams[i], s) \in Seq(Socks)
      /\ Distinct(Without(fTCPStreams[i], s))
      /\ \A t \in Socks :
           Contains(Without(fTCPStreams[i], s), t) <=> Contains(fTCPStreams[i], t) /\ t # s
  BY <1>1, WithoutElems DEF Agreed
<1>3. fTCPStreams' = [fTCPStreams EXCEPT ![i] = Without(fTCPStreams[i], s)]
  BY DEF removeStreamSocket
<1>4. /\ fTCPStreams' \in [Ifaces -> Seq(Socks)]
      /\ fTCPStreams'[i] = Without(fTCPStreams[i], s)
      /\ \A j \in Ifaces \ {i} : fTCPStreams'[j] = fTCPStreams[j]
  BY <1>1, <1>2, <1>3
<1>5. /\ subChannels' \in [Socks -> SUBSET Ifaces]
      /\ \A j \in Ifaces, t \in Socks :
           j \in subChannels'[t] <=>
             j \in subChannels[t] /\ ~(j = i /\ t = s /\ Contains(fTCPStreams[i], s))
  BY <1>1 DEF removeStreamSocket
<1>6. \A j \in Ifaces : Distinct(fTCPStreams'[j])
  BY <1>2, <1>4 DEF Agreed
<1>7. \A j \in Ifaces, t \in Socks : Contains(fTCPStreams'[j], t) <=> j \in subChannels'[t]
  <2> TAKE j \in Ifaces, t \in Socks
  <2>1. Contains(fTCPStreams[j], t) <=> j \in subChannels[t]
    BY DEF Agreed, Registered
  <2>2. CASE j = i /\ t = s
    BY <1>2, <1>4, <1>5, <2>1, <2>2
  <2>3. CASE j = i /\ t # s
    BY <1>2, <1>4, <1>5, <2>1, <2>3
  <2>4. CASE j # i
    BY <1>4, <1>5, <2>1, <2>4
  <2> QED  BY <2>2, <2>3, <2>4
<1> QED  BY <1>4, <1>5, <1>6, <1>7 DEF Agreed, Registered, Distinct, Contains

LEMMA AddAgrees ==
  ASSUME TypeOK, Agreed, NEW i \in Ifaces, NEW s \in Socks, addStreamSocket(i, s)
  PROVE  /\ fTCPStreams' \in [Ifaces -> Seq(Socks)]
         /\ subChannels' \in [Socks -> SUBSET Ifaces]
         /\ Agreed'
<1> DEFINE list == fTCPStreams[i]
           longer == <<s>> \o list
<1>1. /\ fTCPStreams \in [Ifaces -> Seq(Socks)] /\ subChannels \in [Socks -> SUBSET Ifaces]
      /\ list \in Seq(Socks) /\ Distinct(list) /\ ~Contains(list, s)
  BY DEF TypeOK, Agreed, addStreamSocket
<1>2. fTCPStreams' = [fTCPStreams EXCEPT ![i] = longer]
  BY DEF addStreamSocket
<1> HIDE DEF list
<1>3. /\ longer \in Seq(Socks) /\ Len(longer) = Len(list) + 1
      /\ \A n \in 1 .. Len(list) + 1 : longer[n] = IF n = 1 THEN s ELSE list[n - 1]
  <2>1. <<s>> \in Seq(Socks) /\ Len(<<s>>) = 1 /\ <<s>>[1] = s
    OBVIOUS
  <2>2. /\ longer \in Seq(Socks) /\ Len(longer) = 1 + Len(list)
        /\ \A n \in 1 .. 1 + Len(list) : longer[n] = IF n <= 1 THEN <<s>>[n] ELSE list[n - 1]
    BY <1>1, <2>1, ConcatProperties
  <2> HIDE DEF longer
  <2> QED  BY <1>1, <2>1, <2>2
<1> HIDE DEF longer
<1>4. Len(list) \in Nat
  BY <1>1
<1>5. \A t \in Socks : Contains(longer, t) <=> Contains(list, t) \/ t = s
  <2>1. ASSUME NEW t \in Socks, Contains(list, t)
        PROVE  Contains(longer, t)
    <3>1. PICK n \in 1 .. Len(list) : list[n] = t
      BY <2>1 DEF Contains
    <3>2. n + 1 \in 1 .. Len(list) + 1 /\ longer[n + 1] = t
      BY <1>3, <1>4, <3>1
    <3> QED  BY <1>3, <3>2 DEF Contains
  <2>2. Contains(longer, s)
    BY <1>3, <1>4 DEF Contains
  <2>3. ASSUME NEW t \in Socks, Contains(longer, t), t # s
        PROVE  Contains(list, t)
    BY <1>3, <1>4, <2>3 DEF Contains
  <2> QED  BY <2>1, <2>2, <2>3
<1>6. Distinct(longer)
  <2> SUFFICES ASSUME NEW m \in 1 .. Len(longer), NEW n \in 1 .. Len(longer),
                      longer[m] = longer[n]
               PROVE  m = n
    BY DEF Distinct
  <2>1. longer[1] = s
    BY <1>3, <1>4
  <2>2. \A k \in 1 .. Len(longer) : k # 1 =>
          k - 1 \in 1 .. Len(list) /\ longer[k] = list[k - 1] /\ longer[k] # s
    BY <1>1, <1>3, <1>4 DEF Contains
  <2>3. CASE m = 1 \/ n = 1
    BY <2>1, <2>2, <2>3
  <2>4. CASE m # 1 /\ n # 1
    <3>1. m - 1 = n - 1
      BY <1>1, <2>2, <2>4 DEF Distinct
    <3> QED  BY <1>3, <1>4, <3>1
  <2> QED  BY <2>3, <2>4
<1>7. /\ fTCPStreams' \in [Ifaces -> Seq(Socks)] /\ fTCPStreams'[i] = longer
      /\ \A j \in Ifaces \ {i} : fTCPStreams'[j] = fTCPStreams[j]
  BY <1>1, <1>2, <1>3
<1>8. /\ subChannels' \in [Socks -> SUBSET Ifaces]
      /\ \A j \in Ifaces, t \in Socks :
           j \in subChannels'[t] <=> j \in subChannels[t] \/ (j = i /\ t = s)
  BY <1>1 DEF addStreamSocket
<1>9. \A j \in Ifaces : Distinct(fTCPStreams'[j])
  BY <1>6, <1>7 DEF Agreed
<1>10. \A j \in Ifaces, t \in Socks : Contains(fTCPStreams'[j], t) <=> j \in subChannels'[t]
  BY <1>5, <1>7, <1>8 DEF Agreed, Registered, list
<1> QED  BY <1>7, <1>8, <1>9, <1>10 DEF Agreed, Registered, Distinct, Contains

LEMMA CloseAgrees ==
  ASSUME TypeOK, Agreed, NEW i \in Ifaces, CloseInterface(i)
  PROVE  /\ fTCPStreams' \in [Ifaces -> Seq(Socks)]
         /\ subChannels' \in [Socks -> SUBSET Ifaces]
         /\ Agreed'
<1>1. /\ fTCPStreams' \in [Ifaces -> Seq(Socks)] /\ fTCPStreams'[i] = <<>>
      /\ \A j \in Ifaces \ {i} : fTCPStreams'[j] = fTCPStreams[j]
  BY DEF TypeOK, CloseInterface
<1>2. /\ subChannels' \in [Socks -> SUBSET Ifaces]
      /\ \A j \in Ifaces, t \in Socks :
           j \in subChannels'[t] <=>
             j \in subChannels[t] /\ ~(j = i /\ Contains(fTCPStreams[i], t))
  BY DEF TypeOK, CloseInterface
<1>3. Distinct(<<>>) /\ \A t \in Socks : ~Contains(<<>>, t)
  BY DEF Distinct, Contains
<1>4. \A j \in Ifaces : Distinct(fTCPStreams'[j])
  BY <1>1, <1>3 DEF Agreed
<1>5. \A j \in Ifaces, t \in Socks : Contains(fTCPStreams'[j], t) <=> j \in subChannels'[t]
  BY <1>1, <1>2, <1>3 DEF Agreed, Registered
<1> QED  BY <1>1, <1>2, <1>4, <1>5 DEF Agreed, Registered, Distinct, Contains

LEMMA ReadFailsAgrees ==
  ASSUME TypeOK, Agreed, NEW s \in Socks, ReadFails(s)
  PROVE  /\ fTCPStreams' \in [Ifaces -> Seq(Socks)]
         /\ subChannels' \in [Socks -> SUBSET Ifaces]
         /\ Agreed'
<1>1. /\ fTCPStreams \in [Ifaces -> Seq(Socks)] /\ subChannels \in [Socks -> SUBSET Ifaces]
  BY DEF TypeOK
<1>2. \A j \in Ifaces :
        /\ Without(fTCPStreams[j], s) \in Seq(Socks) /\ Distinct(Without(fTCPStreams[j], s))
        /\ \A t \in Socks :
             Contains(Without(fTCPStreams[j], s), t) <=> Contains(fTCPStreams[j], t) /\ t # s
  BY <1>1, WithoutElems DEF Agreed
<1>3. \A j \in Ifaces : fTCPStreams'[j] = IF j \in subChannels[s]
                                          THEN Without(fTCPStreams[j], s) ELSE fTCPStreams[j]
  BY DEF ReadFails
<1>4. fTCPStreams' \in [Ifaces -> Seq(Socks)]
  BY <1>1, <1>2 DEF ReadFails
<1>5. /\ subChannels' \in [Socks -> SUBSET Ifaces]
      /\ \A j \in Ifaces, t \in Socks :
           j \in subChannels'[t] <=> j \in subChannels[t] /\ t # s
  BY <1>1 DEF ReadFails
<1>6. \A j \in Ifaces : Distinct(fTCPStreams'[j])
  BY <1>2, <1>3 DEF Agreed
<1>7. \A j \in Ifaces, t \in Socks : Contains(fTCPStreams'[j], t) <=> j \in subChannels'[t]
  BY <1>2, <1>3, <1>5 DEF Agreed, Registered
<1> QED  BY <1>4, <1>5, <1>6, <1>7 DEF Agreed, Registered, Distinct, Contains
-----------------------------------------------------------------------------
(* The parts of sendPacket *)

LEMMA NextStreamFacts ==
  ASSUME TypeOK, NextStream
  PROVE  /\ stream' \in Socks \union {None} /\ nextStream' \in Socks \union {None}
         /\ pc' \in {"idle", "send"} /\ sent' = 0 /\ elapsed' = 0 /\ held' = 0
         /\ pc' = "send" => stream' \in Socks
         /\ left' \subseteq Socks /\ iface' = iface /\ size' = size
<1>1. nextStream \in Socks \union {None} /\ left \subseteq Socks
  BY DEF TypeOK
<1>2. left' \subseteq Socks /\ iface' = iface /\ size' = size
  BY <1>1 DEF NextStream, packet
<1>3. CASE nextStream = None
  BY <1>2, <1>3 DEF NextStream
<1>4. CASE nextStream # None
  <2>1. Visit(iface, nextStream)
    BY <1>4 DEF NextStream
  <2>2. After(fTCPStreams'[iface], nextStream) \in Socks \union {None}
    BY AfterType
  <2> QED  BY <1>1, <1>2, <1>4, <2>1, <2>2 DEF Visit
<1> QED  BY <1>3, <1>4

\* Goal is at most the end of the frame, and lies ahead.
LEMMA GoalFacts ==
  ASSUME TypeOK, InFrame, Sending
  PROVE  /\ Goal \in Nat /\ sent \in Nat /\ sent < Goal /\ Goal <= HDR + size
         /\ forceSendToSucceed => Goal = HDR + size
         /\ ~forceSendToSucceed => Goal = HDR
         /\ HDR + size \in Nat /\ HDR < HDR + size /\ stream \in Socks
  BY Constants DEF TypeOK, InFrame, Goal, forceSendToSucceed

LEMMA OutFacts ==
  ASSUME TypeOK, InFrame, Sending, NEW n \in Nat,
         n <= room[stream], sent + n <= HDR + size, Out(n)
  PROVE  /\ room' \in [Socks -> 0 .. SNDBUF] /\ wire' \in [Socks -> 0 .. HDR + MaxPacket]
         /\ spoilt' \subseteq Socks /\ cut' = cut /\ dead' = dead
         /\ \A s \in Socks \ cut :
              /\ s \notin spoilt'
              /\ wire'[s] = IF s = stream /\ sent + n # HDR + size THEN sent + n ELSE 0
<1>1. /\ stream \in Socks /\ sent \in Nat /\ size \in 1 .. MaxPacket
      /\ room \in [Socks -> 0 .. SNDBUF] /\ wire \in [Socks -> 0 .. HDR + MaxPacket]
      /\ spoilt \subseteq Socks
      /\ \A s \in Socks \ cut : s \notin spoilt /\ wire[s] = IF s = stream THEN sent ELSE 0
  BY Constants, GoalFacts DEF TypeOK, InFrame
<1>2. room' \in [Socks -> 0 .. SNDBUF]
  <2>1. room[stream] \in 0 .. SNDBUF /\ room[stream] - n \in 0 .. SNDBUF
    BY <1>1, Constants
  <2> QED  BY <1>1, <2>1 DEF Out
<1>3. wire' \in [Socks -> 0 .. HDR + MaxPacket]
  <2>1. (IF sent + n = HDR + size THEN 0 ELSE sent + n) \in 0 .. HDR + MaxPacket
    BY <1>1, Constants
  <2> QED  BY <1>1, <2>1 DEF Out
<1>4. spoilt' \subseteq Socks /\ cut' = cut /\ dead' = dead
  BY <1>1 DEF Out
<1>5. ASSUME NEW s \in Socks \ cut
      PROVE  /\ s \notin spoilt'
             /\ wire'[s] = IF s = stream /\ sent + n # HDR + size THEN sent + n ELSE 0
  <2>1. CASE s = stream
    BY <1>1, <2>1 DEF Out
  <2>2. CASE s # stream
    BY <1>1, <2>2 DEF Out
  <2> QED  BY <2>1, <2>2
<1> QED  BY <1>2, <1>3, <1>4, <1>5

\* The end of a call, of the header's or of the packet's.
LEMMA CompletedKeeps ==
  ASSUME SendInv, Sending, room[stream] >= Goal - sent, Completed
  PROVE  SendInv'
<1> DEFINE n == Goal - sent
<1>1. TypeOK /\ InFrame /\ Waited /\ Agreed
  BY DEF SendInv
<1>2. /\ n \in Nat /\ n <= room[stream] /\ sent + n = Goal /\ Goal <= HDR + size
      /\ stream \in Socks /\ Out(n) /\ lists' = lists
  <2>1. room[stream] \in Nat
    BY <1>1, GoalFacts, Constants DEF TypeOK
  <2> QED  BY <1>1, <2>1, GoalFacts DEF Completed
<1> HIDE DEF n
<1>3. /\ room' \in [Socks -> 0 .. SNDBUF] /\ wire' \in [Socks -> 0 .. HDR + MaxPacket]
      /\ spoilt' \subseteq Socks /\ cut' = cut /\ dead' = dead
      /\ \A s \in Socks \ cut :
           /\ s \notin spoilt'
           /\ wire'[s] = IF s = stream /\ Goal # HDR + size THEN Goal ELSE 0
  BY <1>1, <1>2, OutFacts
<1>4. fTCPStreams' = fTCPStreams /\ subChannels' = subChannels
  BY <1>2 DEF lists
<1>5. Agreed'
  BY <1>1, <1>4 DEF Agreed, Registered, Distinct, Contains
<1>6. CASE forceSendToSucceed
  <2>1. NextStream
    BY <1>6 DEF Completed
  <2>2. /\ stream' \in Socks \union {None} /\ nextStream' \in Socks \union {None}
        /\ pc' \in {"idle", "send"} /\ sent' = 0 /\ elapsed' = 0 /\ held' = 0
        /\ pc' = "send" => stream' \in Socks
        /\ left' \subseteq Socks /\ iface' = iface /\ size' = size
    BY <1>1, <2>1, NextStreamFacts
  <2>3. TypeOK'
    <3>1. /\ iface' \in Ifaces /\ size' \in 1 .. MaxPacket /\ sent' \in 0 .. HDR + size'
          /\ elapsed' \in 0 .. BUDGET /\ held' \in Nat
      BY <1>1, <2>2, Constants DEF TypeOK
    <3>2. pc' \in {"idle", "send", "retry", "poll"}
      BY <2>2
    <3> QED  BY <1>1, <1>3, <1>4, <2>2, <3>1, <3>2 DEF TypeOK
  <2>4. InFrame'
    <3>1. Goal = HDR + size
      BY <1>1, <1>6, GoalFacts
    <3> QED  BY <1>1, <1>3, <2>2, <3>1, GoalFacts, Constants DEF InFrame, Sending
  <2>5. Waited'
    BY <2>2, Constants DEF Waited
  <2> QED  BY <1>5, <2>3, <2>4, <2>5 DEF SendInv
<1>7. CASE ~forceSendToSucceed
  <2>1. /\ sent' = HDR /\ pc' = "send" /\ elapsed' = 0
        /\ iface' = iface /\ size' = size /\ held' = held
        /\ stream' = stream /\ nextStream' = nextStream /\ left' = left
    BY <1>7 DEF Completed, packet, walk
  <2>2. Goal = HDR /\ HDR < HDR + size /\ stream \in Socks
    BY <1>1, <1>7, GoalFacts
  <2>3. TypeOK'
    BY <1>1, <1>3, <1>4, <2>1, <2>2, Constants DEF TypeOK
  <2>4. InFrame'
    BY <1>3, <2>1, <2>2, Constants DEF InFrame, Sending
  <2>5. Waited'
    <3>1. held <= elapsed /\ elapsed <= BUDGET /\ held \in Nat /\ elapsed \in Nat
      BY <1>1, <1>7, Constants DEF Waited, TypeOK, forceSendToSucceed
    <3> QED  BY <2>1, <3>1, Constants DEF Waited
  <2> QED  BY <1>5, <2>3, <2>4, <2>5 DEF SendInv
<1> QED  BY <1>6, <1>7

\* Giving the stream up: a frame that is half out is counted as cut.
LEMMA DropKeeps ==
  ASSUME SendInv, Sending, Drop
  PROVE  SendInv'
<1>1. TypeOK /\ InFrame /\ Waited /\ Agreed
  BY DEF SendInv
<1>2. stream \in Socks /\ iface \in Ifaces /\ sent \in Nat
  BY <1>1, GoalFacts DEF TypeOK
<1>3. /\ fTCPStreams' \in [Ifaces -> Seq(Socks)] /\ subChannels' \in [Socks -> SUBSET Ifaces]
      /\ Agreed'
  BY <1>1, <1>2, RemoveAgrees DEF Drop
<1>4. /\ stream' \in Socks \union {None} /\ nextStream' \in Socks \union {None}
      /\ pc' \in {"idle", "send"} /\ sent' = 0 /\ elapsed' = 0 /\ held' = 0
      /\ pc' = "send" => stream' \in Socks
      /\ left' \subseteq Socks /\ iface' = iface /\ size' = size
  BY <1>1, NextStreamFacts DEF Drop
<1>5. /\ room' = room /\ dead' = dead /\ wire' = wire /\ spoilt' = spoilt
      /\ cut' = IF sent > 0 THEN cut \union {stream} ELSE cut
  BY DEF Drop
<1>6. TypeOK'
  BY <1>1, <1>2, <1>3, <1>4, <1>5, Constants DEF TypeOK
<1>7. InFrame'
  <2>1. \A s \in Socks \ cut' : s \notin spoilt' /\ wire'[s] = 0
    BY <1>1, <1>2, <1>5 DEF InFrame
  <2> QED  BY <1>1, <1>4, <2>1, GoalFacts, Constants DEF InFrame, Sending
<1>8. Waited'
  BY <1>4, Constants DEF Waited
<1> QED  BY <1>3, <1>6, <1>7, <1>8 DEF SendInv
-----------------------------------------------------------------------------
(* The steps *)

LEMMA InitKeeps == TcpInit => SendInv
<1> SUFFICES ASSUME TcpInit PROVE SendInv
  OBVIOUS
<1>1. TypeOK
  BY Constants DEF TcpInit, TypeOK
<1>2. InFrame
  BY Constants DEF TcpInit, InFrame, Sending
<1>3. Waited
  BY Constants DEF TcpInit, Waited
<1>4. Agreed
  BY DEF TcpInit, Agreed, Registered, Distinct, Contains
<1> QED  BY <1>1, <1>2, <1>3, <1>4 DEF SendInv

\* The event loop between packets changes lists and descriptors at most.
LEMMA EventLoopKeeps ==
  ASSUME SendInv, EventLoop
  PROVE  SendInv'
<1>1. TypeOK /\ InFrame /\ Waited /\ Agreed
  BY DEF SendInv
<1>2. ASSUME ~Sending,
             fTCPStreams' \in [Ifaces -> Seq(Socks)],
             subChannels' \in [Socks -> SUBSET Ifaces], Agreed',
             UNCHANGED <<room, dead, pc, packet, walk, sent, elapsed, history, held>>
      PROVE  SendInv'
  <2>1. TypeOK'
    BY <1>1, <1>2 DEF TypeOK, packet, walk, history
  <2>2. InFrame'
    BY <1>1, <1>2 DEF InFrame, Sending, packet, walk, history
  <2>3. Waited'
    BY <1>1, <1>2 DEF Waited
  <2> QED  BY <1>2, <2>1, <2>2, <2>3 DEF SendInv
<1>3. ASSUME NEW i \in Ifaces, NEW n \in 1 .. MaxPacket, sendPacket(i, n)
      PROVE  SendInv'
  <2>1. /\ ~Sending /\ fTCPStreams[i] # <<>> /\ fTCPStreams[i] \in Seq(Socks)
        /\ UNCHANGED <<fTCPStreams, subChannels, room, dead, wire, cut, spoilt>>
        /\ iface' = i /\ size' = n /\ left' = ToSet(fTCPStreams[i])
        /\ Visit(i, Head(fTCPStreams[i]))
    BY <1>1, <1>3 DEF sendPacket, lists, history, TypeOK
  <2>2. /\ Head(fTCPStreams[i]) \in Socks /\ ToSet(fTCPStreams[i]) \subseteq Socks
    BY <2>1 DEF ToSet
  <2>3. /\ stream' \in Socks /\ nextStream' \in Socks \union {None}
        /\ pc' = "send" /\ sent' = 0 /\ elapsed' = 0 /\ held' = 0
    BY <2>1, <2>2, AfterType DEF Visit
  <2>4. TypeOK'
    <3>1. sent' \in 0 .. HDR + size' /\ elapsed' \in 0 .. BUDGET /\ held' \in Nat
      BY <2>1, <2>3, Constants
    <3> QED  BY <1>1, <2>1, <2>2, <2>3, <3>1 DEF TypeOK
  <2>5. InFrame'
    BY <1>1, <2>1, <2>3, Constants DEF InFrame, Sending
  <2>6. Waited'
    BY <2>3, Constants DEF Waited
  <2>7. Agreed'
    BY <1>1, <2>1 DEF Agreed, Registered, Distinct, Contains
  <2> QED  BY <2>4, <2>5, <2>6, <2>7 DEF SendInv
<1>4. ASSUME NEW i \in Ifaces, NEW s \in Socks, addStreamSocket(i, s)
      PROVE  SendInv'
  BY <1>1, <1>2, <1>4, AddAgrees DEF addStreamSocket
<1>5. ASSUME NEW i \in Ifaces, NEW s \in Socks, Teardown(i, s)
      PROVE  SendInv'
  BY <1>1, <1>2, <1>5, RemoveAgrees DEF Teardown
<1>6. ASSUME NEW i \in Ifaces, CloseInterface(i)
      PROVE  SendInv'
  BY <1>1, <1>2, <1>6, CloseAgrees DEF CloseInterface
<1>7. ASSUME NEW s \in Socks, ReadFails(s)
      PROVE  SendInv'
  BY <1>1, <1>2, <1>7, ReadFailsAgrees DEF ReadFails
<1> QED  BY <1>3, <1>4, <1>5, <1>6, <1>7 DEF EventLoop

\* Clients make room, fail, and are replaced by others.
LEMMA ClientsKeep ==
  ASSUME SendInv, Clients
  PROVE  SendInv'
<1>1. TypeOK /\ InFrame /\ Waited /\ Agreed
  BY DEF SendInv
<1>2. /\ UNCHANGED <<fTCPStreams, subChannels, pc, iface, size, stream, nextStream, left,
                     sent, elapsed, held>>
  BY DEF Clients, ClientReads, ConnectionFails, Reopen, lists, packet, walk, history
<1>3. PICK s \in Socks : ClientReads(s) \/ ConnectionFails(s) \/ Reopen(s)
  BY DEF Clients
<1>4. /\ room' \in [Socks -> 0 .. SNDBUF] /\ dead' \subseteq Socks
      /\ wire' \in [Socks -> 0 .. HDR + MaxPacket] /\ cut' \subseteq Socks /\ spoilt' \subseteq Socks
  <2>1. CASE ClientReads(s)
    <3>1. room[s] + 1 \in 0 .. SNDBUF
      BY <1>1, <2>1, Constants DEF TypeOK, ClientReads
    <3> QED  BY <1>1, <2>1, <3>1 DEF TypeOK, ClientReads, history
  <2>2. CASE ConnectionFails(s)
    BY <1>1, <2>2 DEF TypeOK, ConnectionFails, history
  <2>3. CASE Reopen(s)
    BY <1>1, <2>3, Constants DEF TypeOK, Reopen
  <2> QED  BY <1>3, <2>1, <2>2, <2>3
<1>5. TypeOK'
  BY <1>1, <1>2, <1>4 DEF TypeOK
<1>6. InFrame'
  <2>1. CASE ClientReads(s) \/ ConnectionFails(s)
    BY <1>1, <1>2, <2>1 DEF InFrame, Sending, ClientReads, ConnectionFails, history
  <2>2. CASE Reopen(s)
    <3>1. /\ ~Sending /\ ~Sending' /\ sent' = 0
          /\ wire \in [Socks -> 0 .. HDR + MaxPacket]
          /\ wire' = [wire EXCEPT ![s] = 0] /\ cut' = cut \ {s} /\ spoilt' = spoilt \ {s}
      BY <1>1, <1>2, <2>2 DEF InFrame, Sending, Reopen, TypeOK
    <3>2. \A t \in Socks \ cut' : t \notin spoilt' /\ wire'[t] = 0
      BY <1>1, <3>1 DEF InFrame
    <3> QED  BY <3>1, <3>2 DEF InFrame, Sending
  <2> QED  BY <1>3, <2>1, <2>2
<1>7. Waited' /\ Agreed'
  BY <1>1, <1>2 DEF Waited, Agreed, Registered, Distinct, Contains
<1> QED  BY <1>5, <1>6, <1>7 DEF SendInv

\* A part of what was asked for is out: the call goes on with a wait.
LEMMA PartKeeps ==
  ASSUME SendInv, Sending, NEW n \in Nat, n <= room[stream], sent + n < Goal,
         Out(n), sent' = sent + n, pc' = "retry",
         elapsed' = elapsed, UNCHANGED <<lists, packet, walk, held>>
  PROVE  SendInv'
<1>1. TypeOK /\ InFrame /\ Waited /\ Agreed
  BY DEF SendInv
<1>2. /\ fTCPStreams' = fTCPStreams /\ subChannels' = subChannels
      /\ iface' = iface /\ size' = size /\ held' = held
      /\ stream' = stream /\ nextStream' = nextStream /\ left' = left
  BY DEF lists, packet, walk
<1>3. /\ sent \in Nat /\ Goal \in Nat /\ Goal <= HDR + size /\ sent + n < HDR + size
      /\ HDR + size \in Nat /\ stream \in Socks
  BY <1>1, GoalFacts
<1>4. /\ room' \in [Socks -> 0 .. SNDBUF] /\ wire' \in [Socks -> 0 .. HDR + MaxPacket]
      /\ spoilt' \subseteq Socks /\ cut' = cut /\ dead' = dead
      /\ \A s \in Socks \ cut :
           /\ s \notin spoilt'
           /\ wire'[s] = IF s = stream /\ sent + n # HDR + size THEN sent + n ELSE 0
  BY <1>1, <1>3, OutFacts
<1>5. TypeOK'
  <2>1. /\ sent' \in 0 .. HDR + size' /\ elapsed' \in 0 .. BUDGET /\ held' \in Nat
        /\ iface' \in Ifaces /\ size' \in 1 .. MaxPacket
    BY <1>1, <1>2, <1>3 DEF TypeOK
  <2> QED  BY <1>1, <1>2, <1>4, <2>1 DEF TypeOK
<1>6. InFrame'
  BY <1>2, <1>3, <1>4 DEF InFrame, Sending
<1>7. Waited'
  <2>1. sent >= HDR <=> sent' >= HDR
    BY <1>1, <1>3, GoalFacts, Constants DEF forceSendToSucceed
  <2>2. held <= elapsed + IF sent >= HDR THEN BUDGET ELSE 0
    BY <1>1 DEF Waited
  <2> QED  BY <1>2, <2>1, <2>2 DEF Waited
<1>8. Agreed'
  BY <1>1, <1>2 DEF Agreed, Registered, Distinct, Contains
<1> QED  BY <1>5, <1>6, <1>7, <1>8 DEF SendInv

\* Only the place in the wait and its clock change.
LEMMA WaitKeeps ==
  ASSUME SendInv, Sending, pc \in {"send", "retry", "poll"}, pc' \in {"retry", "poll"},
         room' \in [Socks -> 0 .. SNDBUF],
         NEW d \in {0, 1}, elapsed' = elapsed + d, held' = held + d, elapsed' <= BUDGET,
         UNCHANGED <<lists, dead, packet, walk, sent, history>>
  PROVE  SendInv'
<1>1. TypeOK /\ InFrame /\ Waited /\ Agreed
  BY DEF SendInv
<1>2. UNCHANGED <<fTCPStreams, subChannels, dead, iface, size, stream, nextStream, left, sent,
                  wire, cut, spoilt>>
  BY DEF lists, packet, walk, history
<1>3. TypeOK'
  <2>1. elapsed' \in 0 .. BUDGET /\ held' \in Nat
    BY <1>1, Constants DEF TypeOK
  <2> QED  BY <1>1, <1>2, <2>1 DEF TypeOK
<1>4. InFrame'
  BY <1>1, <1>2 DEF InFrame, Sending
<1>5. Waited'
  <2>1. held \in Nat /\ elapsed \in Nat
    BY <1>1, Constants DEF TypeOK
  <2>2. held <= elapsed + IF sent >= HDR THEN BUDGET ELSE 0
    BY <1>1 DEF Waited
  <2>3. sent' = sent /\ pc' # "send"
    BY <1>2
  <2> DEFINE b == IF sent >= HDR THEN BUDGET ELSE 0
  <2>4. b \in Nat /\ held <= elapsed + b
    BY <2>2, Constants
  <2> HIDE DEF b
  <2>5. held + d <= elapsed + d + b
    BY <2>1, <2>4
  <2> QED  BY <2>3, <2>5 DEF Waited, b
<1>6. Agreed'
  BY <1>1, <1>2 DEF Agreed, Registered, Distinct, Contains
<1> QED  BY <1>3, <1>4, <1>5, <1>6 DEF SendInv

LEMMA ServerKeeps ==
  ASSUME SendInv, Server \/ Tick
  PROVE  SendInv'
<1>1. TypeOK /\ InFrame /\ Waited /\ Agreed
  BY DEF SendInv
<1>2. CASE SendFails \/ RetryFails
  BY <1>2, DropKeeps DEF SendFails, RetryFails, Sending
<1>3. CASE SendAll
  BY <1>3, CompletedKeeps DEF SendAll, Sending
<1>4. CASE SendPart
  <2>1. /\ Sending /\ stream \in Socks /\ room[stream] \in Nat /\ sent \in Nat /\ Goal \in Nat
        /\ room[stream] < Goal - sent /\ pc = "send" /\ elapsed = 0
    BY <1>1, <1>4, GoalFacts, Constants DEF SendPart, Sending, TypeOK, Waited
  <2>2. CASE room[stream] > 0
    <3>1. /\ Out(room[stream]) /\ sent' = sent + room[stream] /\ pc' = "retry"
          /\ elapsed' = elapsed /\ UNCHANGED <<lists, packet, walk, held>>
      BY <1>4, <2>1, <2>2 DEF SendPart
    <3>2. room[stream] <= room[stream] /\ sent + room[stream] < Goal
      BY <2>1
    <3> QED  BY <2>1, <3>1, <3>2, PartKeeps
  <2>3. CASE room[stream] = 0
    <3>1. /\ UNCHANGED <<lists, room, dead, packet, walk, sent, history, held, elapsed>>
          /\ pc' = "retry"
      BY <1>4, <2>1, <2>3 DEF SendPart, history
    <3>2. /\ room' \in [Socks -> 0 .. SNDBUF] /\ elapsed' <= BUDGET
          /\ elapsed' = elapsed + 0 /\ held' = held + 0
      BY <1>1, <2>1, <3>1, Constants DEF TypeOK
    <3> QED  BY <2>1, <3>1, <3>2, WaitKeeps
  <2> QED  BY <2>1, <2>2, <2>3
<1>5. CASE SendNothing
  <2>1. /\ pc = "send" /\ Sending /\ sent = 0 /\ stream \in Socks
        /\ UNCHANGED <<fTCPStreams, subChannels, room, dead, wire, cut, spoilt>>
        /\ NextStream
    BY <1>1, <1>5, Constants
       DEF SendNothing, InFrame, Sending, forceSendToSucceed, lists, history
  <2>2. /\ stream' \in Socks \union {None} /\ nextStream' \in Socks \union {None}
        /\ pc' \in {"idle", "send"} /\ sent' = 0 /\ elapsed' = 0 /\ held' = 0
        /\ pc' = "send" => stream' \in Socks
        /\ left' \subseteq Socks /\ iface' = iface /\ size' = size
    BY <1>1, <2>1, NextStreamFacts
  <2>3. TypeOK'
    <3>1. sent' \in 0 .. HDR + size' /\ elapsed' \in 0 .. BUDGET /\ held' \in Nat
      BY <1>1, <2>2, Constants DEF TypeOK
    <3> QED  BY <1>1, <2>1, <2>2, <3>1 DEF TypeOK
  <2>4. InFrame'
    <3>1. \A s \in Socks \ cut' : s \notin spoilt' /\ wire'[s] = 0
      BY <1>1, <2>1 DEF InFrame
    <3> QED  BY <1>1, <2>1, <2>2, <3>1, GoalFacts, Constants DEF InFrame, Sending
  <2>5. Waited' /\ Agreed'
    BY <1>1, <2>1, <2>2, Constants DEF Waited, Agreed, Registered, Distinct, Contains
  <2> QED  BY <2>3, <2>4, <2>5 DEF SendInv
<1>6. CASE RetrySends
  <2>1. Sending /\ stream \in Socks /\ room[stream] \in Nat /\ sent \in Nat /\ Goal \in Nat
    BY <1>1, <1>6, GoalFacts, Constants DEF RetrySends, Sending, TypeOK
  <2>2. CASE room[stream] >= Goal - sent
    BY <1>6, <2>1, <2>2, CompletedKeeps DEF RetrySends
  <2>3. CASE room[stream] < Goal - sent
    <3>1. /\ Out(room[stream]) /\ sent' = sent + room[stream] /\ pc' = "retry"
          /\ elapsed' = elapsed /\ UNCHANGED <<lists, packet, walk, held>>
      BY <1>6, <2>1, <2>3 DEF RetrySends
    <3>2. room[stream] <= room[stream] /\ sent + room[stream] < Goal
      BY <2>1, <2>3
    <3> QED  BY <2>1, <3>1, <3>2, PartKeeps
  <2> QED  BY <2>1, <2>2, <2>3
<1>7. CASE RetryPolls \/ PollReturns
  <2>1. /\ Sending /\ pc \in {"retry", "poll"} /\ pc' \in {"retry", "poll"}
        /\ UNCHANGED <<lists, room, dead, packet, walk, sent, elapsed, history, held>>
    BY <1>7 DEF RetryPolls, PollReturns, Sending
  <2>2. /\ room' \in [Socks -> 0 .. SNDBUF] /\ elapsed' <= BUDGET
        /\ elapsed' = elapsed + 0 /\ held' = held + 0
    BY <1>1, <2>1, Constants DEF TypeOK
  <2> QED  BY <2>1, <2>2, WaitKeeps
<1>8. CASE Tick
  <2>1. /\ Sending /\ pc = "poll" /\ pc' = "poll" /\ elapsed < BUDGET
        /\ elapsed' = elapsed + 1 /\ held' = held + 1
        /\ UNCHANGED <<lists, dead, packet, walk, sent, history>>
    BY <1>8 DEF Tick, Sending
  <2>2. room' \in [Socks -> 0 .. SNDBUF]
    BY <1>1, <1>8, Constants DEF Tick, TypeOK
  <2>3. elapsed' <= BUDGET
    BY <1>1, <2>1, Constants DEF TypeOK
  <2> QED  BY <2>1, <2>2, <2>3, WaitKeeps
<1> QED  BY <1>2, <1>3, <1>4, <1>5, <1>6, <1>7, <1>8 DEF Server

\* SendInv is inductive.
LEMMA StepKeeps == SendInv /\ [TcpNext]_vars => SendInv'
<1> SUFFICES ASSUME SendInv, [TcpNext]_vars PROVE SendInv'
  OBVIOUS
<1>1. CASE TcpNext
  BY <1>1, ServerKeeps, EventLoopKeeps, ClientsKeep DEF TcpNext
<1>2. CASE UNCHANGED vars
  BY <1>2 DEF SendInv, TypeOK, InFrame, Waited, Agreed, Registered, Distinct, Contains, Sending,
              vars, lists, packet, walk, history
<1> QED  BY <1>1, <1>2

LEMMA Invariance == TcpSpec => []SendInv
  BY InitKeeps, StepKeeps, PTL DEF TcpSpec
-----------------------------------------------------------------------------
\* The state of RtpOverTcp has its types, whatever the sizes.
THEOREM TypesHold == TcpSpec => []TypeOK
<1>1. SendInv => TypeOK
  BY DEF SendInv
<1> QED  BY <1>1, Invariance, PTL

\* A frame begins where the last one ended on every connection on which none
\* was given up half sent, for any number of interfaces and clients, any
\* buffer and any packets.
THEOREM FramesStayWhole == TcpSpec => []FramesWhole
<1>1. SendInv => FramesWhole
  BY DEF SendInv, TypeOK, InFrame, FramesWhole
<1> QED  BY <1>1, Invariance, PTL

\* One client holds the server up for twice the budget at most, also one that
\* reads now and then.
THEOREM NobodyHoldsLong == TcpSpec => []HeldBriefly
<1>1. SendInv => HeldBriefly
  <2> SUFFICES ASSUME SendInv PROVE HeldBriefly
    OBVIOUS
  <2>1. elapsed \in 0 .. BUDGET /\ held \in Nat
    BY DEF SendInv, TypeOK
  <2>2. held <= elapsed + IF sent >= HDR THEN BUDGET ELSE 0
    BY DEF SendInv, Waited
  <2> QED  BY <2>1, <2>2, Constants DEF HeldBriefly
<1> QED  BY <1>1, Invariance, PTL

\* Lists and descriptors agree: a socket number that changes hands is in no
\* interface's list.
THEOREM ListsAgree == TcpSpec => []Registered
<1>1. SendInv => Registered
  BY DEF SendInv, Agreed
<1> QED  BY <1>1, Invariance, PTL
-----------------------------------------------------------------------------
(* The walk of sendPacket over an interface's list, which may lose the      *)
(* record that is being served: nobody behind it is passed over            *)

\* The sockets of a list from position p on.
From(list, p) == {list[q] : q \in p .. Len(list)}

\* A walk that serves s stands at position p: it has read the link there, and
\* has still to offer the packet to that socket and all behind it.
StandsAt(list, p, s, next, rest) ==
    /\ list[p] = s
    /\ next = IF p = Len(list) THEN None ELSE list[p + 1]
    /\ rest = From(list, p)

InWalk ==
    /\ Sending => \E p \in 1 .. Len(fTCPStreams[iface]) :
                    StandsAt(fTCPStreams[iface], p, stream, nextStream, left)
    /\ ~Sending => left = {}

WalkInv == SendInv /\ InWalk
-----------------------------------------------------------------------------
(* Lists *)

\* The link of the record at position p.
LEMMA AfterNext ==
  ASSUME NEW list \in Seq(Socks), Distinct(list), NEW p \in 1 .. Len(list)
  PROVE  After(list, list[p]) = IF p = Len(list) THEN None ELSE list[p + 1]
<1>1. Len(list) \in Nat /\ p \in Nat /\ \A n \in 1 .. Len(list) : list[n] \in Socks
  OBVIOUS
<1>2. \A n \in 1 .. Len(list) - 1 : list[n] = list[p] => n = p
  BY <1>1 DEF Distinct
<1>3. CASE p = Len(list)
  <2>1. ~ \E t \in Socks, n \in 1 .. Len(list) - 1 : list[n] = list[p] /\ list[n + 1] = t
    BY <1>1, <1>2, <1>3
  <2> QED  BY <1>3, <2>1 DEF After
<1>4. CASE p # Len(list)
  <2>1. p \in 1 .. Len(list) - 1 /\ list[p + 1] \in Socks
    BY <1>1, <1>4
  <2>2. \E t \in Socks, n \in 1 .. Len(list) - 1 : list[n] = list[p] /\ list[n + 1] = t
    BY <2>1
  <2>3. \A t \in Socks :
          (\E n \in 1 .. Len(list) - 1 : list[n] = list[p] /\ list[n + 1] = t)
            <=> t = list[p + 1]
    BY <1>2, <2>1
  <2> DEFINE c == CHOOSE t \in Socks :
                    \E n \in 1 .. Len(list) - 1 : list[n] = list[p] /\ list[n + 1] = t
  <2>4. /\ c \in Socks
        /\ \E n \in 1 .. Len(list) - 1 : list[n] = list[p] /\ list[n + 1] = c
    BY <2>1, <2>3
  <2>5. After(list, list[p]) = c
    BY <2>2 DEF After
  <2> HIDE DEF c
  <2>6. c = list[p + 1]
    BY <2>3, <2>4
  <2> QED  BY <1>4, <2>5, <2>6
<1> QED  BY <1>3, <1>4

\* Taking a socket off a list takes off its position and moves up the rest.
LEMMA WithoutAt ==
  ASSUME NEW list \in Seq(Socks), Distinct(list), NEW p \in 1 .. Len(list)
  PROVE  /\ Len(Without(list, list[p])) = Len(list) - 1
         /\ \A n \in 1 .. Len(list) - 1 :
              Without(list, list[p])[n] = IF n < p THEN list[n] ELSE list[n + 1]
<1> DEFINE c == CHOOSE n \in 1 .. Len(list) : list[n] = list[p]
<1>1. c \in 1 .. Len(list) /\ list[c] = list[p]
  OBVIOUS
<1>2. Contains(list, list[p])
  BY DEF Contains
<1>3. Without(list, list[p]) = RemoveAt(list, c)
  BY <1>2 DEF Without
<1> HIDE DEF c
<1>4. c = p
  BY <1>1 DEF Distinct
<1> QED  BY <1>3, <1>4, RemoveAtElems

LEMMA FromNext ==
  ASSUME NEW list \in Seq(Socks), Distinct(list), NEW p \in 1 .. Len(list)
  PROVE  From(list, p) \ {list[p]} = From(list, p + 1)
<1>1. Len(list) \in Nat /\ p \in Nat
  OBVIOUS
<1>2. p .. Len(list) = {p} \union ((p + 1) .. Len(list))
  BY <1>1
<1>3. \A q \in (p + 1) .. Len(list) : q \in 1 .. Len(list) /\ q # p /\ list[q] # list[p]
  BY <1>1 DEF Distinct
<1> QED  BY <1>2, <1>3 DEF From

\* Behind the position that was taken off are those that were behind it.
LEMMA FromMoved ==
  ASSUME NEW list \in Seq(Socks), NEW p \in 1 .. Len(list), NEW shorter,
         Len(shorter) = Len(list) - 1,
         \A n \in 1 .. Len(list) - 1 : shorter[n] = IF n < p THEN list[n] ELSE list[n + 1]
  PROVE  From(shorter, p) = From(list, p + 1)
<1>1. Len(list) \in Nat /\ p \in Nat /\ p >= 1
  OBVIOUS
<1>2. ASSUME NEW q \in p .. Len(shorter)
      PROVE  q + 1 \in (p + 1) .. Len(list) /\ shorter[q] = list[q + 1]
  BY <1>1
<1>3. ASSUME NEW q \in (p + 1) .. Len(list)
      PROVE  q - 1 \in p .. Len(shorter) /\ shorter[q - 1] = list[q]
  BY <1>1
<1>4. \A x : x \in From(shorter, p) => x \in From(list, p + 1)
  BY <1>2 DEF From
<1>5. \A x : x \in From(list, p + 1) => x \in From(shorter, p)
  BY <1>3 DEF From
<1> QED  BY <1>4, <1>5
-----------------------------------------------------------------------------
(* The walk *)

\* Going on from position p of the list as it was, to position q of the list
\* as it is.
LEMMA GoesOn ==
  ASSUME WalkInv, NextStream, NEW list \in Seq(Socks), Distinct(list),
         NEW p \in 1 .. Len(list), StandsAt(list, p, stream, nextStream, left),
         NEW q \in {p, p + 1}, fTCPStreams'[iface] \in Seq(Socks),
         Distinct(fTCPStreams'[iface]), Len(fTCPStreams'[iface]) - q = Len(list) - (p + 1),
         p < Len(list) => fTCPStreams'[iface][q] = list[p + 1],
         From(fTCPStreams'[iface], q) = From(list, p + 1)
  PROVE  InWalk'
<1> DEFINE new == fTCPStreams'[iface]
<1>1. /\ iface' = iface /\ left' = left \ {stream}
      /\ stream = list[p] /\ nextStream = IF p = Len(list) THEN None ELSE list[p + 1]
      /\ left = From(list, p)
  BY DEF NextStream, packet, StandsAt
<1>2. Len(list) \in Nat /\ p \in Nat /\ p >= 1 /\ p <= Len(list) /\ Len(new) \in Nat
  OBVIOUS
<1>3. left' = From(new, q)
  BY <1>1, FromNext
<1> HIDE DEF new
<1>4. CASE p = Len(list)
  <2>1. pc' = "idle"
    BY <1>1, <1>4 DEF NextStream
  <2>2. q .. Len(new) = {}
    BY <1>2, <1>4 DEF new
  <2> QED  BY <1>3, <2>1, <2>2 DEF InWalk, Sending, From
<1>5. CASE p # Len(list)
  <2>1. list[p + 1] \in Socks /\ nextStream = list[p + 1] /\ nextStream # None
    BY <1>1, <1>2, <1>5, Constants
  <2>2. Visit(iface, nextStream)
    BY <2>1 DEF NextStream
  <2>3. q \in 1 .. Len(new) /\ new[q] = nextStream /\ new \in Seq(Socks) /\ Distinct(new)
    BY <1>2, <1>5, <2>1 DEF new
  <2>4. /\ stream' = nextStream /\ nextStream' = After(new, new[q])
        /\ pc' = "send"
    BY <2>2, <2>3 DEF Visit, new
  <2>5. nextStream' = IF q = Len(new) THEN None ELSE new[q + 1]
    BY <2>3, <2>4, AfterNext
  <2>6. StandsAt(new, q, stream', nextStream', left')
    BY <1>3, <2>3, <2>4, <2>5 DEF StandsAt
  <2> QED  BY <1>1, <2>3, <2>4, <2>6 DEF InWalk, Sending, new
<1> QED  BY <1>4, <1>5
\* The socket was served and stays in the list.
LEMMA ServedGoesOn ==
  ASSUME WalkInv, Sending, NextStream, UNCHANGED fTCPStreams
  PROVE  InWalk'
<1> DEFINE list == fTCPStreams[iface]
<1>1. list \in Seq(Socks) /\ Distinct(list) /\ fTCPStreams'[iface] = list
  BY DEF WalkInv, SendInv, TypeOK, Agreed
<1>2. PICK p \in 1 .. Len(list) : StandsAt(list, p, stream, nextStream, left)
  BY DEF WalkInv, InWalk
<1> HIDE DEF list
<1>3. p + 1 \in {p, p + 1} /\ Len(list) - (p + 1) = Len(list) - (p + 1)
  BY <1>1
<1> QED  BY <1>1, <1>2, <1>3, GoesOn

\* The socket is taken off the list while the walk stands on its record.
LEMMA DroppedGoesOn ==
  ASSUME WalkInv, Sending, Drop
  PROVE  InWalk'
<1> DEFINE list == fTCPStreams[iface]
           new == fTCPStreams'[iface]
<1>1. /\ TypeOK /\ Agreed /\ SendInv /\ iface \in Ifaces
      /\ fTCPStreams \in [Ifaces -> Seq(Socks)] /\ list \in Seq(Socks) /\ Distinct(list)
  BY DEF WalkInv, SendInv, TypeOK, Agreed
<1>2. /\ NextStream /\ new = Without(list, stream)
  BY <1>1 DEF Drop, removeStreamSocket
<1>3. PICK p \in 1 .. Len(list) : StandsAt(list, p, stream, nextStream, left)
  BY DEF WalkInv, InWalk
<1>4. stream = list[p]
  BY <1>3 DEF StandsAt
<1>5. new \in Seq(Socks) /\ Distinct(new)
  <2>1. stream \in Socks
    BY <1>1, <1>4
  <2> QED  BY <1>1, <1>2, <2>1, WithoutElems
<1> HIDE DEF list
<1>6. /\ Len(new) = Len(list) - 1
      /\ \A n \in 1 .. Len(list) - 1 : new[n] = IF n < p THEN list[n] ELSE list[n + 1]
  BY <1>1, <1>2, <1>4, WithoutAt
<1>7. From(new, p) = From(list, p + 1)
  BY <1>1, <1>6, FromMoved
<1>8. Len(new) - p = Len(list) - (p + 1) /\ (p < Len(list) => new[p] = list[p + 1])
  BY <1>1, <1>6
<1> HIDE DEF new
<1>9. /\ fTCPStreams'[iface] = new /\ p \in {p, p + 1}
  BY DEF new
<1> QED  BY <1>1, <1>2, <1>3, <1>5, <1>7, <1>8, <1>9, GoesOn

\* A step that serves the same socket further, or none.
LEMMA WalkStays ==
  ASSUME WalkInv, Sending' <=> Sending, Sending => UNCHANGED <<fTCPStreams, iface>>,
         UNCHANGED <<stream, nextStream, left>>
  PROVE  InWalk'
<1>1. CASE Sending
  BY <1>1 DEF WalkInv, InWalk
<1>2. CASE ~Sending
  BY <1>2 DEF WalkInv, InWalk
<1> QED  BY <1>1, <1>2
-----------------------------------------------------------------------------
(* The steps *)

\* A walk begins at the head of the list.
LEMMA WalkBegins ==
  ASSUME WalkInv, NEW i \in Ifaces, NEW n \in 1 .. MaxPacket, sendPacket(i, n)
  PROVE  InWalk'
<1> DEFINE list == fTCPStreams[i]
<1>1. /\ list \in Seq(Socks) /\ Distinct(list) /\ list # <<>> /\ fTCPStreams' = fTCPStreams
      /\ iface' = i /\ left' = ToSet(list) /\ pc' = "send"
      /\ stream' = Head(list) /\ nextStream' = After(fTCPStreams'[i], Head(list))
  BY DEF WalkInv, SendInv, TypeOK, Agreed, sendPacket, Visit, lists
<1>2. fTCPStreams'[iface'] = list
  BY <1>1
<1> HIDE DEF list
<1>3. 1 \in 1 .. Len(list) /\ Head(list) = list[1]
  BY <1>1
<1>4. nextStream' = IF 1 = Len(list) THEN None ELSE list[1 + 1]
  <2>1. nextStream' = After(list, list[1])
    BY <1>1, <1>3 DEF list
  <2> QED  BY <1>1, <1>3, <2>1, AfterNext
<1>5. left' = From(list, 1)
  BY <1>1 DEF ToSet, From
<1>6. StandsAt(list, 1, stream', nextStream', left')
  BY <1>1, <1>3, <1>4, <1>5 DEF StandsAt
<1> QED  BY <1>1, <1>2, <1>3, <1>6 DEF InWalk, Sending

LEMMA WalkServed ==
  ASSUME WalkInv, Server \/ Tick
  PROVE  InWalk'
<1>1. CASE SendFails \/ RetryFails
  BY <1>1, DroppedGoesOn DEF SendFails, RetryFails, Sending
<1>2. ASSUME Sending, Completed
      PROVE  InWalk'
  <2>1. CASE forceSendToSucceed
    BY <1>2, <2>1, ServedGoesOn DEF Completed, lists
  <2>2. CASE ~forceSendToSucceed
    BY <1>2, <2>2, WalkStays DEF Completed, lists, packet, walk, Sending
  <2> QED  BY <2>1, <2>2
<1>3. CASE SendAll
  BY <1>2, <1>3 DEF SendAll, Sending
<1>4. CASE SendPart
  BY <1>4, WalkStays DEF SendPart, lists, packet, walk, Sending
<1>5. CASE SendNothing
  BY <1>5, ServedGoesOn DEF SendNothing, lists, Sending
<1>6. CASE RetrySends
  <2>1. CASE Completed
    BY <1>2, <1>6, <2>1 DEF RetrySends, Sending
  <2>2. CASE UNCHANGED <<lists, pc, packet, walk>>
    BY <2>2, WalkStays DEF lists, packet, walk, Sending
  <2> QED  BY <1>6, <2>1, <2>2 DEF RetrySends
<1>7. CASE RetryPolls \/ PollReturns \/ Tick
  BY <1>7, WalkStays DEF RetryPolls, PollReturns, Tick, lists, packet, walk, Sending
<1> QED  BY <1>1, <1>3, <1>4, <1>5, <1>6, <1>7 DEF Server

LEMMA WalkLeftAlone ==
  ASSUME WalkInv, EventLoop \/ Clients
  PROVE  InWalk'
<1>1. ASSUME NEW i \in Ifaces, NEW n \in 1 .. MaxPacket, sendPacket(i, n)
      PROVE  InWalk'
  BY <1>1, WalkBegins
<1>2. ASSUME NEW i \in Ifaces, NEW s \in Socks, addStreamSocket(i, s) \/ Teardown(i, s)
      PROVE  InWalk'
  BY <1>2, WalkStays DEF addStreamSocket, Teardown, Sending, walk
<1>3. ASSUME NEW i \in Ifaces, CloseInterface(i)
      PROVE  InWalk'
  BY <1>3, WalkStays DEF CloseInterface, Sending, walk
<1>4. ASSUME NEW s \in Socks, ReadFails(s)
      PROVE  InWalk'
  BY <1>4, WalkStays DEF ReadFails, Sending, walk
<1>5. ASSUME NEW s \in Socks, ClientReads(s) \/ ConnectionFails(s) \/ Reopen(s)
      PROVE  InWalk'
  BY <1>5, WalkStays DEF ClientReads, ConnectionFails, Reopen, Sending, lists, packet, walk
<1> QED  BY <1>1, <1>2, <1>3, <1>4, <1>5 DEF EventLoop, Clients

\* WalkInv is inductive.
LEMMA WalkInvariance == TcpSpec => []WalkInv
<1>1. TcpInit => WalkInv
  BY InitKeeps DEF TcpInit, WalkInv, InWalk, Sending
<1>2. WalkInv /\ [TcpNext]_vars => WalkInv'
  <2> SUFFICES ASSUME WalkInv, [TcpNext]_vars PROVE WalkInv'
    OBVIOUS
  <2>1. SendInv'
    BY StepKeeps DEF WalkInv
  <2>2. CASE TcpNext
    BY <2>1, <2>2, WalkServed, WalkLeftAlone DEF TcpNext, WalkInv
  <2>3. CASE UNCHANGED vars
    <3>1. InWalk'
      BY <2>3, WalkStays DEF vars, lists, packet, walk, Sending
    <3> QED  BY <2>1, <3>1 DEF WalkInv
  <2> QED  BY <2>2, <2>3
<1> QED  BY <1>1, <1>2, PTL DEF TcpSpec
-----------------------------------------------------------------------------
\* A packet that has been sent was offered to every socket of the list, however
\* many were taken off it while they were served.
THEOREM NobodyPassedOver == TcpSpec => []EachOffered
<1>1. WalkInv => EachOffered
  BY DEF WalkInv, InWalk, EachOffered
<1> QED  BY <1>1, WalkInvariance, PTL
-----------------------------------------------------------------------------
(* A client that reads a cell in every tick keeps its stream, if the        *)
(* budget has a tick for every cell of a header and of the longest packet  *)

\* The cells of this call that are out.
OutNow == sent - (IF forceSendToSucceed THEN HDR ELSE 0)

\* A wait for a prompt client has moved a cell, or made room for one, in each
\* of its ticks.
InStep ==
    pc \in {"retry", "poll"} /\ stream \in Prompt \ dead => elapsed <= OutNow + room[stream]

PromptInv == SendInv /\ InStep
-----------------------------------------------------------------------------
LEMMA Numbers ==
  ASSUME PromptInv, Sending
  PROVE  /\ stream \in Socks /\ sent \in Nat /\ Goal \in Nat /\ sent < Goal
         /\ room[stream] \in 0 .. SNDBUF /\ elapsed \in 0 .. BUDGET
         /\ OutNow \in Nat /\ OutNow <= sent
         /\ HDR + size \in Nat /\ Goal <= HDR + size /\ size \in 1 .. MaxPacket
         /\ forceSendToSucceed => Goal = HDR + size
         /\ ~forceSendToSucceed => Goal = HDR
<1>1. TypeOK /\ InFrame
  BY DEF PromptInv, SendInv
<1>2. /\ stream \in Socks /\ sent \in Nat /\ Goal \in Nat /\ sent < Goal
      /\ HDR + size \in Nat /\ Goal <= HDR + size
      /\ forceSendToSucceed => Goal = HDR + size
      /\ ~forceSendToSucceed => Goal = HDR
  BY <1>1, GoalFacts
<1>3. room[stream] \in 0 .. SNDBUF /\ elapsed \in 0 .. BUDGET /\ size \in 1 .. MaxPacket
  BY <1>1, <1>2 DEF TypeOK
<1>4. OutNow \in Nat /\ OutNow <= sent
  BY <1>2, Constants DEF OutNow, forceSendToSucceed
<1> QED  BY <1>2, <1>3, <1>4

\* A wait begins, or goes on, after what there was room for is out.
LEMMA PartInStep ==
  ASSUME PromptInv, Sending, NEW n \in Nat, n = room[stream], sent + n < Goal,
         room'[stream] = 0, sent' = sent + n, dead' = dead, stream' = stream,
         \/ elapsed' = 0
         \/ pc = "retry" /\ elapsed' = elapsed
  PROVE  InStep'
<1>1. sent \in Nat /\ elapsed \in Nat /\ OutNow \in Nat /\ Goal \in Nat /\ sent < Goal
  BY Numbers, Constants
<1>2. sent' >= HDR <=> sent >= HDR
  BY <1>1, Numbers, Constants DEF forceSendToSucceed
<1>3. OutNow' = OutNow + n
  BY <1>1, <1>2, Constants DEF OutNow, forceSendToSucceed
<1>4. CASE elapsed' = 0
  BY <1>1, <1>3, <1>4 DEF InStep
<1>5. CASE pc = "retry" /\ elapsed' = elapsed
  <2>1. stream \in Prompt \ dead => elapsed <= OutNow + n
    BY <1>5 DEF PromptInv, InStep
  <2> QED  BY <1>1, <1>3, <1>5, <2>1 DEF InStep
<1> QED  BY <1>4, <1>5

LEMMA OutTakesRoom ==
  ASSUME PromptInv, Sending, Out(room[stream])
  PROVE  room'[stream] = 0 /\ dead' = dead
<1>1. room \in [Socks -> 0 .. SNDBUF] /\ stream \in Socks
  BY Numbers DEF PromptInv, SendInv, TypeOK
<1> QED  BY <1>1, Numbers, Constants DEF Out

LEMMA ServerInStep ==
  ASSUME PromptInv, Server
  PROVE  InStep'
<1>1. ASSUME pc' \in {"idle", "send"}
      PROVE  InStep'
  BY <1>1 DEF InStep
<1>2. ASSUME NextStream
      PROVE  pc' \in {"idle", "send"}
  BY <1>2 DEF NextStream, Visit
<1>3. CASE SendFails \/ RetryFails \/ SendNothing
  BY <1>1, <1>2, <1>3 DEF SendFails, RetryFails, Drop, SendNothing
<1>4. ASSUME Completed
      PROVE  InStep'
  BY <1>1, <1>2, <1>4 DEF Completed
<1>5. CASE SendAll
  BY <1>4, <1>5 DEF SendAll
<1>6. CASE SendPart
  <2>1. /\ Sending /\ sent' = sent + room[stream] /\ elapsed' = 0 /\ stream' = stream
        /\ room[stream] < Goal - sent
    BY <1>6 DEF SendPart, Sending, walk
  <2>2. room[stream] \in Nat /\ sent + room[stream] < Goal
    BY <2>1, Numbers, Constants
  <2>3. room'[stream] = 0 /\ dead' = dead
    <3>1. CASE room[stream] > 0
      BY <1>6, <2>1, <3>1, OutTakesRoom DEF SendPart
    <3>2. CASE room[stream] = 0
      BY <1>6, <3>2 DEF SendPart
    <3> QED  BY <2>2, <3>1, <3>2
  <2> QED  BY <2>1, <2>2, <2>3, PartInStep
<1>7. CASE RetrySends
  <2>1. pc = "retry" /\ Sending
    BY <1>7 DEF RetrySends, Sending
  <2>2. CASE Completed
    BY <1>4, <2>2
  <2>3. CASE /\ room[stream] < Goal - sent /\ Out(room[stream])
             /\ sent' = sent + room[stream] /\ UNCHANGED <<walk, elapsed>>
    <3>1. room[stream] \in Nat /\ sent + room[stream] < Goal /\ stream' = stream
      BY <2>1, <2>3, Numbers, Constants DEF walk
    <3> QED  BY <2>1, <2>3, <3>1, OutTakesRoom, PartInStep
  <2> QED  BY <1>7, <2>2, <2>3 DEF RetrySends
<1>8. CASE RetryPolls \/ PollReturns
  BY <1>8 DEF PromptInv, InStep, RetryPolls, PollReturns, OutNow, forceSendToSucceed, walk
<1> QED  BY <1>3, <1>5, <1>6, <1>7, <1>8 DEF Server

LEMMA OthersInStep ==
  ASSUME PromptInv, Tick \/ EventLoop \/ Clients
  PROVE  InStep'
<1>1. CASE Tick
  <2>1. /\ Sending /\ pc = "poll" /\ stream' = stream /\ dead' = dead /\ sent' = sent
        /\ elapsed' = elapsed + 1 /\ room[stream] = 0
        /\ stream \in Prompt => room'[stream] = 1
    <3>1. stream \in Socks
      BY <1>1, Numbers DEF Tick, Sending
    <3> QED  BY <1>1, <3>1, Constants DEF Tick, Sending, walk
  <2>2. OutNow' = OutNow /\ OutNow \in Nat /\ elapsed \in Nat
    BY <2>1, Numbers, Constants DEF OutNow, forceSendToSucceed
  <2>3. stream \in Prompt \ dead => elapsed <= OutNow + 0
    BY <2>1 DEF PromptInv, InStep
  <2> QED  BY <2>1, <2>2, <2>3 DEF InStep
<1>2. CASE EventLoop
  <2>1. pc' \in {"idle", "send"}
    BY <1>2 DEF EventLoop, sendPacket, Visit, addStreamSocket, Teardown, CloseInterface,
                ReadFails, Sending
  <2> QED  BY <2>1 DEF InStep
<1>3. CASE Clients
  <2>1. PICK s \in Socks : ClientReads(s) \/ ConnectionFails(s) \/ Reopen(s)
    BY <1>3 DEF Clients
  <2>2. UNCHANGED <<pc, stream, sent, elapsed>>
    BY <2>1 DEF ClientReads, ConnectionFails, Reopen, walk
  <2>3. CASE ~Sending
    BY <2>2, <2>3 DEF InStep, Sending
  <2>4. CASE Sending
    <3>1. /\ \/ dead' = dead /\ room'[stream] \in {room[stream], room[stream] + 1}
             \/ dead \subseteq dead' /\ room' = room
      <4>1. room \in [Socks -> 0 .. SNDBUF] /\ stream \in Socks
        BY <2>4, Numbers DEF PromptInv, SendInv, TypeOK
      <4> QED  BY <2>1, <2>4, <4>1 DEF ClientReads, ConnectionFails, Reopen
    <3>2. OutNow' = OutNow /\ OutNow \in Nat /\ room[stream] \in Nat /\ elapsed \in Nat
      BY <2>2, <2>4, Numbers, Constants DEF OutNow, forceSendToSucceed
    <3>3. pc \in {"retry", "poll"} /\ stream \in Prompt \ dead => elapsed <= OutNow + room[stream]
      BY DEF PromptInv, InStep
    <3> QED  BY <2>2, <3>1, <3>2, <3>3 DEF InStep
  <2> QED  BY <2>3, <2>4
<1> QED  BY <1>1, <1>2, <1>3

\* PromptInv is inductive.
LEMMA PromptInvariance == TcpSpec => []PromptInv
<1>1. TcpInit => PromptInv
  BY InitKeeps DEF TcpInit, PromptInv, InStep
<1>2. PromptInv /\ [TcpNext]_vars => PromptInv'
  <2> SUFFICES ASSUME PromptInv, [TcpNext]_vars PROVE PromptInv'
    OBVIOUS
  <2>1. SendInv'
    BY StepKeeps DEF PromptInv
  <2>2. CASE TcpNext
    BY <2>1, <2>2, ServerInStep, OthersInStep DEF TcpNext, PromptInv
  <2>3. CASE UNCHANGED vars
    <3>1. InStep'
      BY <2>3 DEF vars, walk, PromptInv, InStep, OutNow, forceSendToSucceed
    <3> QED  BY <2>1, <3>1 DEF PromptInv
  <2> QED  BY <2>2, <2>3
<1> QED  BY <1>1, <1>2, PTL DEF TcpSpec
-----------------------------------------------------------------------------
\* A wait for a prompt client does not fail: with the budget spent, all its
\* cells would be out.
LEMMA NoFailure ==
  ASSUME HDR <= BUDGET, MaxPacket <= BUDGET, PromptInv, RetryFails
  PROVE  stream \notin Prompt \ dead
<1> SUFFICES ASSUME stream \in Prompt \ dead PROVE FALSE
  OBVIOUS
<1>1. /\ Sending /\ pc = "retry" /\ room[stream] = 0 /\ elapsed >= BUDGET
  BY DEF RetryFails, Sending
<1>2. OutNow >= BUDGET
  <2>1. elapsed <= OutNow + 0
    BY <1>1 DEF PromptInv, InStep
  <2> QED  BY <1>1, <2>1, Numbers, Constants
<1>3. CASE forceSendToSucceed
  BY <1>1, <1>2, <1>3, Numbers, Constants DEF OutNow
<1>4. CASE ~forceSendToSucceed
  BY <1>1, <1>2, <1>4, Numbers, Constants DEF OutNow
<1> QED  BY <1>3, <1>4

LEMMA DropSpares ==
  ASSUME PromptInv, Sending, Drop, NEW i \in Ifaces, NEW s \in Socks \ {stream},
         Contains(fTCPStreams[i], s)
  PROVE  Contains(fTCPStreams'[i], s)
<1>1. /\ fTCPStreams \in [Ifaces -> Seq(Socks)] /\ iface \in Ifaces /\ stream \in Socks
      /\ \A j \in Ifaces : Distinct(fTCPStreams[j])
  BY Numbers DEF PromptInv, SendInv, TypeOK, Agreed
<1>2. fTCPStreams' = [fTCPStreams EXCEPT ![iface] = Without(fTCPStreams[iface], stream)]
  BY DEF Drop, removeStreamSocket
<1>3. CASE i = iface
  <2>1. fTCPStreams'[i] = Without(fTCPStreams[i], stream)
    BY <1>1, <1>2, <1>3
  <2>2. fTCPStreams[i] \in Seq(Socks) /\ Distinct(fTCPStreams[i])
    BY <1>1
  <2> QED  BY <1>1, <2>1, <2>2, WithoutElems
<1>4. CASE i # iface
  BY <1>1, <1>2, <1>4
<1> QED  BY <1>3, <1>4

\* A client that keeps reading is not dropped, whatever the other clients do,
\* if the budget in ticks is not below the cells of the header and of the
\* longest packet.
THEOREM PromptStays ==
  ASSUME HDR <= BUDGET, MaxPacket <= BUDGET
  PROVE  TcpSpec => PromptKept
<1> DEFINE Keeps == Sending => \A i \in Ifaces, s \in Prompt \ dead :
                      Contains(fTCPStreams[i], s) => Contains(fTCPStreams'[i], s)
<1>1. PromptInv /\ [TcpNext]_vars => [Keeps]_vars
  <2> SUFFICES ASSUME PromptInv, TcpNext, Sending,
                      NEW i \in Ifaces, NEW s \in Prompt \ dead, Contains(fTCPStreams[i], s)
               PROVE  Contains(fTCPStreams'[i], s)
    OBVIOUS
  <2>1. s \in Socks
    BY Constants
  <2>2. CASE SendFails
    BY <2>1, <2>2, DropSpares DEF SendFails
  <2>3. CASE RetryFails
    BY <2>1, <2>3, NoFailure, DropSpares DEF RetryFails
  <2>4. ASSUME fTCPStreams' = fTCPStreams
        PROVE  Contains(fTCPStreams'[i], s)
    BY <2>4
  <2>5. CASE SendAll \/ SendPart \/ SendNothing \/ RetrySends \/ RetryPolls \/ PollReturns \/ Tick
    <3>1. fTCPStreams' = fTCPStreams
      BY <2>5 DEF SendAll, SendPart, SendNothing, RetrySends, RetryPolls, PollReturns, Tick,
                  Completed, lists
    <3> QED  BY <2>4, <3>1
  <2>6. CASE EventLoop
    BY <2>6 DEF EventLoop, sendPacket, addStreamSocket, Teardown, CloseInterface, ReadFails
  <2>7. CASE Clients
    <3>1. fTCPStreams' = fTCPStreams
      BY <2>7 DEF Clients, ClientReads, ConnectionFails, Reopen, lists
    <3> QED  BY <2>4, <3>1
  <2> QED  BY <2>2, <2>3, <2>5, <2>6, <2>7 DEF TcpNext, Server
<1>2. TcpSpec => [][Keeps]_vars
  BY <1>1, PromptInvariance, PTL DEF TcpSpec
<1> QED  BY <1>2 DEF PromptKept
=============================================================================
