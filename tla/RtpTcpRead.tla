----------------------------- MODULE RtpTcpRead -----------------------------
(***************************************************************************)
(* What a client sends over its RTSP connection once streams play on it:   *)
(* requests, and RTCP reports framed by '$', channel and size.  The        *)
(* socket's descriptor tells them apart byte by byte, in whatever pieces   *)
(* they arrive; the rest of a packet is counted by the RTP interface of    *)
(* its channel.  The two bytes of a size are read as one.                  *)
(***************************************************************************)
EXTENDS Integers, Sequences

CONSTANTS
    Conns,      \* RTSP connections
    Chans,      \* interleaved channels (none is Dollar, Other or Null)
    Interfaces, \* RTP interfaces
    Null,       \* no interface (NULL), no socket (-1)
    Dollar,     \* the byte that opens a frame
    Other,      \* any other byte
    Table,      \* interface of every channel of every socket, or Null
    Reading,    \* the interfaces with a read handler: those of RTCP
    MaxSize,    \* the longest packet of a client, in bytes
    MaxInput    \* bytes of a client that are not read yet

\* The connections are wired: channels, the bytes that frame them and "no
\* interface" are told apart, and every channel has an interface of its own.
Wired ==
    /\ Dollar \notin Chans /\ Other \notin Chans /\ Dollar # Other
    /\ MaxSize \in Nat
    /\ Table \in [Conns -> [Chans -> Interfaces \union {Null}]]
    /\ Null \notin Interfaces
    /\ \A s, t \in Conns : \A c, d \in Chans :
         Table[s][c] = Table[t][d] /\ Table[s][c] # Null => s = t /\ c = d

VARIABLES
    input,          \* of every client, its bytes that are not read yet
    playing,        \* of every client, the channels it has not torn down
    fSubChannelHashTable,   \* of every socket, the interfaces of its channels
    fTCPReadingState,       \* of every socket
    fStreamChannelId,       \* of every socket, the channel read last
    fNextTCPReadSize,       \* of every interface, what is left of its packet
    fNextTCPReadStreamSocketNum,    \* of every interface, the packet's socket
    misread         \* (history) a byte went to the wrong reader

descriptor == <<fSubChannelHashTable, fTCPReadingState, fStreamChannelId>>
next == <<fNextTCPReadSize, fNextTCPReadStreamSocketNum>>
readvars == <<input, playing, descriptor, next, misread>>

\* A byte of the connection: its value, and (unseen by the code) what it
\* belongs to: a request, a framing header, or a packet of a channel.
Byte(val, of) == [val |-> val, of |-> of]
Request(val) == <<Byte(val, "request")>>
Frame(c, body) ==
    <<Byte(Dollar, "header"), Byte(c, "header"), Byte(Len(body), "header")>>
      \o [n \in 1 .. Len(body) |-> Byte(body[n], c)]

\* A body may hold what looks like the start of a frame.
Bodies == UNION {[1 .. n -> {Dollar, Other}] : n \in 0 .. MaxSize}
-----------------------------------------------------------------------------
ReadInit ==
    /\ input = [s \in Conns |-> <<>>]
    /\ playing = [s \in Conns |-> {c \in Chans : Table[s][c] # Null}]
    /\ fSubChannelHashTable = Table
    /\ fTCPReadingState = [s \in Conns |-> "AWAITING_DOLLAR"]
    /\ fStreamChannelId = [s \in Conns |-> Null]
    /\ fNextTCPReadSize = [i \in Interfaces |-> 0]
    /\ fNextTCPReadStreamSocketNum = [i \in Interfaces |-> Null]
    /\ misread = FALSE

Sends(s, bytes) ==
    /\ Len(input[s]) + Len(bytes) <= MaxInput
    /\ input' = [input EXCEPT ![s] = @ \o bytes]
    /\ UNCHANGED <<descriptor, next, misread>>

ClientAsks(s) == Sends(s, Request(Other)) /\ UNCHANGED playing

ClientReports(s) ==
    \E c \in playing[s], body \in Bodies : Sends(s, Frame(c, body)) /\ UNCHANGED playing

\* The client tears a channel down and sends nothing more on it.
ClientTearsDown(s) ==
    \E c \in playing[s] :
        /\ Sends(s, Request(c))
        /\ playing' = [playing EXCEPT ![s] = @ \ {c}]
-----------------------------------------------------------------------------
(* tcpReadHandler1: one call for every byte, or for a packet's next bytes *)

\* Without registered channels there is no descriptor, and the RTSP side reads.
Described(s) == \E c \in Chans : fSubChannelHashTable[s][c] # Null

Reads(s, state) ==
    /\ Described(s) /\ fTCPReadingState[s] = state /\ input[s] # <<>>
    /\ input' = [input EXCEPT ![s] = Tail(@)]
    /\ UNCHANGED playing

Becomes(s, state) == fTCPReadingState' = [fTCPReadingState EXCEPT ![s] = state]

Expect(ok) == misread' = (misread \/ ~ok)

\* A byte outside of frames is the RTSP side's; a request to tear a channel
\* down is answered by deregisterRTPInterface.
AwaitDollar(s) ==
    LET b == Head(input[s]) IN
    /\ Reads(s, "AWAITING_DOLLAR")
    /\ UNCHANGED <<fStreamChannelId, next>>
    /\ IF b.val = Dollar
       THEN /\ Expect(b.of = "header")
            /\ Becomes(s, "AWAITING_STREAM_CHANNEL_ID")
            /\ UNCHANGED fSubChannelHashTable
       ELSE /\ Expect(b.of = "request")
            /\ fSubChannelHashTable' =
                 IF b.val \in Chans
                 THEN [fSubChannelHashTable EXCEPT ![s][b.val] = Null] ELSE fSubChannelHashTable
            /\ UNCHANGED fTCPReadingState

AwaitChannel(s) ==
    LET b == Head(input[s])
        known == b.val \in Chans /\ fSubChannelHashTable[s][b.val] # Null IN
    /\ Reads(s, "AWAITING_STREAM_CHANNEL_ID")
    /\ Expect(b.of = "header" /\ known)
    /\ fStreamChannelId' = [fStreamChannelId EXCEPT ![s] = IF known THEN b.val ELSE @]
    /\ Becomes(s, IF known THEN "AWAITING_SIZE" ELSE "AWAITING_DOLLAR")
    /\ UNCHANGED <<fSubChannelHashTable, next>>

Interface(s) == fSubChannelHashTable[s][fStreamChannelId[s]]

AwaitSize(s) ==
    LET b == Head(input[s])
        i == Interface(s) IN
    /\ Reads(s, "AWAITING_SIZE")
    /\ Expect(b.of = "header")
    /\ IF i # Null
       THEN /\ fNextTCPReadSize' = [fNextTCPReadSize EXCEPT ![i] = b.val]
            /\ fNextTCPReadStreamSocketNum' = [fNextTCPReadStreamSocketNum EXCEPT ![i] = s]
       ELSE UNCHANGED next
    /\ Becomes(s, "AWAITING_PACKET_DATA")
    /\ UNCHANGED <<fSubChannelHashTable, fStreamChannelId>>

\* The packet is over, or its interface is gone.
AwaitDataEnds(s) ==
    LET i == Interface(s) IN
    /\ Described(s) /\ fTCPReadingState[s] = "AWAITING_PACKET_DATA"
    /\ i = Null \/ fNextTCPReadSize[i] = 0
    /\ Becomes(s, "AWAITING_DOLLAR")
    /\ UNCHANGED <<input, playing, fSubChannelHashTable, fStreamChannelId, next, misread>>

\* The interface has no read handler: its packet is skipped byte by byte.
AwaitDataSkips(s) ==
    LET i == Interface(s) IN
    /\ Reads(s, "AWAITING_PACKET_DATA")
    /\ i \notin Reading \union {Null} /\ fNextTCPReadSize[i] > 0
    /\ Expect(Head(input[s]).of = fStreamChannelId[s])
    /\ fNextTCPReadSize' = [fNextTCPReadSize EXCEPT ![i] = @ - 1]
    /\ UNCHANGED <<descriptor, fNextTCPReadStreamSocketNum>>

\* Fault for the mutants: a packet that has arrived in part counts as read.
AwaitDataForgets(s) ==
    LET i == Interface(s) IN
    /\ Described(s) /\ fTCPReadingState[s] = "AWAITING_PACKET_DATA"
    /\ i \in Reading /\ fNextTCPReadSize[i] > 0
    /\ \E n \in 1 .. Len(input[s]) :
         /\ n <= fNextTCPReadSize[i]
         /\ input' = [input EXCEPT ![s] = SubSeq(@, n + 1, Len(@))]
         /\ Expect(\A m \in 1 .. n : input[s][m].of = fStreamChannelId[s])
    /\ Becomes(s, "AWAITING_DOLLAR")
    /\ UNCHANGED <<playing, fSubChannelHashTable, fStreamChannelId, next>>

\* handleRead: the handler takes what has arrived, n bytes at most to the
\* packet's end, from the socket the interface has noted.
AwaitDataHandled(s) ==
    LET i == Interface(s) IN
    /\ Described(s) /\ fTCPReadingState[s] = "AWAITING_PACKET_DATA"
    /\ i \in Reading /\ fNextTCPReadSize[i] > 0
    /\ LET from == fNextTCPReadStreamSocketNum[i] IN
       \E n \in 1 .. Len(input[from]) :
         /\ n <= fNextTCPReadSize[i]
         /\ input' = [input EXCEPT ![from] = SubSeq(@, n + 1, Len(@))]
         /\ Expect(from = s /\ \A m \in 1 .. n : input[from][m].of = fStreamChannelId[s])
         /\ fNextTCPReadSize' = [fNextTCPReadSize EXCEPT ![i] = @ - n]
         /\ fNextTCPReadStreamSocketNum' =
              [fNextTCPReadStreamSocketNum EXCEPT ![i] = IF n = fNextTCPReadSize[i] THEN Null ELSE @]
    /\ UNCHANGED <<playing, descriptor>>

Handler(s) ==
    \/ AwaitDollar(s) \/ AwaitChannel(s) \/ AwaitSize(s)
    \/ AwaitDataEnds(s) \/ AwaitDataSkips(s) \/ AwaitDataHandled(s)

\* The last channel is torn down: the RTSP side takes the socket back.
RtspReads(s) ==
    /\ ~Described(s) /\ input[s] # <<>>
    /\ input' = [input EXCEPT ![s] = Tail(@)]
    /\ Expect(Head(input[s]).of = "request")
    /\ UNCHANGED <<playing, descriptor, next>>

ReadNext ==
    \E s \in Conns : \/ Handler(s) \/ RtspReads(s)
                     \/ ClientAsks(s) \/ ClientReports(s) \/ ClientTearsDown(s)

ReadSpec == ReadInit /\ [][ReadNext]_readvars
-----------------------------------------------------------------------------
ReaderTypeOK ==
    /\ playing \in [Conns -> SUBSET Chans]
    /\ fSubChannelHashTable \in [Conns -> [Chans -> Interfaces \union {Null}]]
    /\ fTCPReadingState \in [Conns -> {"AWAITING_DOLLAR", "AWAITING_STREAM_CHANNEL_ID",
                                       "AWAITING_SIZE", "AWAITING_PACKET_DATA"}]
    /\ fStreamChannelId \in [Conns -> Chans \union {Null}]
    /\ fNextTCPReadSize \in [Interfaces -> 0 .. MaxSize]
    /\ fNextTCPReadStreamSocketNum \in [Interfaces -> Conns \union {Null}]
    /\ misread \in BOOLEAN

\* However the bytes of a client arrive, each goes to its reader: requests to
\* the RTSP side, packets to the interface of their channel, headers to none;
\* also around the tear-down of a channel.
PiecesApart == ~misread
=============================================================================
