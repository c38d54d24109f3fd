----------------------------- MODULE RtpOverTcp -----------------------------
(***************************************************************************)
(* RTP and RTCP packets are sent over the clients' RTSP connections by the *)
(* server's only thread.  An RTP interface (one for the packets of a       *)
(* stream, one for its RTCP) keeps a list of the sockets it sends on, and  *)
(* a socket's descriptor keeps the interfaces that are registered with it. *)
(* A frame is HDR cells ('$', channel, size) and the cells of a packet; a  *)
(* send takes as many as the kernel has room for.                          *)
(***************************************************************************)
EXTENDS Integers, SequencesExt

CONSTANTS
    Ifaces,     \* RTP interfaces
    Socks,      \* socket numbers of RTSP connections
    None,       \* the NULL at the end of a list
    Prompt,     \* sockets whose client reads a cell in every tick of the clock
    HDR,        \* cells of a framing header (4 bytes)
    MaxPacket,  \* the longest packet, in cells
    SNDBUF,     \* cells of a socket's send buffer
    BUDGET      \* RTPINTERFACE_BLOCKING_WRITE_TIMEOUT_MS, in ticks

ASSUME TcpAssumption ==
    /\ None \notin Socks /\ Prompt \subseteq Socks
    /\ HDR \in Nat \ {0} /\ MaxPacket \in Nat \ {0}
    /\ SNDBUF \in Nat \ {0} /\ BUDGET \in Nat \ {0}

VARIABLES
    fTCPStreams,    \* of every interface, the sockets it sends on, newest first
    subChannels,    \* of every socket, the interfaces in its descriptor's table
    room,           \* cells the kernel would take for a socket now
    dead,           \* sockets whose connection has failed
    pc,             \* of sendPacket: "idle", "send", "retry" or "poll"
    iface, size,    \* whose packet it is and how long
    stream,         \* the socket that is being served
    nextStream,     \* the one after it, read before it is served
    sent,           \* cells of the frame that are out
    elapsed,        \* since this sendDataOverTCP began to wait
    wire,           \* (history) cells of the last frame on a socket, 0 if it is whole
    cut,            \* (history) sockets on which a frame was given up half sent
    spoilt,         \* (history) sockets on which a frame began inside another
    held,           \* (history) ticks spent on the socket being served
    left            \* (history) sockets the packet has still to be offered to

lists == <<fTCPStreams, subChannels>>
packet == <<iface, size>>
walk == <<stream, nextStream, left>>
history == <<wire, cut, spoilt>>
vars == <<lists, room, dead, pc, packet, walk, sent, elapsed, history, held>>

Sending == pc # "idle"

\* The record behind socket s in a list.
After(list, s) ==
    IF \E t \in Socks, n \in 1 .. Len(list) - 1 : list[n] = s /\ list[n + 1] = t
    THEN CHOOSE t \in Socks : \E n \in 1 .. Len(list) - 1 : list[n] = s /\ list[n + 1] = t
    ELSE None

\* The list without the record of socket s (there is at most one).
Without(list, s) ==
    IF Contains(list, s)
    THEN RemoveAt(list, CHOOSE n \in 1 .. Len(list) : list[n] = s) ELSE list

\* removeStreamSocket of one interface, with deregisterSocket.
removeStreamSocket(i, s) ==
    /\ fTCPStreams' = [fTCPStreams EXCEPT ![i] = Without(@, s)]
    /\ subChannels' = IF Contains(fTCPStreams[i], s)
                      THEN [subChannels EXCEPT ![s] = @ \ {i}] ELSE subChannels
-----------------------------------------------------------------------------
TcpInit ==
    /\ fTCPStreams = [i \in Ifaces |-> <<>>] /\ subChannels = [s \in Socks |-> {}]
    /\ room = [s \in Socks |-> SNDBUF] /\ dead = {}
    /\ pc = "idle" /\ iface \in Ifaces /\ size = 1
    /\ stream = None /\ nextStream = None /\ sent = 0 /\ elapsed = 0
    /\ wire = [s \in Socks |-> 0] /\ cut = {} /\ spoilt = {}
    /\ held = 0 /\ left = {}

(* What the RTSP side and the event loop do between packets *)

\* addStreamSocket: a client plays a stream.
addStreamSocket(i, s) ==
    /\ ~Sending /\ ~Contains(fTCPStreams[i], s)
    /\ fTCPStreams' = [fTCPStreams EXCEPT ![i] = <<s>> \o @]
    /\ subChannels' = [subChannels EXCEPT ![s] = @ \union {i}]
    /\ UNCHANGED <<room, dead, pc, packet, walk, sent, elapsed, history, held>>

\* A client tears a stream down.
Teardown(i, s) ==
    /\ ~Sending /\ Contains(fTCPStreams[i], s)
    /\ removeStreamSocket(i, s)
    /\ UNCHANGED <<room, dead, pc, packet, walk, sent, elapsed, history, held>>

\* ~RTPInterface: stopNetworkReading and the end of the list.
CloseInterface(i) ==
    /\ ~Sending /\ fTCPStreams[i] # <<>>
    /\ subChannels' = [s \in Socks |-> IF Contains(fTCPStreams[i], s)
                                       THEN subChannels[s] \ {i} ELSE subChannels[s]]
    /\ fTCPStreams' = [fTCPStreams EXCEPT ![i] = <<>>]
    /\ UNCHANGED <<room, dead, pc, packet, walk, sent, elapsed, history, held>>

\* Fault for the mutants: the interfaces keep the socket.
ReadFailsQuietly(s) ==
    /\ ~Sending /\ s \in dead /\ subChannels[s] # {}
    /\ subChannels' = [subChannels EXCEPT ![s] = {}]
    /\ UNCHANGED <<fTCPStreams, room, dead, pc, packet, walk, sent, elapsed, history, held>>

\* The descriptor's read fails: it deletes itself, and every interface of its
\* table forgets the socket.
ReadFails(s) ==
    /\ ~Sending /\ s \in dead /\ subChannels[s] # {}
    /\ fTCPStreams' = [i \in Ifaces |-> IF i \in subChannels[s]
                                        THEN Without(fTCPStreams[i], s) ELSE fTCPStreams[i]]
    /\ subChannels' = [subChannels EXCEPT ![s] = {}]
    /\ UNCHANGED <<room, dead, pc, packet, walk, sent, elapsed, history, held>>
-----------------------------------------------------------------------------
(* sendPacket: the frame goes to every socket of the list in turn *)

\* Go on with socket s of the interface's list; its record's link is read now.
Visit(i, s) ==
    /\ stream' = s /\ nextStream' = After(fTCPStreams'[i], s)
    /\ pc' = "send" /\ sent' = 0 /\ elapsed' = 0 /\ held' = 0

sendPacket(i, n) ==
    /\ ~Sending /\ fTCPStreams[i] # <<>>
    /\ UNCHANGED <<lists, room, dead, history>>
    /\ iface' = i /\ size' = n
    /\ Visit(i, Head(fTCPStreams[i]))
    /\ left' = ToSet(fTCPStreams[i])

\* Fault for the mutants: the link is read from the record after it was served.
NextStreamLate ==
    /\ IF After(fTCPStreams'[iface], stream) = None
       THEN /\ stream' = None /\ nextStream' = None
            /\ pc' = "idle" /\ sent' = 0 /\ elapsed' = 0 /\ held' = 0
       ELSE Visit(iface, After(fTCPStreams'[iface], stream))
    /\ left' = left \ {stream}
    /\ UNCHANGED packet

NextStream ==
    /\ IF nextStream = None
       THEN /\ stream' = None /\ nextStream' = None
            /\ pc' = "idle" /\ sent' = 0 /\ elapsed' = 0 /\ held' = 0
       ELSE Visit(iface, nextStream)
    /\ left' = left \ {stream}
    /\ UNCHANGED packet

\* Header and packet are two calls of sendDataOverTCP, and so is the goal.
Goal == IF sent < HDR THEN HDR ELSE HDR + size
forceSendToSucceed == sent >= HDR

\* The kernel takes n cells; the last ones end the frame.
Out(n) ==
    /\ room' = [room EXCEPT ![stream] = @ - n]
    /\ wire' = [wire EXCEPT ![stream] = IF sent + n = HDR + size THEN 0 ELSE sent + n]
    /\ spoilt' = IF wire[stream] = sent THEN spoilt ELSE spoilt \union {stream}
    /\ UNCHANGED <<cut, dead>>

\* All cells of this call are out: the packet follows its header, the next
\* socket follows the packet.
Completed ==
    /\ UNCHANGED lists
    /\ Out(Goal - sent)
    /\ IF forceSendToSucceed
       THEN NextStream
       ELSE /\ sent' = HDR /\ pc' = "send" /\ elapsed' = 0
            /\ UNCHANGED <<packet, walk, held>>

\* The interface stops using the socket, which keeps what is out of the frame.
Drop ==
    /\ removeStreamSocket(iface, stream)
    /\ cut' = IF sent > 0 THEN cut \union {stream} ELSE cut
    /\ NextStream
    /\ UNCHANGED <<room, dead, wire, spoilt>>

\* The first send of sendDataOverTCP failed for good.
SendFails ==
    /\ pc = "send" /\ stream \in dead
    /\ Drop

\* It took everything.
SendAll ==
    /\ pc = "send" /\ stream \notin dead /\ room[stream] >= Goal - sent
    /\ Completed

\* Faults for the mutants: a part of a frame is left at that, ...
SendPartLeaves ==
    /\ pc = "send" /\ stream \notin dead /\ room[stream] < Goal - sent
    /\ room[stream] > 0
    /\ Out(room[stream])
    /\ UNCHANGED lists
    /\ NextStream

\* ... or costs the client its stream, as before the wait was added.
SendPartDrops ==
    /\ pc = "send" /\ stream \notin dead /\ room[stream] < Goal - sent
    /\ room[stream] > 0 \/ forceSendToSucceed
    /\ Drop

\* It took a part, or nothing of a packet whose header is out: wait for room.
SendPart ==
    /\ pc = "send" /\ stream \notin dead /\ room[stream] < Goal - sent
    /\ room[stream] > 0 \/ forceSendToSucceed
    /\ IF room[stream] > 0 THEN Out(room[stream]) ELSE UNCHANGED <<room, dead, history>>
    /\ sent' = sent + room[stream] /\ pc' = "retry" /\ elapsed' = 0
    /\ UNCHANGED <<lists, packet, walk, held>>

\* It took nothing of a header: this packet is not for this socket.
SendNothing ==
    /\ pc = "send" /\ stream \notin dead /\ room[stream] = 0 /\ ~forceSendToSucceed
    /\ UNCHANGED <<lists, room, dead, history>>
    /\ NextStream

\* Fault for the mutants: every cell that gets out renews the budget.
RetrySendsAnew ==
    /\ pc = "retry" /\ stream \notin dead /\ room[stream] > 0
    /\ \/ /\ room[stream] >= Goal - sent
          /\ Completed
       \/ /\ room[stream] < Goal - sent
          /\ Out(room[stream])
          /\ sent' = sent + room[stream] /\ elapsed' = 0
          /\ UNCHANGED <<lists, pc, packet, walk, held>>

\* The wait: send what there is room for, ...
RetrySends ==
    /\ pc = "retry" /\ stream \notin dead /\ room[stream] > 0
    /\ \/ /\ room[stream] >= Goal - sent
          /\ Completed
       \/ /\ room[stream] < Goal - sent
          /\ Out(room[stream])
          /\ sent' = sent + room[stream]
          /\ UNCHANGED <<lists, pc, packet, walk, elapsed, held>>

\* ... give up when the connection fails or the budget is spent, ...
RetryFails ==
    /\ pc = "retry"
    /\ stream \in dead \/ (room[stream] = 0 /\ elapsed >= BUDGET)
    /\ Drop

\* ... and poll for room otherwise.
RetryPolls ==
    /\ pc = "retry" /\ stream \notin dead /\ room[stream] = 0 /\ elapsed < BUDGET
    /\ pc' = "poll"
    /\ UNCHANGED <<lists, room, dead, packet, walk, sent, elapsed, history, held>>

\* Fault for the mutants: poll without its timeout.
PollForever ==
    /\ pc = "poll"
    /\ stream \in dead \/ room[stream] > 0
    /\ pc' = "retry"
    /\ UNCHANGED <<lists, room, dead, packet, walk, sent, elapsed, history, held>>

PollReturns ==
    /\ pc = "poll"
    /\ stream \in dead \/ room[stream] > 0 \/ elapsed >= BUDGET
    /\ pc' = "retry"
    /\ UNCHANGED <<lists, room, dead, packet, walk, sent, elapsed, history, held>>

\* Time passes while poll waits; clients that keep reading make room.
Tick ==
    /\ pc = "poll" /\ stream \notin dead /\ room[stream] = 0 /\ elapsed < BUDGET
    /\ elapsed' = elapsed + 1 /\ held' = held + 1
    /\ room' = [s \in Socks |-> IF s \in Prompt /\ room[s] < SNDBUF
                                THEN room[s] + 1 ELSE room[s]]
    /\ UNCHANGED <<lists, dead, pc, packet, walk, sent, history>>
-----------------------------------------------------------------------------
(* Clients and the kernel *)

ClientReads(s) ==
    /\ room[s] < SNDBUF
    /\ room' = [room EXCEPT ![s] = @ + 1]
    /\ UNCHANGED <<lists, dead, pc, packet, walk, sent, elapsed, history, held>>

ConnectionFails(s) ==
    /\ s \notin dead
    /\ dead' = dead \union {s}
    /\ UNCHANGED <<lists, room, pc, packet, walk, sent, elapsed, history, held>>

\* Without a descriptor the RTSP side reads the socket again: it finds the
\* connection closed, and the number goes to the next client.
Reopen(s) ==
    /\ ~Sending /\ subChannels[s] = {} /\ s \in dead
    /\ room' = [room EXCEPT ![s] = SNDBUF] /\ dead' = dead \ {s}
    /\ wire' = [wire EXCEPT ![s] = 0] /\ cut' = cut \ {s} /\ spoilt' = spoilt \ {s}
    /\ UNCHANGED <<lists, pc, packet, walk, sent, elapsed, held>>

Server == \/ SendFails \/ SendAll \/ SendPart \/ SendNothing
          \/ RetrySends \/ RetryFails \/ RetryPolls \/ PollReturns

EventLoop ==
    \/ \E i \in Ifaces, n \in 1 .. MaxPacket : sendPacket(i, n)
    \/ \E i \in Ifaces, s \in Socks : addStreamSocket(i, s) \/ Teardown(i, s)
    \/ \E i \in Ifaces : CloseInterface(i)
    \/ \E s \in Socks : ReadFails(s)

Clients == \E s \in Socks : ClientReads(s) \/ ConnectionFails(s) \/ Reopen(s)

TcpNext == Server \/ Tick \/ EventLoop \/ Clients

\* The thread runs its code to the next wait, and time passes.
TcpFairness == WF_vars(Server) /\ WF_vars(Tick)

TcpSpec == TcpInit /\ [][TcpNext]_vars /\ TcpFairness
-----------------------------------------------------------------------------
TypeOK ==
    /\ fTCPStreams \in [Ifaces -> Seq(Socks)] /\ subChannels \in [Socks -> SUBSET Ifaces]
    /\ room \in [Socks -> 0 .. SNDBUF] /\ dead \subseteq Socks
    /\ pc \in {"idle", "send", "retry", "poll"}
    /\ iface \in Ifaces /\ size \in 1 .. MaxPacket
    /\ stream \in Socks \union {None} /\ nextStream \in Socks \union {None}
    /\ sent \in 0 .. HDR + size /\ elapsed \in 0 .. BUDGET /\ held \in Nat
    /\ wire \in [Socks -> 0 .. HDR + MaxPacket]
    /\ cut \subseteq Socks /\ spoilt \subseteq Socks /\ left \subseteq Socks

\* On a connection on which no frame was given up half sent, every frame
\* begins where the one before ended, whichever interfaces share the socket
\* and however full its buffer was.
FramesWhole == spoilt \subseteq cut

\* A packet is offered to every socket of the list, also when the stream
\* being served is removed from the list on the way.
EachOffered == ~Sending => left = {}

\* No client holds the server's only thread for more than the budget of the
\* header's wait and that of the packet's.
HeldBriefly == held <= 2 * BUDGET

\* An interface sends on exactly the sockets whose descriptor knows it; so a
\* socket number that goes to the next client is on nobody's list.
Registered == \A i \in Ifaces, s \in Socks : Contains(fTCPStreams[i], s) <=> i \in subChannels[s]

\* A client that keeps reading is never dropped for its full buffer.
PromptKept ==
    [][Sending => \A i \in Ifaces, s \in Prompt \ dead :
          Contains(fTCPStreams[i], s) => Contains(fTCPStreams'[i], s)]_vars

\* sendPacket ends, whether or not any client reads.
SendEnds == Sending ~> ~Sending

\* "stop using it (for both RTP and RTCP)": what the comment at line 424 says
\* of a socket on which a send has failed.
BothStop ==
    [][SendFails => \A i \in Ifaces : ~Contains(fTCPStreams'[i], stream)]_vars
=============================================================================
