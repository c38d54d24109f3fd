---------------------------- MODULE MCRtpOverTcp ----------------------------
(***************************************************************************)
(* An instance for TLC of the two directions of RTP over TCP.  They meet   *)
(* in the tables of the descriptors only, which RtpTcpRead keeps by itself *)
(* (a channel goes when its tear-down is read), so what one direction does *)
(* says nothing about the other: a behaviour looks at one of them, while   *)
(* the other has not begun.                                                *)
(***************************************************************************)
EXTENDS RtpOverTcp, RtpTcpRead

VARIABLE side   \* the direction a behaviour looks at

\* Every client has an interface for each of its channels; the one of its RTCP
\* has a read handler.
MCInterfaces == Conns \X Chans
MCTable == [s \in Conns |-> [c \in Chans |-> <<s, c>>]]
MCReading == Conns \X {CHOOSE c \in Chans : TRUE}

ASSUME ReadingWired == Wired

MCInit == TcpInit /\ ReadInit /\ side \in {"send", "read"}

MCNext ==
    /\ \/ side = "send" /\ TcpNext /\ UNCHANGED readvars
       \/ side = "read" /\ ReadNext /\ UNCHANGED vars
    /\ UNCHANGED side

MCSpec == MCInit /\ [][MCNext]_<<vars, readvars, side>> /\ TcpFairness
=============================================================================
