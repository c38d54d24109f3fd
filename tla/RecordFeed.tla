------------------------------ MODULE RecordFeed ------------------------------
(***************************************************************************)
(* What a reader of the shared frame buffer promises its client, without   *)
(* ring, header words or slots: an application writes records, and the     *)
(* feed is a strictly advancing selection of those of the wanted class.    *)
(* It may leave records out, it never repeats one, never goes back, and    *)
(* never passes on a record of another class.  A new incarnation of the    *)
(* reader starts an empty feed.                                            *)
(***************************************************************************)
EXTENDS Integers, Sequences

CONSTANTS
    Kinds,      \* the classes of record there are
    MyKind      \* the class this feed selects

VARIABLES
    written,    \* the class of each record written so far
    fed         \* the indices, in written, of the records passed on

feedVars == <<written, fed>>

Init == written = <<>> /\ fed = <<>>

Write == /\ \E c \in Kinds : written' = Append(written, c)
         /\ UNCHANGED fed

Pass == /\ \E n \in 1 .. Len(written) :
             /\ written[n] = MyKind
             /\ \A i \in 1 .. Len(fed) : fed[i] < n
             /\ fed' = Append(fed, n)
        /\ UNCHANGED written

Restart == fed' = <<>> /\ UNCHANGED written

Next == Write \/ Pass \/ Restart

Spec == Init /\ [][Next]_feedVars
=============================================================================
