------------------------------- MODULE PtzQueue -------------------------------
(***************************************************************************)
(* The way to the motor: the stock app's message queue /ipc_dispatch, to   *)
(* which src/src/ptz/ptz.c and src/src/onvif/onvif.c send their envelopes, *)
(* and dispatch, the process of the app that takes them and drives the     *)
(* motor.  Queue and dispatch are not in the repository.                   *)
(***************************************************************************)
EXTENDS Integers, Sequences

CONSTANTS
    QueueLen    \* mq_maxmsg of the queue

ASSUME QueueAssumption == QueueLen \in Nat \ {0}

VARIABLES
    up,         \* the app has created the queue
    queue,      \* envelopes in the queue
    motor       \* the envelope that moves the motor, or Still

ipc == <<up, queue, motor>>

\* The direction field of an envelope; 0 is no direction.
DirValue(dir) == CASE dir = "up"    -> 2
                   [] dir = "down"  -> 1
                   [] dir = "left"  -> 3
                   [] dir = "right" -> 4
                   [] OTHER         -> 0

\* An envelope: what it asks for, its direction or preset, and, which the
\* code does not send along, who sent it.
Envelope == [op : {"move", "stop", "light", "preset"}, arg : 0 .. 4,
             from : {"cgi", "cap", "shell", "onvif"}, id : Nat]

Still == [op |-> "stop", arg |-> 0, from |-> "shell", id |-> 0]

QueueInit ==
    /\ up \in BOOLEAN
    /\ queue = <<>>
    /\ motor = Still

\* mq_open fails while there is no queue; mq_send waits while it is full.
Post(e) ==
    IF up THEN Len(queue) < QueueLen /\ queue' = Append(queue, e)
          ELSE UNCHANGED queue

\* The app comes up and creates the queue.
AppUp ==
    /\ ~up
    /\ up' = TRUE
    /\ UNCHANGED <<queue, motor>>

\* dispatch takes an envelope.  A light mode leaves the motor alone, a preset
\* is driven to by the app itself.
Dispatch ==
    /\ queue # <<>>
    /\ motor' = CASE Head(queue).op = "move" -> Head(queue)
                  [] Head(queue).op = "stop" -> Still
                  [] OTHER                   -> motor
    /\ queue' = Tail(queue)
    /\ UNCHANGED up

AppStep == AppUp \/ Dispatch

QueueTypeOK ==
    /\ up \in BOOLEAN
    /\ queue \in Seq(Envelope) /\ Len(queue) <= QueueLen
    /\ motor \in Envelope
=============================================================================
