----------------------------- MODULE PtzControl -----------------------------
(***************************************************************************)
(* The three ways to move the camera together: the pad with its CGI        *)
(* processes, ptz from a shell, and the ONVIF daemon send to one queue,    *)
(* and none of them knows of the others.                                   *)
(***************************************************************************)
EXTENDS PtzCgi, Onvif

vars == <<ipc, cgivars, onvifvars>>

Init == QueueInit /\ CgiInit /\ OnvifInit

ProcessStep(c) == (CgiStep(c) \/ CapStep(c)) /\ UNCHANGED <<page, shells, onvifvars>>

Next ==
    \/ CgiNext /\ UNCHANGED onvifvars
    \/ OnvifNext /\ UNCHANGED cgivars
    \/ AppStep /\ UNCHANGED <<cgivars, onvifvars>>

Spec == Init /\ [][Next]_vars

\* Processes, the daemon and the app run.  No user, page or client has to do
\* anything, no request has to get to httpd.
FairSpec ==
    /\ Spec
    /\ \A c \in Pids : WF_vars(ProcessStep(c))
    /\ WF_vars(DaemonStep /\ UNCHANGED cgivars)
    /\ WF_vars(AppStep /\ UNCHANGED <<cgivars, onvifvars>>)
-----------------------------------------------------------------------------
(* Safety *)

TypeOK == QueueTypeOK /\ CgiTypeOK /\ OnvifTypeOK

\* When no process is in the middle of its work and none has overlapped
\* another, /tmp/ptz_active names the latest command if that is a move, and
\* there is no file if it is a stop (ptz.c 222-235).
TokenTells ==
    (~mishap /\ \A c \in Pids : ~Midway(c))
      => token = IF lastcmd # 0 /\ cgi[lastcmd].cmd \in Moves THEN lastcmd ELSE None

Drives(e) == e.op \in {"move", "stop"}

\* The motor obeys e once what is queued has been taken.
Obeyed(e) ==
    LET Overridden(i) == \E j \in DOMAIN queue : j > i /\ Drives(queue[j])
    IN  \/ \E i \in DOMAIN queue : queue[i] = e /\ Drives(e) /\ ~Overridden(i)
        \/ motor = e /\ ~Overridden(0)

\* Somebody is left who will stop a moving camera: the process of the move,
\* its cap, which has not been talked out of it, or the daemon's g_move_at
\* (ptz.c 236-254, onvif.c 463, 893).
Watched ==
    \A e \in {motor} \union {queue[i] : i \in DOMAIN queue} :
      (e.op = "move" /\ Obeyed(e)) =>
        /\ e.from = "onvif" => g_move_at
        /\ e.from = "cgi" /\ ~mishap =>
             /\ e.id = lastcmd
             /\ cgi[e.id].cap \in {"asleep", "stop"} \/ cgi[e.id].pc # "done"

\* The pad shows what it has done: with its chain empty and all its commands
\* sent in their order, the camera stands or moves where the page shows
\* (index.html 60-76).
PadShows ==
    ( /\ queue = <<>> /\ ~overtaken
      /\ \A p \in Pages : chain[p] = <<>> /\ flight[p] = 0 /\ ~failed[p]
      /\ \A c \in Pids : cgi[c].pc \notin {"reply", "send"} )
      => \/ motor.op = "stop" \/ motor.from # "cgi"
         \/ \E p \in Pages : moving[p] # "no" /\ motor.arg = DirValue(moving[p])

\* A cap that decides to stop the camera does so for the latest command, a
\* move (ptz.c 245-253).
CapIsDue ==
    [][\A c \in Pids :
         (cgi[c].cap = "asleep" /\ cgi'[c].cap = "stop"
            /\ ~mishap /\ \A d \in Pids : ~Midway(d))
           => lastcmd = c /\ cgi[c].cmd \in Moves]_vars

\* ptz.c 174-175: a stale cap never stops a newer move.
NoStaleCap ==
    [][motor'.op = "stop" /\ motor.op = "move" /\ motor.from = "cgi"
         /\ queue # <<>> /\ Head(queue).from = "cap"
         => motor.id = Head(queue).id]_vars

\* index.html 57-58: a stop always reaches the camera before the next press's
\* move.
StopBeforeNextMove ==
    [][\A c \in Pids, stop \in Pids :
         (stop < c /\ cgi[stop].cmd = "stop" /\ ~\E p \in Pages : failed[p]
            /\ cgi[c].pc = "send" /\ cgi'[c].pc = "open")
           => cgi[stop].pc \notin {"reply", "send"}]_vars
-----------------------------------------------------------------------------
(* Safety of the daemon *)

\* A request in as many segments as may be is handled when it is whole, if
\* its client said how long it is and sent all of it (onvif.c 714-757).
WholeRequest ==
    (pc = "handle" /\ req.cl /\ given = Size(req) /\ Size(req) < Cap) => n = given

\* The handler that is called is that of the method that was asked, and it is
\* called when there is one (onvif.c 798-845).
RightHandler ==
    (did # Nothing /\ n >= req.hdr) =>
      did.handler = IF req.action \in Range(Routes) THEN req.action ELSE NoAction

\* The component of a velocity in a direction of the envelope.
Along(dir, x, y) == CASE dir = 1 -> -y [] dir = 2 -> y [] dir = 3 -> -x [] dir = 4 -> x

\* A move goes in the direction in which the velocity is greatest, one of no
\* velocity is a stop, and a preset command is for the preset of its token
\* (onvif.c 429-513).
OrdersAsAsked ==
    (req.cl /\ n = Size(req)) =>
      \A o \in did.orders :
        CASE did.handler = Move ->
               IF req.x = 0 /\ req.y = 0 THEN o.op = "stop"
               ELSE /\ o.op = "move" /\ o.arg \in 1 .. 4
                    /\ \A d \in 1 .. 4 :
                         Along(o.arg, req.x, req.y) >= Along(d, req.x, req.y)
          [] did.handler = Stop       -> o.op = "stop"
          [] did.handler = SetPreset  -> o.op = "preset"
          [] did.handler = GotoPreset ->
               o.op = "preset" /\ (req.token \in 1 .. 4 => o.arg = req.token)

\* An answer that names the camera names an address that wlan0 had while the
\* request was served, unless it had none (onvif.c 224-243, 778-779).
AddressFresh ==
    did.handler \in Addressed => did.ip \in worn \/ NoAddress \in worn
-----------------------------------------------------------------------------
(* Liveness *)

\* A move from the pad ends, whatever becomes of the page, unless two
\* commands overlapped or a token or a process could not be made (ptz.c
\* 171-175).
CgiCapped == [](~mishap) => []<>(motor.op = "stop" \/ motor.from # "cgi")

\* A move by ONVIF ends when its client has vanished and no other client
\* comes (onvif.c 18-19, 891-897).
OnvifCapped == <>[](pc = "select") => []<>(motor.op = "stop" \/ motor.from # "onvif")
=============================================================================
