------------------------------- MODULE PtzCgi --------------------------------
(***************************************************************************)
(* Press-and-hold control of the motor: the pad of                         *)
(* src/deploy/hack/www/index.html, the CGI processes of src/src/ptz/ptz.c  *)
(* that httpd starts for its requests, their token file /tmp/ptz_active,   *)
(* and the process each move leaves behind to stop the camera after ten    *)
(* seconds (the cap).                                                      *)
(*                                                                         *)
(* Time is not modelled: a cap may wake at any moment after its move.      *)
(***************************************************************************)
EXTENDS PtzQueue

CONSTANTS
    Pages,      \* open web pages
    Buttons,    \* directions the pages offer
    Pids,       \* processes that may be started for requests
    MaxAsks,    \* bound: presses and light commands per page
    MaxShell    \* bound: envelopes sent by ptz from a shell

ASSUME CgiAssumption ==
    /\ Pids \subseteq Nat \ {0}
    /\ MaxAsks \in Nat /\ MaxShell \in Nat

Moves == {"up", "down", "left", "right"}
ASSUME ButtonAssumption == Buttons \subseteq Moves

Commands == Moves \union {"stop", "light"}

\* What /tmp/ptz_active may hold beside a pid: there is no file, the file has
\* been truncated, it holds the digits of two pids one over the other.
None == 0
Empty == -1
Garbled == -2

VARIABLES
    cgi,        \* the processes: command, where in cgi_mode, cap, open token
    token,      \* what /tmp/ptz_active holds
    moving,     \* per page: the script's variable, "no" for null
    chain,      \* per page: commands in the promise chain, not yet fetched
    flight,     \* per page: the process that serves the running fetch, or 0
    asks,       \* per page: presses and light commands
    shells,     \* envelopes sent from a shell
    \* history variables
    lastcmd,    \* the process that sent the latest move or stop
    mishap,     \* two commands overlapped, or a token or a cap was not made
    overtaken,  \* a command was sent before that of an earlier process
    failed      \* per page: a fetch has failed or the page was left

page == <<moving, chain, flight, asks, failed>>
cgivars == <<cgi, token, page, shells, lastcmd, mishap, overtaken>>

Unused == [cmd |-> "stop", pc |-> "none", cap |-> "none", holds |-> FALSE]

CgiInit ==
    /\ cgi = [c \in Pids |-> Unused]
    /\ token = None
    /\ moving = [p \in Pages |-> "no"]
    /\ chain = [p \in Pages |-> <<>>]
    /\ flight = [p \in Pages |-> 0]
    /\ asks = [p \in Pages |-> 0] /\ shells = 0
    /\ lastcmd = 0 /\ mishap = FALSE /\ overtaken = FALSE
    /\ failed = [p \in Pages |-> FALSE]

\* Between its envelope and the end of its work on the token.
Midway(c) == cgi[c].pc \in {"open", "write", "unlink"}
-----------------------------------------------------------------------------
(* The page *)

Enqueue(p, cmd) == chain' = [chain EXCEPT ![p] = Append(@, cmd)]
Ask(p) == asks[p] < MaxAsks /\ asks' = [asks EXCEPT ![p] = @ + 1]

Press(p, dir) ==
    /\ Ask(p)
    /\ Enqueue(p, dir)
    /\ moving' = [moving EXCEPT ![p] = dir]
    /\ UNCHANGED <<flight, failed>>

\* Mutant of StopMove: a release while a fetch runs sends nothing.
StopMoveIdle(p) ==
    /\ IF moving[p] # "no" /\ flight[p] = 0
         THEN Enqueue(p, "stop") ELSE UNCHANGED chain
    /\ moving' = [moving EXCEPT ![p] = "no"]
    /\ UNCHANGED <<flight, asks, failed>>

\* Release of the button, loss of focus, the stop button.
StopMove(p) ==
    /\ IF moving[p] # "no" THEN Enqueue(p, "stop") ELSE UNCHANGED chain
    /\ moving' = [moving EXCEPT ![p] = "no"]
    /\ UNCHANGED <<flight, asks, failed>>

Light(p) ==
    /\ Ask(p)
    /\ Enqueue(p, "light")
    /\ UNCHANGED <<moving, flight, failed>>

\* The page is closed: whatever is left of its chain is not fetched.
Leave(p) ==
    /\ chain' = [chain EXCEPT ![p] = <<>>]
    /\ flight' = [flight EXCEPT ![p] = 0]
    /\ moving' = [moving EXCEPT ![p] = "no"]
    /\ failed' = [failed EXCEPT ![p] = TRUE]
    /\ UNCHANGED asks

\* The catch of a fetch: that of a light command keeps moving.
Catch(p, cmd) ==
    /\ moving' = IF cmd = "light" THEN moving ELSE [moving EXCEPT ![p] = "no"]
    /\ failed' = [failed EXCEPT ![p] = TRUE]

\* The next link of the chain: httpd starts a process for the request, or
\* the request does not get there.
Fetch(p) ==
    /\ chain[p] # <<>> /\ flight[p] = 0
    /\ chain' = [chain EXCEPT ![p] = Tail(@)]
    /\ \/ \E c \in Pids :
            /\ cgi[c].pc = "none"
            /\ \A d \in Pids : d < c => cgi[d].pc # "none"
            /\ cgi' = [cgi EXCEPT ![c] = [Unused EXCEPT !.cmd = Head(chain[p]),
                                                        !.pc = "reply"]]
            /\ flight' = [flight EXCEPT ![p] = c]
            /\ UNCHANGED <<moving, failed>>
       \/ Catch(p, Head(chain[p])) /\ UNCHANGED <<cgi, flight>>
    /\ UNCHANGED asks

\* The fetch is resolved by the head of the answer, or it fails.
Answered(p) ==
    /\ flight[p] # 0
    /\ flight' = [flight EXCEPT ![p] = 0]
    /\ UNCHANGED <<chain, asks>>
    /\ \/ cgi[flight[p]].pc # "reply" /\ UNCHANGED <<moving, failed>>
       \/ Catch(p, cgi[flight[p]].cmd)

PageStep(p) ==
    \/ /\ \/ \E dir \in Buttons : Press(p, dir)
          \/ StopMove(p) \/ Light(p) \/ Leave(p) \/ Answered(p)
       /\ UNCHANGED <<cgi, token, shells, lastcmd, mishap, overtaken, ipc>>
    \/ Fetch(p) /\ UNCHANGED <<token, shells, lastcmd, mishap, overtaken, ipc>>
-----------------------------------------------------------------------------
(* cgi_mode *)

At(c, pc) == cgi[c].pc = pc
Goto(c, pc) == cgi' = [cgi EXCEPT ![c].pc = pc]

\* The answer is written and flushed before anything is done.
Reply(c) ==
    /\ At(c, "reply")
    /\ Goto(c, "send")
    /\ UNCHANGED <<token, lastcmd, mishap, overtaken, ipc>>

\* What a request asks for; an unknown direction is a stop.
Message(cmd, from, id) ==
    [op |-> IF cmd \in Moves THEN "move" ELSE cmd,
     arg |-> DirValue(cmd), from |-> from, id |-> id]

\* Mutant of Command: a light command removes the token.
CommandLight(c) ==
    /\ At(c, "send")
    /\ Post(Message(cgi[c].cmd, "cgi", c))
    /\ Goto(c, CASE cgi[c].cmd \in Moves -> "open"
                  [] cgi[c].cmd = "stop"  -> "unlink"
                  [] cgi[c].cmd = "light" -> "unlink")
    /\ IF cgi[c].cmd = "light" THEN UNCHANGED <<lastcmd, mishap, overtaken>>
       ELSE /\ lastcmd' = c
            /\ mishap' = (mishap \/ \E d \in Pids : Midway(d))
            /\ overtaken' = (overtaken \/ \E d \in Pids :
                                d < c /\ cgi[d].pc \in {"reply", "send"})
    /\ UNCHANGED <<token, up, motor>>

\* cmd_move, cmd_stop or cmd_light_mode.
Command(c) ==
    /\ At(c, "send")
    /\ Post(Message(cgi[c].cmd, "cgi", c))
    /\ Goto(c, CASE cgi[c].cmd \in Moves -> "open"
                  [] cgi[c].cmd = "stop"  -> "unlink"
                  [] cgi[c].cmd = "light" -> "done")
    /\ IF cgi[c].cmd = "light" THEN UNCHANGED <<lastcmd, mishap, overtaken>>
       ELSE /\ lastcmd' = c
            /\ mishap' = (mishap \/ \E d \in Pids : Midway(d))
            /\ overtaken' = (overtaken \/ \E d \in Pids :
                                d < c /\ cgi[d].pc \in {"reply", "send"})
    /\ UNCHANGED <<token, up, motor>>

\* fopen truncates the file or makes it; it may fail.
OpenToken(c) ==
    /\ At(c, "open")
    /\ \/ /\ token' = Empty
          /\ cgi' = [cgi EXCEPT ![c].pc = "write", ![c].holds = TRUE]
          /\ UNCHANGED mishap
       \/ /\ Goto(c, "fork") /\ mishap' = TRUE
          /\ UNCHANGED token
    /\ UNCHANGED <<lastcmd, overtaken, ipc>>

\* fprintf and fclose: to a file that has been unlinked meanwhile, to an
\* empty one, or over the digits another process has written.
WriteToken(c) ==
    /\ At(c, "write")
    /\ IF cgi[c].holds
         THEN token' \in IF token = Empty THEN {c} ELSE {c, Garbled}
         ELSE UNCHANGED token
    /\ cgi' = [cgi EXCEPT ![c].pc = "fork", ![c].holds = FALSE]
    /\ UNCHANGED <<lastcmd, mishap, overtaken, ipc>>

\* fork: the child is the cap.
Fork(c) ==
    /\ At(c, "fork")
    /\ \/ /\ cgi' = [cgi EXCEPT ![c].pc = "done", ![c].cap = "asleep"]
          /\ UNCHANGED mishap
       \/ Goto(c, "done") /\ mishap' = TRUE
    /\ UNCHANGED <<token, lastcmd, overtaken, ipc>>

\* Mutant of Unlink: a stop leaves the token.
UnlinkNot(c) ==
    /\ At(c, "unlink")
    /\ Goto(c, "done")
    /\ UNCHANGED <<token, lastcmd, mishap, overtaken, ipc>>

Unlink(c) ==
    /\ At(c, "unlink")
    /\ token' = None
    /\ cgi' = [d \in Pids |-> [cgi[d] EXCEPT !.holds = FALSE,
                                             !.pc = IF d = c THEN "done" ELSE @]]
    /\ UNCHANGED <<lastcmd, mishap, overtaken, ipc>>

CgiStep(c) == Reply(c) \/ Command(c) \/ OpenToken(c) \/ WriteToken(c) \/ Fork(c)
                \/ Unlink(c)

\* Mutant of CapWakes: the cap stops whatever moves.
CapWakesBlind(c) ==
    /\ cgi[c].cap = "asleep"
    /\ cgi' = [cgi EXCEPT ![c].cap = IF token # None THEN "stop" ELSE "done"]
    /\ UNCHANGED <<token, lastcmd, mishap, overtaken, ipc>>

\* The cap reads the token ...
CapWakes(c) ==
    /\ cgi[c].cap = "asleep"
    /\ cgi' = [cgi EXCEPT ![c].cap = IF token = c THEN "stop" ELSE "done"]
    /\ UNCHANGED <<token, lastcmd, mishap, overtaken, ipc>>

\* ... and, if it was its own, sends a stop.
CapStops(c) ==
    /\ cgi[c].cap = "stop"
    /\ Post(Message("stop", "cap", c))
    /\ cgi' = [cgi EXCEPT ![c].cap = "done"]
    /\ UNCHANGED <<token, lastcmd, mishap, overtaken, up, motor>>

CapStep(c) == CapWakes(c) \/ CapStops(c)

\* main: ptz run by hand: one envelope, no token and no cap.
Shell(e) ==
    /\ shells < MaxShell
    /\ Post(e)
    /\ shells' = shells + 1
    /\ UNCHANGED <<cgi, token, page, lastcmd, mishap, overtaken, up, motor>>

ShellEnvelopes ==
    {[op |-> "move", arg |-> DirValue(dir), from |-> "shell", id |-> 0] : dir \in Buttons}
      \union {[op |-> op, arg |-> 0, from |-> "shell", id |-> 0] :
                op \in {"stop", "light", "preset"}}

CgiNext ==
    \/ \E p \in Pages : PageStep(p)
    \/ \E c \in Pids : (CgiStep(c) \/ CapStep(c)) /\ UNCHANGED <<page, shells>>
    \/ \E e \in ShellEnvelopes : Shell(e)
-----------------------------------------------------------------------------
Process == [cmd : Commands, holds : BOOLEAN, cap : {"none", "asleep", "stop", "done"},
            pc : {"none", "reply", "send", "open", "write", "fork", "unlink", "done"}]

CgiTypeOK ==
    /\ cgi \in [Pids -> Process]
    /\ token \in Pids \union {None, Empty, Garbled}
    /\ moving \in [Pages -> Moves \union {"no"}]
    /\ chain \in [Pages -> Seq(Commands)]
    /\ flight \in [Pages -> Pids \union {0}]
    /\ asks \in [Pages -> 0 .. MaxAsks] /\ shells \in 0 .. MaxShell
    /\ lastcmd \in Pids \union {0} /\ mishap \in BOOLEAN
    /\ overtaken \in BOOLEAN
    /\ failed \in [Pages -> BOOLEAN]
=============================================================================
