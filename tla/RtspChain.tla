------------------------------ MODULE RtspChain ------------------------------
(***************************************************************************)
(* src/deploy/hack/start-rtsp.sh and the processes it keeps alive: the     *)
(* video producer (fshare2fifo), the audio producer (f2f_audio) and the    *)
(* RTSP server.  The processes meet in the file system (two fifos, which   *)
(* are files that can be unlinked while they are open) and in the slot     *)
(* table of the shared frame buffer.                                       *)
(*                                                                         *)
(* boot.sh starts the script, and it can be re-run by hand: Overlap says *)
(* whether that happens while an earlier execution still watches.  A sleep *)
(* of the script is a step; SleepsSuffice says whether what it waits for   *)
(* (a producer's claim of its slot, the end of a signalled process) has    *)
(* happened when the sleep ends.                                           *)
(***************************************************************************)
EXTENDS Integers, FiniteSets, FiniteSetsExt

CONSTANTS
    Scripts,    \* executions of start-rtsp.sh
    Pids,       \* numbers: process table entries
    Slots,      \* numbers: 10 .. 14
    Tries,      \* spawns before the start-up loops give up (20)
    Overlap,    \* the script is re-run while an earlier one watches
    SleepsSuffice, \* the sleeps are longer than a start-up or an exit
    MaxKills    \* bound: processes lost to the OOM killer

ASSUME ChainAssumption ==
    /\ IsFiniteSet(Pids) /\ Pids \subseteq Nat \ {0}
    /\ IsFiniteSet(Slots) /\ Slots \subseteq Nat \ {0} /\ Slots # {}
    /\ Tries \in Nat \ {0} /\ MaxKills \in Nat
    /\ {Overlap, SleepsSuffice} \subseteq BOOLEAN

Producers == {"video", "audio"}
Cmds == Producers \cup {"server"}

VARIABLES
    bufUp,      \* /dev/shm/fshare_frame_buf exists
    spc,        \* where each script is
    tries,      \* n of its start-up loops
    proc,       \* the process table
    node,       \* the inode each fifo's path names, 0 for none
    filter,     \* whose filter each slot holds
    kills       \* processes killed so far

vars == <<bufUp, spc, tries, proc, node, filter, kills>>

None == [cmd |-> "none", st |-> "none", fd |-> 0, slot |-> 0, sig |-> FALSE]
Procs == {p \in Pids : proc[p].cmd # "none"}

\* A mutant: a health check that only counts what has come up.
AliveUp(cmd) == \E p \in Procs : proc[p].cmd = cmd /\ proc[p].st = "up"
\* pidof cmd: any process of that name, however far it has come.
Alive(cmd) == \E p \in Procs : proc[p].cmd = cmd

\* A fresh inode: neither linked nor held open.
Linked == {node[f] : f \in Producers}
Fresh == Min((1 .. Cardinality(Pids) + 3) \ (Linked \cup {proc[p].fd : p \in Pids}))

\* What a sleep waits for: the spawned process is up or gone, and so are
\* the signalled ones.
Settled(cmd) ==
    SleepsSuffice => \A p \in Procs : /\ ~proc[p].sig
                                      /\ proc[p].cmd = cmd => proc[p].st = "up"
-----------------------------------------------------------------------------
Init ==
    /\ bufUp = FALSE
    /\ spc = [s \in Scripts |-> "off"] /\ tries = [s \in Scripts |-> 0]
    /\ proc = [p \in Pids |-> None]
    /\ node = [f \in Producers |-> 0]
    /\ filter = [k \in Slots |-> "none"]
    /\ kills = 0

\* rmm creates its buffer.
BufferAppears == ~bufUp /\ bufUp' = TRUE
                 /\ UNCHANGED <<spc, tries, proc, node, filter, kills>>
-----------------------------------------------------------------------------
(***************************************************************************)
(* The script                                                              *)
(***************************************************************************)
Goto(s, from, to) == spc[s] = from /\ spc' = [spc EXCEPT ![s] = to]

WatchLoop == {"watch", "respawnVideo", "videoPause", "watchAudio",
              "respawnAudio", "audioPause", "audioBack?", "audioLost",
              "watchServer", "respawnServer"}

Launch(s) ==
    /\ Goto(s, "off", "wait")
    /\ \A t \in Scripts : spc[t] \in {"off", "exited"}
                             \cup IF Overlap THEN WatchLoop ELSE {}
    /\ UNCHANGED <<bufUp, tries, proc, node, filter, kills>>

WaitForBuffer(s) ==
    /\ \/ bufUp /\ Goto(s, "wait", "killServer")
       \/ ~bufUp /\ Goto(s, "wait", "exited")
    /\ UNCHANGED <<bufUp, tries, proc, node, filter, kills>>

\* kill $(pidof cmd)
Signal(s, from, cmd, to) ==
    /\ Goto(s, from, to)
    /\ proc' = [p \in Pids |-> IF proc[p].cmd = cmd
                                 THEN [proc[p] EXCEPT !.sig = TRUE] ELSE proc[p]]
    /\ UNCHANGED <<bufUp, tries, node, filter, kills>>

\* rm -f of the fifos in gone, after the loop that leads there.
Unlink(s, from, gone, to) ==
    /\ Goto(s, from, to)
    /\ node' = [f \in Producers |-> IF f \in gone THEN 0 ELSE node[f]]
    /\ tries' = [tries EXCEPT ![s] = 0]
    /\ UNCHANGED <<bufUp, proc, filter, kills>>

\* PID=$(pidof cmd) and the test of it.
Check(s, from, cmd, present, absent) ==
    /\ Goto(s, from, IF Alive(cmd) THEN present ELSE absent)
    /\ UNCHANGED <<bufUp, tries, proc, node, filter, kills>>

\* The start-up loops count their spawns.
CheckTries(s, from, cmd, present, absent) ==
    /\ Goto(s, from, IF Alive(cmd) \/ tries[s] = Tries THEN present ELSE absent)
    /\ UNCHANGED <<bufUp, tries, proc, node, filter, kills>>

\* The spawns of the start-up loops, at "audio" and "video", are counted.
Spawn(s, from, cmd, to) ==
    /\ Goto(s, from, to)
    /\ Procs # Pids
    /\ proc' = [proc EXCEPT ![Min(Pids \ Procs)] =
                   [None EXCEPT !.cmd = cmd, !.st = "start"]]
    /\ tries' = [tries EXCEPT ![s] = IF from \in Producers THEN @ + 1 ELSE @]
    /\ UNCHANGED <<bufUp, node, filter, kills>>

Sleep(s, from, cmd, to) ==
    /\ Goto(s, from, to)
    /\ Settled(cmd)
    /\ UNCHANGED <<bufUp, tries, proc, node, filter, kills>>

\* mkfifo /tmp/h264_high_fifo, which fails if it is there.
MakeVideoFifo(s) ==
    /\ Goto(s, "mkfifo", "server")
    /\ node' = [node EXCEPT !["video"] = IF @ = 0 THEN Fresh ELSE @]
    /\ tries' = [tries EXCEPT ![s] = 0]
    /\ UNCHANGED <<bufUp, proc, filter, kills>>

StartUp(s) ==
    \/ WaitForBuffer(s)
    \/ Signal(s, "killServer", "server", "killVideo")
    \/ Signal(s, "killVideo", "video", "killAudio")
    \/ Signal(s, "killAudio", "audio", "killSleep")
    \/ Sleep(s, "killSleep", "none", "rm")
    \/ Unlink(s, "rm", Producers, "audio?")
    \/ CheckTries(s, "audio?", "audio", "noAudio?", "audio")
    \/ Spawn(s, "audio", "audio", "audioSleep")
    \/ Sleep(s, "audioSleep", "audio", "audio?")
    \/ Check(s, "noAudio?", "audio", "mkfifo", "noAudio")
    \/ Unlink(s, "noAudio", {"audio"}, "mkfifo")
    \/ MakeVideoFifo(s)
    \/ Spawn(s, "server", "server", "video?")
    \/ CheckTries(s, "video?", "video", "up?", "video")
    \/ Spawn(s, "video", "video", "videoSleep")
    \/ Sleep(s, "videoSleep", "video", "video?")
    \/ Check(s, "up?", "video", "watch", "exited")

\* A mutant: the loop looks after the producers only.
WatchProducers(s) ==
    \/ Check(s, "watch", "video", "watchAudio", "respawnVideo")
    \/ Spawn(s, "respawnVideo", "video", "videoPause")
    \/ Sleep(s, "videoPause", "video", "watch")
    \/ Check(s, "watchAudio", "audio", "watch", "respawnAudio")
    \/ Spawn(s, "respawnAudio", "audio", "watch")

\* The watch loop.
Watch(s) ==
    \/ Check(s, "watch", "video", "watchAudio", "respawnVideo")
    \/ Spawn(s, "respawnVideo", "video", "videoPause")
    \/ Sleep(s, "videoPause", "video", "watch")
    \/ Check(s, "watchAudio", "audio", "watchServer", "respawnAudio")
    \/ Spawn(s, "respawnAudio", "audio", "audioPause")
    \/ Sleep(s, "audioPause", "audio", "audioBack?")
    \/ Check(s, "audioBack?", "audio", "watch", "audioLost")
    \/ Unlink(s, "audioLost", {"audio"}, "watch")
    \/ Check(s, "watchServer", "server", "watch", "respawnServer")
    \/ Spawn(s, "respawnServer", "server", "watch")

ScriptStep(s) == StartUp(s) \/ Watch(s)
-----------------------------------------------------------------------------
(***************************************************************************)
(* The processes                                                           *)
(***************************************************************************)
Move(p, r) == proc' = [proc EXCEPT ![p] = r]

\* main of fshare2fifo: mkfifo unless it exists, and open.
OpenFifo(p) ==
    /\ proc[p].cmd \in Producers /\ proc[p].st = "start" /\ ~proc[p].sig
    /\ LET f == proc[p].cmd
           i == IF node[f] = 0 THEN Fresh ELSE node[f] IN
         /\ node' = [node EXCEPT ![f] = i]
         /\ Move(p, [proc[p] EXCEPT !.st = "open", !.fd = i])
    /\ UNCHANGED <<bufUp, spc, tries, filter, kills>>

\* Two mutants: every slot is taken for free; a left-over filter of the own
\* mode is taken for somebody else's.
ClaimableAny(cmd) == Slots
ClaimableFree(cmd) == {k \in Slots : filter[k] = "none"}

\* claim_slot takes the first slot that is free or left over by its own
\* mode.
Claimable(cmd) == {k \in Slots : filter[k] \in {"none", cmd}}

FindSlot(p) ==
    /\ proc[p].st = "open" /\ proc[p].cmd \in Producers /\ ~proc[p].sig
    /\ Move(p, IF Claimable(proc[p].cmd) = {} THEN None
               ELSE [proc[p] EXCEPT !.st = "claim",
                                    !.slot = Min(Claimable(proc[p].cmd))])
    /\ UNCHANGED <<bufUp, spc, tries, node, filter, kills>>

PublishFilter(p) ==
    /\ proc[p].st = "claim"
    /\ filter' = [filter EXCEPT ![proc[p].slot] = proc[p].cmd]
    /\ Move(p, [proc[p] EXCEPT !.st = "up"])
    /\ UNCHANGED <<bufUp, spc, tries, node, kills>>

\* The server: audio is served if its fifo exists, and then the server
\* comes up only when that fifo has a writer.
ServerStart(p) ==
    /\ proc[p].cmd = "server" /\ proc[p].st = "start" /\ ~proc[p].sig
    /\ Move(p, [proc[p] EXCEPT !.st = IF node["audio"] = 0 THEN "up" ELSE "open",
                               !.fd = node["audio"]])
    /\ UNCHANGED <<bufUp, spc, tries, node, filter, kills>>

ServerScan(p) ==
    /\ proc[p].cmd = "server" /\ proc[p].st = "open"
    /\ \E q \in Procs : proc[q].cmd = "audio" /\ proc[q].st = "up"
                          /\ proc[q].fd = proc[p].fd
    /\ Move(p, [proc[p] EXCEPT !.st = "up"])
    /\ UNCHANGED <<bufUp, spc, tries, node, filter, kills>>

\* The signal is acted upon: a producer releases its slot, if it has one.
Exit(p) ==
    /\ p \in Procs /\ proc[p].sig
    /\ proc[p].st # "claim"
    /\ filter' = IF proc[p].cmd \in Producers /\ proc[p].st = "up"
                   THEN [filter EXCEPT ![proc[p].slot] = "none"] ELSE filter
    /\ Move(p, None)
    /\ UNCHANGED <<bufUp, spc, tries, node, kills>>

\* SIGKILL, at any moment; the slot keeps its filter.
Oom(p) ==
    /\ p \in Procs /\ kills < MaxKills
    /\ kills' = kills + 1
    /\ Move(p, None)
    /\ UNCHANGED <<bufUp, spc, tries, node, filter>>

\* The scripts are processes too.
OomScript(s) ==
    /\ spc[s] \notin {"off", "exited"} /\ kills < MaxKills
    /\ kills' = kills + 1
    /\ spc' = [spc EXCEPT ![s] = "exited"]
    /\ UNCHANGED <<bufUp, tries, proc, node, filter>>

ProcStep(p) ==
    \/ OpenFifo(p) \/ FindSlot(p) \/ PublishFilter(p)
    \/ ServerStart(p) \/ ServerScan(p) \/ Exit(p)
-----------------------------------------------------------------------------
Next == \/ BufferAppears
        \/ \E s \in Scripts : Launch(s) \/ ScriptStep(s) \/ OomScript(s)
        \/ \E p \in Pids : ProcStep(p) \/ Oom(p)

Spec == Init /\ [][Next]_vars

\* Every script and every process runs.  Nobody has to launch a script, and
\* the OOM killer need not strike.
Fairness == /\ \A s \in Scripts : WF_vars(ScriptStep(s))
            /\ \A p \in Pids : WF_vars(ProcStep(p))
FairSpec == Spec /\ Fairness
-----------------------------------------------------------------------------
(***************************************************************************)
(* Properties                                                              *)
(***************************************************************************)
Places ==
    {"off", "exited", "wait", "killServer", "killVideo", "killAudio", "killSleep",
     "rm", "audio?", "audio", "audioSleep", "noAudio?", "noAudio", "mkfifo", "server",
     "video?", "video", "videoSleep", "up?"} \cup WatchLoop

TypeOK ==
    /\ bufUp \in BOOLEAN /\ spc \in [Scripts -> Places]
    /\ tries \in [Scripts -> 0 .. Tries]
    /\ proc \in [Pids -> [cmd : Cmds \cup {"none"},
                          st : {"none", "start", "open", "claim", "up"},
                          fd : Nat, slot : Slots \cup {0}, sig : BOOLEAN]]
    /\ node \in [Producers -> Nat]
    /\ filter \in [Slots -> Producers \cup {"none"}]
    /\ kills \in 0 .. MaxKills

\* The script never runs two processes of a name: the producers write
\* their fifo without any lock between them.
OneOfEach ==
    \A p, q \in Procs : proc[p].cmd = proc[q].cmd => p = q

\* Two producers never share a slot, and a running producer finds its own
\* filter there: the writer flags it for the records it waits for.
SlotsDistinct ==
    \A p \in Procs : proc[p].cmd \in Producers /\ proc[p].st = "up" =>
        /\ filter[proc[p].slot] = proc[p].cmd
        /\ \A q \in Procs \ {p} : proc[q].st = "up" /\ proc[q].cmd \in Producers
                                     => proc[q].slot # proc[p].slot

\* A video producer writes the fifo that the path names, where the server
\* opens it for its clients.
VideoLinked ==
    \E p \in Procs : /\ proc[p].cmd = "video" /\ proc[p].st = "up"
                     /\ proc[p].fd = node["video"]

\* "the chain self-heals": while a script stays in its watch loop, and
\* whatever the OOM killer took, a video producer is in the end there for
\* good and writes the fifo that the path names.
Watching == \E s \in Scripts : []<>(spc[s] = "watch")
SelfHeals == Watching => <>[]VideoLinked

\* The server comes back as well, unless it was left in the syncword scan
\* of an audio fifo whose path has since been unlinked: no producer will
\* ever open that one again.
ServerUp ==
    \E p \in Procs : /\ proc[p].cmd = "server"
                     /\ \/ proc[p].st = "up"
                        \/ proc[p].st = "open" /\ proc[p].fd # node["audio"]
ServerHeals == Watching => <>[]ServerUp
=============================================================================
