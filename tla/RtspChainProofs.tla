--------------------------- MODULE RtspChainProofs ---------------------------
(***************************************************************************)
(* Proofs about RtspChain: types, and, while no script is started beside   *)
(* another and its sleeps are long enough, one process of each name and a  *)
(* slot for each producer.                                                 *)
(***************************************************************************)
EXTENDS RtspChain, FiniteSetTheorems, TLAPS

LEMMA Constants ==
    /\ IsFiniteSet(Pids) /\ Pids \subseteq Nat /\ 0 \notin Pids
    /\ Slots \subseteq Nat /\ 0 \notin Slots /\ Slots # {}
    /\ Tries \in Nat /\ Tries > 0 /\ MaxKills \in Nat
  BY ChainAssumption
-----------------------------------------------------------------------------
(* Numbers and inodes *)

LEMMA MinIn ==
  ASSUME NEW S, S \subseteq Nat, S # {}
  PROVE  Min(S) \in S
<1> DEFINE R == {r \in Nat \X Nat : r[1] < r[2]}
<1>1. IsWellFoundedOn(R, Nat)
  BY NatLessThanWellFounded DEF OpToRel
<1>2. \A x, y \in Nat : x < y => <<x, y>> \in R
  OBVIOUS
<1> HIDE DEF R
<1>3. PICK x \in S : \A y \in S : <<y, x>> \notin R
  BY <1>1, WFMin
<1>4. ASSUME NEW y \in S
      PROVE  x <= y
  <2>1. x \in Nat /\ y \in Nat
    OBVIOUS
  <2>2. ~(y < x)
    BY <1>2, <1>3, <2>1
  <2> QED  BY <2>1, <2>2
<1> QED  BY <1>4 DEF Min

\* There is always an inode that no path names and no process has open.
LEMMA FreshFree ==
  ASSUME TypeOK
  PROVE  /\ Fresh \in Nat \ {0}
         /\ Fresh \notin Linked \cup {proc[p].fd : p \in Pids}
<1> DEFINE fds == {proc[p].fd : p \in Pids}
           f == [p \in Pids |-> proc[p].fd]
           all == 1 .. Cardinality(Pids) + 3
           used == Linked \cup fds
<1>1. IsFiniteSet(fds) /\ Cardinality(fds) <= Cardinality(Pids)
  <2>1. f \in Surjection(Pids, fds)
    BY DEF Surjection
  <2> HIDE DEF f, fds
  <2> QED  BY <2>1, Constants, FS_Surjection
<1>2. IsFiniteSet(Linked) /\ Cardinality(Linked) <= 2
  <2>1. Linked = ({} \cup {node["video"]}) \cup {node["audio"]}
    BY DEF Linked, Producers
  <2>2. IsFiniteSet({}) /\ Cardinality({}) = 0
    BY FS_EmptySet
  <2>3. /\ IsFiniteSet({} \cup {node["video"]})
        /\ Cardinality({} \cup {node["video"]}) <= 1
    BY <2>2, FS_AddElement
  <2> DEFINE one == {} \cup {node["video"]}
  <2> HIDE DEF one
  <2>4. IsFiniteSet(one) /\ Cardinality(one) \in Nat /\ Cardinality(one) <= 1
    BY <2>3, FS_CardinalityType DEF one
  <2>5. /\ IsFiniteSet(one \cup {node["audio"]})
        /\ Cardinality(one \cup {node["audio"]}) <= 2
    <3>1. /\ IsFiniteSet(one \cup {node["audio"]})
          /\ Cardinality(one \cup {node["audio"]})
               \in {Cardinality(one), Cardinality(one) + 1}
      BY <2>4, FS_AddElement, Zenon
    <3> QED  BY <2>4, <3>1
  <2> QED  BY <2>1, <2>5 DEF one
<1>3. /\ Cardinality(Pids) \in Nat /\ Cardinality(fds) \in Nat /\ Cardinality(Linked) \in Nat
  BY <1>1, <1>2, Constants, FS_CardinalityType
<1> HIDE DEF fds
<1>4. IsFiniteSet(used) /\ Cardinality(used) <= Cardinality(Pids) + 2
  <2>1. /\ IsFiniteSet(used) /\ IsFiniteSet(Linked \cap fds)
        /\ Cardinality(used) = Cardinality(Linked) + Cardinality(fds)
                                 - Cardinality(Linked \cap fds)
    <3>1. Linked \cap fds \in SUBSET Linked
      OBVIOUS
    <3> QED  BY <1>1, <1>2, <3>1, FS_Union, FS_Subset
  <2>2. Cardinality(Linked \cap fds) \in Nat
    BY <2>1, FS_CardinalityType
  <2> QED  BY <1>1, <1>2, <1>3, <2>1, <2>2
<1>5. IsFiniteSet(all) /\ Cardinality(all) = Cardinality(Pids) + 3
  <2> DEFINE k == Cardinality(Pids) + 3
  <2>1. k \in Int /\ ~(1 > k) /\ k - 1 + 1 = k
    BY <1>3
  <2> HIDE DEF k
  <2>2. IsFiniteSet(1 .. k) /\ Cardinality(1 .. k) = k
    BY <2>1, FS_Interval
  <2> QED  BY <2>2 DEF k
<1> HIDE DEF all, used
<1>6. all \ used # {}
  <2> SUFFICES ASSUME all \in SUBSET used PROVE FALSE
    OBVIOUS
  <2>1. Cardinality(all) <= Cardinality(used)
    BY <1>4, FS_Subset
  <2>2. Cardinality(used) \in Nat
    BY <1>4, FS_CardinalityType
  <2> QED  BY <1>3, <1>4, <1>5, <2>1, <2>2
<1>7. Min(all \ used) \in all \ used
  <2>1. all \ used \subseteq Nat
    BY <1>3 DEF all
  <2> QED  BY <1>6, <2>1, MinIn
<1>8. Fresh = Min(all \ used)
  BY DEF Fresh, all, used, fds
<1> QED  BY <1>3, <1>7, <1>8 DEF all, used, fds

LEMMA SpawnedPid ==
  ASSUME Procs # Pids
  PROVE  Min(Pids \ Procs) \in Pids \ Procs
<1>1. Pids \ Procs \subseteq Nat /\ Pids \ Procs # {}
  BY Constants DEF Procs
<1> QED  BY <1>1, MinIn

LEMMA ClaimedSlot ==
  ASSUME NEW cmd, Claimable(cmd) # {}
  PROVE  /\ Min(Claimable(cmd)) \in Slots
         /\ filter[Min(Claimable(cmd))] \in {"none", cmd}
<1>1. Claimable(cmd) \subseteq Nat
  BY Constants DEF Claimable
<1>2. Min(Claimable(cmd)) \in Claimable(cmd)
  BY <1>1, MinIn
<1> QED  BY <1>2 DEF Claimable
-----------------------------------------------------------------------------
(* Types *)

Process == [cmd : Cmds \cup {"none"}, st : {"none", "start", "open", "claim", "up"},
            fd : Nat, slot : Slots \cup {0}, sig : BOOLEAN]

LEMMA NoneIsOne == None \in Process /\ None.cmd = "none" /\ None.st = "none"
  BY DEF None, Process

\* A start-up loop spawns while it has tries left.
TriesLeft == \A s \in Scripts : spc[s] \in Producers => tries[s] < Tries

\* Only producers claim slots.
Claimants == \A p \in Pids : proc[p].st = "claim" => proc[p].cmd \in Producers

TypeInv == TypeOK /\ TriesLeft /\ Claimants

\* A step of a script: its place, and what else it changes.
LEMMA GotoTypes ==
  ASSUME TypeInv, NEW s \in Scripts, NEW from, NEW to \in Places, Goto(s, from, to)
  PROVE  /\ spc' \in [Scripts -> Places] /\ spc'[s] = to
         /\ \A t \in Scripts \ {s} : spc'[t] = spc[t]
  BY DEF TypeInv, TypeOK, Goto

LEMMA PlaceTypes ==
  ASSUME TypeInv, NEW s \in Scripts, NEW from, NEW to \in Places, Goto(s, from, to),
         to \in Producers => tries[s] < Tries,
         UNCHANGED <<bufUp, tries, proc, node, filter>>, kills' \in 0 .. MaxKills
  PROVE  TypeInv'
<1>1. TypeOK'
  BY GotoTypes DEF TypeInv, TypeOK
<1>2. TriesLeft'
  BY GotoTypes DEF TypeInv, TriesLeft
<1> QED  BY <1>1, <1>2 DEF TypeInv, Claimants

LEMMA CheckTypes ==
  ASSUME TypeInv, NEW s \in Scripts, NEW from, NEW cmd,
         NEW present \in Places \ Producers, NEW absent \in Places \ Producers,
         Check(s, from, cmd, present, absent)
  PROVE  TypeInv'
<1> DEFINE to == IF Alive(cmd) THEN present ELSE absent
<1>1. to \in Places /\ to \notin Producers /\ Goto(s, from, to)
  BY DEF Check
<1> HIDE DEF to
<1>2. kills' \in 0 .. MaxKills /\ UNCHANGED <<bufUp, tries, proc, node, filter>>
  BY DEF Check, TypeInv, TypeOK
<1> QED  BY <1>1, <1>2, PlaceTypes

LEMMA CheckTriesTypes ==
  ASSUME TypeInv, NEW s \in Scripts, NEW from, NEW cmd,
         NEW present \in Places \ Producers, NEW absent \in Places,
         CheckTries(s, from, cmd, present, absent)
  PROVE  TypeInv'
<1> DEFINE to == IF Alive(cmd) \/ tries[s] = Tries THEN present ELSE absent
<1>1. tries[s] \in 0 .. Tries /\ Tries \in Nat
  BY Constants DEF TypeInv, TypeOK
<1>2. to \in Places /\ (to \in Producers => tries[s] < Tries) /\ Goto(s, from, to)
  BY <1>1 DEF CheckTries
<1> HIDE DEF to
<1>3. kills' \in 0 .. MaxKills /\ UNCHANGED <<bufUp, tries, proc, node, filter>>
  BY DEF CheckTries, TypeInv, TypeOK
<1> QED  BY <1>2, <1>3, PlaceTypes

LEMMA SleepTypes ==
  ASSUME TypeInv, NEW s \in Scripts, NEW from, NEW cmd, NEW to \in Places \ Producers,
         Sleep(s, from, cmd, to)
  PROVE  TypeInv'
<1>1. /\ Goto(s, from, to) /\ kills' \in 0 .. MaxKills
      /\ UNCHANGED <<bufUp, tries, proc, node, filter>>
  BY DEF Sleep, TypeInv, TypeOK
<1> QED  BY <1>1, PlaceTypes

LEMMA SignalTypes ==
  ASSUME TypeInv, NEW s \in Scripts, NEW from, NEW cmd, NEW to \in Places \ Producers,
         Signal(s, from, cmd, to)
  PROVE  TypeInv'
<1>1. proc' \in [Pids -> Process]
  BY DEF TypeInv, TypeOK, Signal, Process
<1>2. Goto(s, from, to) /\ UNCHANGED <<bufUp, tries, node, filter, kills>>
  BY DEF Signal
<1>3. TypeOK'
  BY <1>1, <1>2, GotoTypes DEF TypeInv, TypeOK, Process
<1>4. TriesLeft'
  BY <1>2, GotoTypes DEF TypeInv, TriesLeft
<1>5. Claimants'
  BY DEF TypeInv, TypeOK, Claimants, Signal
<1> QED  BY <1>3, <1>4, <1>5 DEF TypeInv

\* The steps that begin to count anew.
LEMMA AnewTypes ==
  ASSUME TypeInv, NEW s \in Scripts, NEW from, NEW to \in Places \ Producers,
         Goto(s, from, to), node' \in [Producers -> Nat],
         tries' = [tries EXCEPT ![s] = 0], UNCHANGED <<bufUp, proc, filter, kills>>
  PROVE  TypeInv'
<1>1. /\ tries' \in [Scripts -> 0 .. Tries] /\ \A t \in Scripts \ {s} : tries'[t] = tries[t]
  BY Constants DEF TypeInv, TypeOK
<1>2. TypeOK'
  BY <1>1, GotoTypes DEF TypeInv, TypeOK
<1>3. TriesLeft'
  BY <1>1, GotoTypes DEF TypeInv, TriesLeft
<1> QED  BY <1>2, <1>3 DEF TypeInv, Claimants

LEMMA UnlinkTypes ==
  ASSUME TypeInv, NEW s \in Scripts, NEW from, NEW gone, NEW to \in Places \ Producers,
         Unlink(s, from, gone, to)
  PROVE  TypeInv'
<1>1. node' \in [Producers -> Nat]
  BY DEF TypeInv, TypeOK, Unlink
<1> QED  BY <1>1, AnewTypes DEF Unlink

LEMMA MakeVideoFifoTypes ==
  ASSUME TypeInv, NEW s \in Scripts, MakeVideoFifo(s)
  PROVE  TypeInv'
<1>1. Fresh \in Nat /\ node \in [Producers -> Nat]
  BY FreshFree DEF TypeInv, TypeOK
<1>2. node' \in [Producers -> Nat]
  BY <1>1 DEF MakeVideoFifo, Producers
<1>3. "server" \in Places \ Producers
  BY DEF Places, Producers
<1> QED  BY <1>2, <1>3, AnewTypes DEF MakeVideoFifo

LEMMA SpawnTypes ==
  ASSUME TypeInv, NEW s \in Scripts, NEW from, NEW cmd \in Cmds, NEW to \in Places \ Producers,
         Spawn(s, from, cmd, to)
  PROVE  TypeInv'
<1>1. Min(Pids \ Procs) \in Pids
  BY SpawnedPid DEF Spawn
<1>2. [None EXCEPT !.cmd = cmd, !.st = "start"] \in Process
  BY DEF None, Process
<1>3. proc' \in [Pids -> Process]
  BY <1>1, <1>2 DEF TypeInv, TypeOK, Process, Spawn
<1>4. /\ tries' \in [Scripts -> 0 .. Tries] /\ \A t \in Scripts \ {s} : tries'[t] = tries[t]
  <2>1. tries \in [Scripts -> 0 .. Tries] /\ tries[s] \in 0 .. Tries
    BY DEF TypeInv, TypeOK
  <2>2. from \in Producers => tries[s] < Tries
    BY DEF TypeInv, TriesLeft, Spawn, Goto
  <2> QED  BY <2>1, <2>2, Constants DEF Spawn
<1>5. Goto(s, from, to) /\ UNCHANGED <<bufUp, node, filter, kills>>
  BY DEF Spawn
<1>6. TypeOK'
  BY <1>3, <1>4, <1>5, GotoTypes DEF TypeInv, TypeOK, Process
<1>7. TriesLeft'
  BY <1>4, <1>5, GotoTypes DEF TypeInv, TriesLeft
<1>8. Claimants'
  BY <1>1 DEF TypeInv, TypeOK, Claimants, Spawn, None
<1> QED  BY <1>6, <1>7, <1>8 DEF TypeInv

LEMMA ScriptTypes ==
  ASSUME TypeInv, NEW s \in Scripts, Launch(s) \/ ScriptStep(s) \/ OomScript(s)
  PROVE  TypeInv'
<1> USE DEF Places, WatchLoop, Producers, Cmds
<1>1. CASE Launch(s) \/ WaitForBuffer(s)
  <2>1. kills' \in 0 .. MaxKills
    BY <1>1 DEF TypeInv, TypeOK, Launch, WaitForBuffer
  <2> QED  BY <1>1, <2>1, PlaceTypes DEF Launch, WaitForBuffer
<1>2. CASE OomScript(s)
  <2>1. kills' \in 0 .. MaxKills
    BY <1>2, Constants DEF TypeInv, TypeOK, OomScript
  <2>2. Goto(s, spc[s], "exited")
    BY <1>2 DEF OomScript, Goto
  <2> QED  BY <1>2, <2>1, <2>2, PlaceTypes DEF OomScript
<1>3. CASE StartUp(s)
  BY <1>1, <1>3, SignalTypes, SleepTypes, UnlinkTypes, CheckTriesTypes, SpawnTypes, CheckTypes,
     MakeVideoFifoTypes DEF StartUp
<1>4. CASE Watch(s)
  BY <1>4, SleepTypes, UnlinkTypes, SpawnTypes, CheckTypes DEF Watch
<1> QED  BY <1>1, <1>2, <1>3, <1>4 DEF ScriptStep

LEMMA ProcTypes ==
  ASSUME TypeInv, NEW p \in Pids, ProcStep(p) \/ Oom(p)
  PROVE  TypeInv'
<1>1. proc \in [Pids -> Process] /\ proc[p] \in Process /\ None \in Process
  BY NoneIsOne DEF TypeInv, TypeOK, Process
<1>2. UNCHANGED <<bufUp, spc, tries>>
  BY DEF ProcStep, OpenFifo, FindSlot, PublishFilter, ServerStart, ServerScan, Exit, Oom
<1>3. TriesLeft'
  BY <1>2 DEF TypeInv, TriesLeft
<1>4. ASSUME NEW r \in Process, Move(p, r), r.st = "claim" => r.cmd \in Producers
      PROVE  proc' \in [Pids -> Process] /\ Claimants'
  BY <1>1, <1>4 DEF Move, TypeInv, Claimants
<1>5. ASSUME proc' \in [Pids -> Process], Claimants', node' \in [Producers -> Nat],
             filter' \in [Slots -> Producers \cup {"none"}], kills' \in 0 .. MaxKills
      PROVE  TypeInv'
  BY <1>2, <1>3, <1>5 DEF TypeInv, TypeOK, Process
<1>6. /\ node \in [Producers -> Nat] /\ filter \in [Slots -> Producers \cup {"none"}]
      /\ kills \in 0 .. MaxKills
  BY DEF TypeInv, TypeOK
<1>7. CASE OpenFifo(p)
  <2> DEFINE i == IF node[proc[p].cmd] = 0 THEN Fresh ELSE node[proc[p].cmd]
             r == [proc[p] EXCEPT !.st = "open", !.fd = i]
  <2>1. i \in Nat
    BY <1>6, <1>7, FreshFree DEF OpenFifo, TypeInv
  <2>2. r \in Process /\ r.st = "open"
    BY <1>1, <2>1 DEF Process
  <2>3. node' = [node EXCEPT ![proc[p].cmd] = i] /\ UNCHANGED <<filter, kills>> /\ Move(p, r)
    BY <1>7 DEF OpenFifo
  <2> HIDE DEF i, r
  <2> QED  BY <1>4, <1>5, <1>6, <2>1, <2>2, <2>3
<1>8. CASE FindSlot(p)
  <2>1. CASE Claimable(proc[p].cmd) = {}
    BY <1>1, <1>4, <1>5, <1>6, <1>8, <2>1, NoneIsOne DEF FindSlot
  <2>2. CASE Claimable(proc[p].cmd) # {}
    <3> DEFINE r == [proc[p] EXCEPT !.st = "claim", !.slot = Min(Claimable(proc[p].cmd))]
    <3>1. r \in Process /\ r.cmd \in Producers
      BY <1>1, <1>8, <2>2, ClaimedSlot DEF Process, FindSlot
    <3>2. Move(p, r) /\ UNCHANGED <<node, filter, kills>>
      BY <1>8, <2>2 DEF FindSlot
    <3> HIDE DEF r
    <3> QED  BY <1>4, <1>5, <1>6, <3>1, <3>2
  <2> QED  BY <2>1, <2>2
<1>9. CASE PublishFilter(p)
  <2> DEFINE r == [proc[p] EXCEPT !.st = "up"]
  <2>1. r \in Process /\ r.st = "up"
    BY <1>1 DEF Process
  <2>2. Move(p, r) /\ filter' = [filter EXCEPT ![proc[p].slot] = proc[p].cmd]
        /\ proc[p].cmd \in Producers /\ UNCHANGED <<node, kills>>
    BY <1>9 DEF PublishFilter, TypeInv, Claimants
  <2> HIDE DEF r
  <2> QED  BY <1>4, <1>5, <1>6, <2>1, <2>2
<1>10. CASE ServerStart(p)
  <2> DEFINE r == [proc[p] EXCEPT !.st = IF node["audio"] = 0 THEN "up" ELSE "open",
                                  !.fd = node["audio"]]
  <2>1. r \in Process /\ r.st # "claim"
    BY <1>1, <1>6 DEF Process, Producers
  <2>2. Move(p, r) /\ UNCHANGED <<node, filter, kills>>
    BY <1>10 DEF ServerStart
  <2> HIDE DEF r
  <2> QED  BY <1>4, <1>5, <1>6, <2>1, <2>2
<1>11. CASE ServerScan(p)
  <2> DEFINE r == [proc[p] EXCEPT !.st = "up"]
  <2>1. r \in Process /\ r.st # "claim"
    BY <1>1 DEF Process
  <2>2. Move(p, r) /\ UNCHANGED <<node, filter, kills>>
    BY <1>11 DEF ServerScan
  <2> HIDE DEF r
  <2> QED  BY <1>4, <1>5, <1>6, <2>1, <2>2
<1>12. CASE Exit(p) \/ Oom(p)
  <2>1. Move(p, None) /\ UNCHANGED node
    BY <1>12 DEF Exit, Oom
  <2>2. filter' \in [Slots -> Producers \cup {"none"}] /\ kills' \in 0 .. MaxKills
    BY <1>6, <1>12, Constants DEF Exit, Oom
  <2> QED  BY <1>1, <1>4, <1>5, <1>6, <2>1, <2>2, NoneIsOne
<1> QED  BY <1>7, <1>8, <1>9, <1>10, <1>11, <1>12 DEF ProcStep

LEMMA InitTypes == Init => TypeInv
<1> SUFFICES ASSUME Init PROVE TypeInv
  OBVIOUS
<1>1. proc \in [Pids -> Process] /\ Claimants
  BY NoneIsOne DEF Init, Claimants
<1>2. TriesLeft
  BY DEF Init, TriesLeft, Producers
<1>3. /\ spc \in [Scripts -> Places] /\ tries \in [Scripts -> 0 .. Tries]
      /\ kills \in 0 .. MaxKills
  BY Constants DEF Init, Places
<1>4. /\ bufUp \in BOOLEAN /\ node \in [Producers -> Nat]
      /\ filter \in [Slots -> Producers \cup {"none"}]
  BY DEF Init
<1>5. TypeOK
  BY <1>1, <1>3, <1>4 DEF TypeOK, Process
<1> QED  BY <1>1, <1>2, <1>5 DEF TypeInv

LEMMA TypeInvariance == Spec => []TypeInv
<1>1. TypeInv /\ [Next]_vars => TypeInv'
  <2> SUFFICES ASSUME TypeInv, [Next]_vars PROVE TypeInv'
    OBVIOUS
  <2>1. CASE BufferAppears
    BY <2>1 DEF BufferAppears, TypeInv, TypeOK, TriesLeft, Claimants
  <2>2. CASE \E s \in Scripts : Launch(s) \/ ScriptStep(s) \/ OomScript(s)
    BY <2>2, ScriptTypes
  <2>3. CASE \E p \in Pids : ProcStep(p) \/ Oom(p)
    BY <2>3, ProcTypes
  <2>4. CASE UNCHANGED vars
    BY <2>4 DEF vars, TypeInv, TypeOK, TriesLeft, Claimants
  <2> QED  BY <2>1, <2>2, <2>3, <2>4 DEF Next
<1> QED  BY <1>1, InitTypes, PTL DEF Spec

\* The state of RtspChain has its types, whatever is overlapped or killed.
THEOREM TypesHold == Spec => []TypeOK
<1>1. TypeInv => TypeOK
  BY DEF TypeInv
<1> QED  BY <1>1, TypeInvariance, PTL
-----------------------------------------------------------------------------
(* One of each *)

Gone(cmd) == \A p \in Pids : proc[p].cmd # cmd
Signalled(cmd) == \A p \in Pids : proc[p].cmd = cmd => proc[p].sig
AllUp(cmd) == \A p \in Pids : proc[p].cmd = cmd => proc[p].st = "up"

\* Before its first spawn a script knows nothing of the producers it finds.
Before == {"off", "exited", "wait", "killServer", "killVideo", "killAudio", "killSleep"}

\* What a script has found out about the processes, by its place.
Knows(place) ==
    /\ place \in {"killVideo", "killAudio", "killSleep"} => Signalled("server")
    /\ place \in {"killAudio", "killSleep"} => Signalled("video")
    /\ place = "killSleep" => Signalled("audio")
    /\ place \in {"rm", "audio?", "audio", "audioSleep", "noAudio?", "noAudio", "mkfifo",
                  "server", "respawnServer"} => Gone("server")
    /\ place \in {"audio", "respawnAudio"} => Gone("audio")
    /\ place \in {"video", "respawnVideo"} => Gone("video")
    /\ place \notin Before \cup {"audioSleep", "audioPause"} => AllUp("audio")
    /\ place \notin Before \cup {"videoSleep", "videoPause"} => AllUp("video")

\* One script runs.
OneScript == \A s, t \in Scripts : s # t => spc[s] \in {"off", "exited"} \/ spc[t] \in {"off", "exited"}

\* One producer at most is on its way to a slot, ...
Starts(p) == proc[p].cmd \in Producers /\ proc[p].st # "up"
OneStarts == \A p, q \in Pids : Starts(p) /\ Starts(q) => p = q

\* ... so what it has found there stays, and what the others hold.
SlotsKept ==
    \A p \in Pids :
        /\ proc[p].st = "claim" =>
             proc[p].slot \in Slots /\ filter[proc[p].slot] \in {"none", proc[p].cmd}
        /\ proc[p].st = "up" /\ proc[p].cmd \in Producers =>
             proc[p].slot \in Slots /\ filter[proc[p].slot] = proc[p].cmd

ChainInv ==
    /\ TypeInv /\ OneOfEach /\ OneScript /\ OneStarts /\ SlotsKept
    /\ \A s \in Scripts : Knows(spc[s])
-----------------------------------------------------------------------------
(* The script's steps *)

\* A step from one place to another leaves the other scripts where they are.
LEMMA GotoKeeps ==
  ASSUME ChainInv, TypeInv', NEW s \in Scripts, NEW from, from \notin {"off", "exited"},
         NEW to \in Places, Goto(s, from, to), Knows(to)'
  PROVE  OneScript' /\ \A t \in Scripts : Knows(spc[t])'
<1>1. spc'[s] = to /\ \A t \in Scripts \ {s} : spc'[t] = spc[t]
  BY GotoTypes DEF ChainInv
<1>2. \A t \in Scripts \ {s} : spc[t] \in {"off", "exited"}
  BY DEF ChainInv, OneScript, Goto
<1>3. OneScript'
  BY <1>1, <1>2 DEF OneScript
<1>4. ASSUME NEW t \in Scripts
      PROVE  Knows(spc[t])'
  <2>1. CASE t = s
    BY <1>1, <2>1 DEF Knows, Gone, Signalled, AllUp
  <2>2. CASE t # s
    BY <1>1, <1>2, <2>2 DEF Knows, Before
  <2> QED  BY <2>1, <2>2
<1> QED  BY <1>3, <1>4

\* A step that changes no process.
LEMMA LookKeeps ==
  ASSUME ChainInv, TypeInv', NEW s \in Scripts, NEW from, from \notin {"off", "exited"},
         NEW to \in Places, Goto(s, from, to), Knows(from) => Knows(to), UNCHANGED <<proc, filter>>
  PROVE  ChainInv'
<1>1. Knows(to)'
  <2>1. Knows(to)
    BY DEF ChainInv, Goto
  <2> QED  BY <2>1 DEF Knows, Gone, Signalled, AllUp
<1>2. OneOfEach' /\ OneStarts' /\ SlotsKept'
  BY DEF ChainInv, OneOfEach, OneStarts, Starts, SlotsKept, Procs
<1> QED  BY <1>1, <1>2, GotoKeeps DEF ChainInv

\* What a spawn leaves of the facts about the processes.
LEMMA SpawnFacts ==
  ASSUME ChainInv, NEW s \in Scripts, NEW from, NEW to, NEW cmd \in Cmds,
         Spawn(s, from, cmd, to), Gone(cmd),
         cmd \in Producers => \A c \in Producers \ {cmd} : AllUp(c)
  PROVE  /\ OneOfEach' /\ OneStarts' /\ SlotsKept'
         /\ \A c \in Cmds \ {cmd} : (Gone(c) => Gone(c)') /\ (AllUp(c) => AllUp(c)')
<1> DEFINE n == Min(Pids \ Procs)
<1>1. proc \in [Pids -> Process]
  BY DEF ChainInv, TypeInv, TypeOK, Process
<1>2. n \in Pids
  BY SpawnedPid DEF Spawn
<1>3. proc' = [proc EXCEPT ![n] = [None EXCEPT !.cmd = cmd, !.st = "start"]]
      /\ filter' = filter
  BY DEF Spawn
<1> HIDE DEF n
<1>4. /\ proc'[n].cmd = cmd /\ proc'[n].st = "start"
      /\ \A p \in Pids \ {n} : proc'[p] = proc[p]
  BY <1>1, <1>2, <1>3 DEF None
<1>5. OneOfEach'
  BY <1>1, <1>2, <1>4 DEF ChainInv, OneOfEach, Procs, Gone
<1>6. OneStarts'
  <2>1. \A p \in Pids \ {n} : cmd \in Producers /\ proc[p].cmd \in Producers => proc[p].st = "up"
    BY DEF Gone, AllUp
  <2>2. CASE cmd \in Producers
    BY <1>2, <1>4, <2>1, <2>2 DEF OneStarts, Starts
  <2>3. CASE cmd \notin Producers
    BY <1>2, <1>4, <2>3 DEF ChainInv, OneStarts, Starts
  <2> QED  BY <2>2, <2>3
<1>7. SlotsKept'
  BY <1>2, <1>3, <1>4 DEF ChainInv, SlotsKept
<1>8. \A c \in Cmds \ {cmd} : (Gone(c) => Gone(c)') /\ (AllUp(c) => AllUp(c)')
  BY <1>2, <1>4 DEF Gone, AllUp
<1> QED  BY <1>5, <1>6, <1>7, <1>8

\* A signal is kept by the processes it was sent to.
LEMMA SignalFacts ==
  ASSUME ChainInv, NEW s \in Scripts, NEW from, NEW to, NEW cmd \in Cmds, Signal(s, from, cmd, to)
  PROVE  /\ OneOfEach' /\ OneStarts' /\ SlotsKept' /\ Signalled(cmd)'
         /\ \A c \in Cmds : Signalled(c) => Signalled(c)'
<1>1. proc \in [Pids -> Process]
  BY DEF ChainInv, TypeInv, TypeOK, Process
<1>2. \A p \in Pids : /\ proc'[p].cmd = proc[p].cmd /\ proc'[p].st = proc[p].st
                      /\ proc'[p].slot = proc[p].slot
                      /\ proc'[p].sig = (proc[p].sig \/ proc[p].cmd = cmd)
  BY <1>1 DEF Signal, Process
<1>3. filter' = filter
  BY DEF Signal
<1>4. OneOfEach'
  BY <1>2 DEF ChainInv, OneOfEach, Procs
<1>5. OneStarts'
  BY <1>2 DEF ChainInv, OneStarts, Starts
<1>6. SlotsKept'
  BY <1>2, <1>3 DEF ChainInv, SlotsKept
<1>7. Signalled(cmd)' /\ \A c \in Cmds : Signalled(c) => Signalled(c)'
  BY <1>2 DEF Signalled
<1> QED  BY <1>4, <1>5, <1>6, <1>7

\* The end of a sleep, if it is long enough.
LEMMA SettledFacts ==
  ASSUME SleepsSuffice, ChainInv, NEW cmd, Settled(cmd)
  PROVE  /\ cmd \in Cmds => AllUp(cmd)
         /\ \A c \in Cmds : Signalled(c) => Gone(c)
<1>1. \A p \in Procs : ~proc[p].sig /\ (proc[p].cmd = cmd => proc[p].st = "up")
  BY DEF Settled
<1>2. \A c \in Cmds, p \in Pids : proc[p].cmd = c => p \in Procs
  BY DEF Procs, Cmds, Producers
<1> QED  BY <1>1, <1>2 DEF AllUp, Signalled, Gone

\* A check of a name that is not found.
LEMMA AbsentFacts ==
  ASSUME NEW cmd \in Cmds, ~Alive(cmd)
  PROVE  Gone(cmd)
  BY DEF Alive, Procs, Gone, Cmds, Producers

\* The steps, place by place.
LEMMA KillSteps ==
  ASSUME ChainInv, TypeInv', NEW s \in Scripts,
         \/ Signal(s, "killServer", "server", "killVideo")
         \/ Signal(s, "killVideo", "video", "killAudio")
         \/ Signal(s, "killAudio", "audio", "killSleep")
  PROVE  ChainInv'
<1> USE DEF Cmds, Producers
<1>1. Knows(spc[s])
  BY DEF ChainInv
<1>2. ASSUME NEW from, from \notin {"off", "exited"}, NEW to \in Places, NEW cmd \in Cmds,
             Signal(s, from, cmd, to), Knows(to)'
      PROVE  ChainInv'
  BY <1>2, SignalFacts, GotoKeeps DEF Signal, ChainInv
<1>3. CASE Signal(s, "killServer", "server", "killVideo")
  <2>1. Knows("killVideo")'
    BY <1>3, SignalFacts DEF Knows, Before
  <2> QED  BY <1>2, <1>3, <2>1 DEF Places
<1>4. CASE Signal(s, "killVideo", "video", "killAudio")
  <2>1. Signalled("server")
    BY <1>1, <1>4 DEF Signal, Goto, Knows
  <2>2. Knows("killAudio")'
    BY <1>4, <2>1, SignalFacts DEF Knows, Before
  <2> QED  BY <1>2, <1>4, <2>2 DEF Places
<1>5. CASE Signal(s, "killAudio", "audio", "killSleep")
  <2>1. Signalled("server") /\ Signalled("video")
    BY <1>1, <1>5 DEF Signal, Goto, Knows
  <2>2. Knows("killSleep")'
    BY <1>5, <2>1, SignalFacts DEF Knows, Before
  <2> QED  BY <1>2, <1>5, <2>2 DEF Places
<1> QED  BY <1>3, <1>4, <1>5

LEMMA SpawnSteps ==
  ASSUME ChainInv, TypeInv', NEW s \in Scripts,
         \/ Spawn(s, "audio", "audio", "audioSleep")
         \/ Spawn(s, "server", "server", "video?")
         \/ Spawn(s, "video", "video", "videoSleep")
         \/ Spawn(s, "respawnVideo", "video", "videoPause")
         \/ Spawn(s, "respawnAudio", "audio", "audioPause")
         \/ Spawn(s, "respawnServer", "server", "watch")
  PROVE  ChainInv'
<1> USE DEF Cmds, Producers
<1>1. Knows(spc[s])
  BY DEF ChainInv
<1>2. ASSUME NEW from, from \notin {"off", "exited"}, NEW to \in Places, NEW cmd \in Cmds,
             Spawn(s, from, cmd, to), Gone(cmd),
             cmd \in Producers => \A c \in Producers \ {cmd} : AllUp(c), Knows(to)'
      PROVE  ChainInv'
  BY <1>2, SpawnFacts, GotoKeeps DEF Spawn, ChainInv
<1>3. CASE Spawn(s, "audio", "audio", "audioSleep")
  <2>1. Gone("server") /\ Gone("audio") /\ AllUp("video")
    BY <1>1, <1>3 DEF Spawn, Goto, Knows, Before
  <2>2. Knows("audioSleep")'
    BY <1>3, <2>1, SpawnFacts DEF Knows, Before
  <2> QED  BY <1>2, <1>3, <2>1, <2>2 DEF Places
<1>4. CASE Spawn(s, "server", "server", "video?")
  <2>1. Gone("server") /\ AllUp("audio") /\ AllUp("video")
    BY <1>1, <1>4 DEF Spawn, Goto, Knows, Before
  <2>2. Knows("video?")'
    BY <1>4, <2>1, SpawnFacts DEF Knows, Before
  <2> QED  BY <1>2, <1>4, <2>1, <2>2 DEF Places
<1>5. CASE Spawn(s, "video", "video", "videoSleep")
  <2>1. Gone("video") /\ AllUp("audio")
    BY <1>1, <1>5 DEF Spawn, Goto, Knows, Before
  <2>2. Knows("videoSleep")'
    BY <1>5, <2>1, SpawnFacts DEF Knows, Before
  <2> QED  BY <1>2, <1>5, <2>1, <2>2 DEF Places
<1>6. CASE Spawn(s, "respawnVideo", "video", "videoPause")
  <2>1. Gone("video") /\ AllUp("audio")
    BY <1>1, <1>6 DEF Spawn, Goto, Knows, Before
  <2>2. Knows("videoPause")'
    BY <1>6, <2>1, SpawnFacts DEF Knows, Before
  <2> QED  BY <1>2, <1>6, <2>1, <2>2 DEF Places, WatchLoop
<1>7. CASE Spawn(s, "respawnAudio", "audio", "audioPause")
  <2>1. Gone("audio") /\ AllUp("video")
    BY <1>1, <1>7 DEF Spawn, Goto, Knows, Before
  <2>2. Knows("audioPause")'
    BY <1>7, <2>1, SpawnFacts DEF Knows, Before
  <2> QED  BY <1>2, <1>7, <2>1, <2>2 DEF Places, WatchLoop
<1>8. CASE Spawn(s, "respawnServer", "server", "watch")
  <2>1. Gone("server") /\ AllUp("audio") /\ AllUp("video")
    BY <1>1, <1>8 DEF Spawn, Goto, Knows, Before
  <2>2. Knows("watch")'
    BY <1>8, <2>1, SpawnFacts DEF Knows, Before
  <2> QED  BY <1>2, <1>8, <2>1, <2>2 DEF Places, WatchLoop
<1> QED  BY <1>3, <1>4, <1>5, <1>6, <1>7, <1>8

LEMMA SleepSteps ==
  ASSUME SleepsSuffice, ChainInv, TypeInv', NEW s \in Scripts,
         \/ Sleep(s, "killSleep", "none", "rm")
         \/ Sleep(s, "audioSleep", "audio", "audio?")
         \/ Sleep(s, "videoSleep", "video", "video?")
         \/ Sleep(s, "videoPause", "video", "watch")
         \/ Sleep(s, "audioPause", "audio", "audioBack?")
  PROVE  ChainInv'
<1> USE DEF Cmds, Producers
<1>1. CASE Sleep(s, "killSleep", "none", "rm")
  <2>1. \A c \in Cmds : Signalled(c) => Gone(c)
    BY <1>1, SettledFacts DEF Sleep
  <2>2. \A c \in Cmds : Gone(c) => AllUp(c)
    BY DEF Gone, AllUp
  <2>3. Knows("killSleep") => Knows("rm")
    BY <2>1, <2>2 DEF Knows
  <2> QED  BY <1>1, <2>3, LookKeeps DEF Sleep, Places
<1>2. CASE Sleep(s, "audioSleep", "audio", "audio?")
  <2>1. AllUp("audio")
    BY <1>2, SettledFacts DEF Sleep
  <2>2. Knows("audioSleep") => Knows("audio?")
    BY <2>1 DEF Knows, Before
  <2> QED  BY <1>2, <2>2, LookKeeps DEF Sleep, Places
<1>3. CASE Sleep(s, "videoSleep", "video", "video?")
  <2>1. AllUp("video")
    BY <1>3, SettledFacts DEF Sleep
  <2>2. Knows("videoSleep") => Knows("video?")
    BY <2>1 DEF Knows, Before
  <2> QED  BY <1>3, <2>2, LookKeeps DEF Sleep, Places
<1>4. CASE Sleep(s, "videoPause", "video", "watch")
  <2>1. AllUp("video")
    BY <1>4, SettledFacts DEF Sleep
  <2>2. Knows("videoPause") => Knows("watch")
    BY <2>1 DEF Knows, Before
  <2> QED  BY <1>4, <2>2, LookKeeps DEF Sleep, Places, WatchLoop
<1>5. CASE Sleep(s, "audioPause", "audio", "audioBack?")
  <2>1. AllUp("audio")
    BY <1>5, SettledFacts DEF Sleep
  <2>2. Knows("audioPause") => Knows("audioBack?")
    BY <2>1 DEF Knows, Before
  <2> QED  BY <1>5, <2>2, LookKeeps DEF Sleep, Places, WatchLoop
<1> QED  BY <1>1, <1>2, <1>3, <1>4, <1>5

\* A check of a name: what it knew, and that the name was not there.
LEMMA CheckSteps ==
  ASSUME ChainInv, TypeInv', NEW s \in Scripts, NEW from, from \notin {"off", "exited"},
         NEW cmd \in Cmds, NEW present \in Places, NEW absent \in Places,
         \/ Check(s, from, cmd, present, absent)
         \/ CheckTries(s, from, cmd, present, absent),
         Knows(from) => Knows(present), Knows(from) /\ Gone(cmd) => Knows(absent)
  PROVE  ChainInv'
<1>1. PICK to \in {present, absent} : Goto(s, from, to) /\ (to = present \/ ~Alive(cmd))
  BY DEF Check, CheckTries
<1>2. Knows(from) => Knows(to)
  BY <1>1, AbsentFacts
<1>3. UNCHANGED <<proc, filter>>
  BY DEF Check, CheckTries
<1> QED  BY <1>1, <1>2, <1>3, LookKeeps

LEMMA StartUpKeeps ==
  ASSUME SleepsSuffice, ChainInv, TypeInv', NEW s \in Scripts, StartUp(s)
  PROVE  ChainInv'
<1> USE DEF Cmds, Producers
<1>1. CASE WaitForBuffer(s)
  <2>1. PICK to \in {"killServer", "exited"} : Goto(s, "wait", to)
    BY <1>1 DEF WaitForBuffer
  <2>2. Knows(to)
    BY DEF Knows, Before
  <2> QED  BY <1>1, <2>1, <2>2, LookKeeps DEF WaitForBuffer, Places
<1>2. CASE Unlink(s, "rm", Producers, "audio?")
  <2>1. Knows("rm") => Knows("audio?")
    BY DEF Knows, Before
  <2> QED  BY <1>2, <2>1, LookKeeps DEF Unlink, Places
<1>3. CASE CheckTries(s, "audio?", "audio", "noAudio?", "audio")
  <2>1. /\ Knows("audio?") => Knows("noAudio?")
        /\ Knows("audio?") /\ Gone("audio") => Knows("audio")
    BY DEF Knows, Before
  <2> QED  BY <1>3, <2>1, CheckSteps DEF Places
<1>4. CASE Check(s, "noAudio?", "audio", "mkfifo", "noAudio")
  <2>1. Knows("noAudio?") => Knows("mkfifo") /\ Knows("noAudio")
    BY DEF Knows, Before
  <2> QED  BY <1>4, <2>1, CheckSteps DEF Places
<1>5. CASE Unlink(s, "noAudio", {"audio"}, "mkfifo")
  <2>1. Knows("noAudio") => Knows("mkfifo")
    BY DEF Knows, Before
  <2> QED  BY <1>5, <2>1, LookKeeps DEF Unlink, Places
<1>6. CASE MakeVideoFifo(s)
  <2>1. Knows("mkfifo") => Knows("server")
    BY DEF Knows, Before
  <2> QED  BY <1>6, <2>1, LookKeeps DEF MakeVideoFifo, Places
<1>7. CASE CheckTries(s, "video?", "video", "up?", "video")
  <2>1. /\ Knows("video?") => Knows("up?")
        /\ Knows("video?") /\ Gone("video") => Knows("video")
    BY DEF Knows, Before
  <2> QED  BY <1>7, <2>1, CheckSteps DEF Places
<1>8. CASE Check(s, "up?", "video", "watch", "exited")
  <2>1. Knows("up?") => Knows("watch") /\ Knows("exited")
    BY DEF Knows, Before
  <2> QED  BY <1>8, <2>1, CheckSteps DEF Places, WatchLoop
<1> QED  BY <1>1, <1>2, <1>3, <1>4, <1>5, <1>6, <1>7, <1>8, KillSteps, SpawnSteps, SleepSteps
         DEF StartUp

LEMMA WatchKeeps ==
  ASSUME SleepsSuffice, ChainInv, TypeInv', NEW s \in Scripts, Watch(s)
  PROVE  ChainInv'
<1> USE DEF Cmds, Producers, WatchLoop, Places
<1>1. CASE Check(s, "watch", "video", "watchAudio", "respawnVideo")
  <2>1. /\ Knows("watch") => Knows("watchAudio")
        /\ Knows("watch") /\ Gone("video") => Knows("respawnVideo")
    BY DEF Knows, Before
  <2> QED  BY <1>1, <2>1, CheckSteps
<1>2. CASE Check(s, "watchAudio", "audio", "watchServer", "respawnAudio")
  <2>1. /\ Knows("watchAudio") => Knows("watchServer")
        /\ Knows("watchAudio") /\ Gone("audio") => Knows("respawnAudio")
    BY DEF Knows, Before
  <2> QED  BY <1>2, <2>1, CheckSteps
<1>3. CASE Check(s, "audioBack?", "audio", "watch", "audioLost")
  <2>1. Knows("audioBack?") => Knows("watch") /\ Knows("audioLost")
    BY DEF Knows, Before
  <2> QED  BY <1>3, <2>1, CheckSteps
<1>4. CASE Unlink(s, "audioLost", {"audio"}, "watch")
  <2>1. Knows("audioLost") => Knows("watch")
    BY DEF Knows, Before
  <2> QED  BY <1>4, <2>1, LookKeeps DEF Unlink
<1>5. CASE Check(s, "watchServer", "server", "watch", "respawnServer")
  <2>1. /\ Knows("watchServer") => Knows("watch")
        /\ Knows("watchServer") /\ Gone("server") => Knows("respawnServer")
    BY DEF Knows, Before
  <2> QED  BY <1>5, <2>1, CheckSteps
<1> QED  BY <1>1, <1>2, <1>3, <1>4, <1>5, SpawnSteps, SleepSteps DEF Watch

\* Without overlap a script starts when no other runs; a script that dies
\* leaves the processes as they are.
LEMMA ScriptKeeps ==
  ASSUME ~Overlap, SleepsSuffice, ChainInv, NEW s \in Scripts,
         Launch(s) \/ ScriptStep(s) \/ OomScript(s)
  PROVE  ChainInv'
<1>1. TypeInv'
  BY ScriptTypes DEF ChainInv
<1>2. CASE Launch(s)
  <2>1. \A t \in Scripts : spc[t] \in {"off", "exited"}
    BY <1>2 DEF Launch
  <2>2. spc'[s] = "wait" /\ \A t \in Scripts \ {s} : spc'[t] = spc[t]
    BY <1>2, GotoTypes DEF Launch, ChainInv, Places
  <2>3. OneScript'
    BY <2>1, <2>2 DEF OneScript
  <2>4. ASSUME NEW t \in Scripts
        PROVE  Knows(spc[t])'
    <3>1. spc'[t] \in {"off", "exited", "wait"}
      BY <2>1, <2>2
    <3> QED  BY <3>1 DEF Knows, Before
  <2>5. OneOfEach' /\ OneStarts' /\ SlotsKept'
    BY <1>2 DEF Launch, ChainInv, OneOfEach, OneStarts, Starts, SlotsKept, Procs
  <2> QED  BY <1>1, <2>3, <2>4, <2>5 DEF ChainInv
<1>3. CASE OomScript(s)
  <2>1. Goto(s, spc[s], "exited") /\ spc[s] \notin {"off", "exited"}
        /\ UNCHANGED <<proc, filter>>
    BY <1>3 DEF OomScript, Goto
  <2>2. Knows("exited")
    BY DEF Knows, Before
  <2> QED  BY <1>1, <2>1, <2>2, LookKeeps DEF Places
<1> QED  BY <1>1, <1>2, <1>3, StartUpKeeps, WatchKeeps DEF ScriptStep
-----------------------------------------------------------------------------
(* The processes' steps *)

\* A process that goes on, or ends.
LEMMA GoesOn ==
  ASSUME ChainInv, NEW p \in Pids, NEW r, Move(p, r), UNCHANGED spc,
         r.cmd \in {proc[p].cmd, "none"}, r.cmd # "none" => r.sig = proc[p].sig,
         r.cmd \in Producers /\ proc[p].st = "up" => r.st = "up"
  PROVE  /\ OneOfEach' /\ OneScript' /\ OneStarts' /\ \A s \in Scripts : Knows(spc[s])'
         /\ proc'[p] = r /\ \A q \in Pids \ {p} : proc'[q] = proc[q]
<1>1. proc \in [Pids -> Process]
  BY DEF ChainInv, TypeInv, TypeOK, Process
<1>2. proc'[p] = r /\ \A q \in Pids \ {p} : proc'[q] = proc[q]
  BY <1>1 DEF Move
<1>3. OneOfEach'
  BY <1>2 DEF ChainInv, OneOfEach, Procs
<1>4. OneScript'
  BY DEF ChainInv, OneScript
<1>5. OneStarts'
  <2>1. \A q \in Pids : Starts(q)' => Starts(q)
    BY <1>2 DEF Starts, Producers
  <2> QED  BY <2>1 DEF ChainInv, OneStarts
<1>6. \A c \in Cmds : /\ Gone(c) => Gone(c)'
                      /\ Signalled(c) => Signalled(c)'
  BY <1>2 DEF Gone, Signalled, Cmds, Producers
<1>7. \A c \in Producers : AllUp(c) => AllUp(c)'
  BY <1>2 DEF AllUp, Producers
<1>8. ASSUME NEW s \in Scripts
      PROVE  Knows(spc[s])'
  <2>1. Knows(spc[s]) /\ spc'[s] = spc[s]
    BY DEF ChainInv
  <2> QED  BY <1>6, <1>7, <2>1 DEF Knows, Cmds, Producers
<1> QED  BY <1>2, <1>3, <1>4, <1>5, <1>8

LEMMA ProcKeeps ==
  ASSUME ChainInv, NEW p \in Pids, ProcStep(p) \/ Oom(p)
  PROVE  ChainInv'
<1>1. TypeInv'
  BY ProcTypes DEF ChainInv
<1>2. /\ proc \in [Pids -> Process] /\ proc[p] \in Process /\ spc' = spc
      /\ filter \in [Slots -> Producers \cup {"none"}]
  BY DEF ChainInv, TypeInv, TypeOK, Process, ProcStep, OpenFifo, FindSlot, PublishFilter,
         ServerStart, ServerScan, Exit, Oom
<1>3. ASSUME NEW r, Move(p, r), r.cmd \in {proc[p].cmd, "none"},
             r.cmd # "none" => r.sig = proc[p].sig,
             r.cmd \in Producers /\ proc[p].st = "up" => r.st = "up",
             proc'[p] = r /\ (\A q \in Pids \ {p} : proc'[q] = proc[q]) => SlotsKept'
      PROVE  ChainInv'
  BY <1>1, <1>2, <1>3, GoesOn DEF ChainInv
<1>4. SlotsKept
  BY DEF ChainInv
<1>5. CASE OpenFifo(p)
  <2>1. PICK i : Move(p, [proc[p] EXCEPT !.st = "open", !.fd = i])
    BY <1>5 DEF OpenFifo
  <2>2. proc[p].st = "start" /\ filter' = filter
    BY <1>5 DEF OpenFifo
  <2> DEFINE r == [proc[p] EXCEPT !.st = "open", !.fd = i]
  <2>3. r.cmd = proc[p].cmd /\ r.sig = proc[p].sig /\ r.st = "open"
    BY <1>2 DEF Process
  <2> HIDE DEF r
  <2>4. ASSUME proc'[p] = r, \A q \in Pids \ {p} : proc'[q] = proc[q]
        PROVE  SlotsKept'
    BY <1>4, <2>2, <2>3, <2>4 DEF SlotsKept
  <2> QED  BY <1>3, <2>1, <2>2, <2>3, <2>4 DEF r
<1>6. CASE FindSlot(p)
  <2>1. CASE Claimable(proc[p].cmd) = {}
    <3>1. Move(p, None) /\ filter' = filter
      BY <1>6, <2>1 DEF FindSlot
    <3>2. ASSUME proc'[p] = None, \A q \in Pids \ {p} : proc'[q] = proc[q]
          PROVE  SlotsKept'
      BY <1>4, <3>1, <3>2, NoneIsOne DEF SlotsKept
    <3> QED  BY <1>3, <3>1, <3>2, NoneIsOne DEF Producers
  <2>2. CASE Claimable(proc[p].cmd) # {}
    <3> DEFINE k == Min(Claimable(proc[p].cmd))
               r == [proc[p] EXCEPT !.st = "claim", !.slot = k]
    <3>1. k \in Slots /\ filter[k] \in {"none", proc[p].cmd}
      BY <2>2, ClaimedSlot
    <3> HIDE DEF k
    <3>2. /\ r.cmd = proc[p].cmd /\ r.sig = proc[p].sig /\ r.st = "claim" /\ r.slot = k
          /\ proc[p].st = "open"
      BY <1>2, <1>6 DEF Process, FindSlot
    <3>3. Move(p, r) /\ filter' = filter
      BY <1>6, <2>2 DEF FindSlot, k
    <3> HIDE DEF r
    <3>4. ASSUME proc'[p] = r, \A q \in Pids \ {p} : proc'[q] = proc[q]
          PROVE  SlotsKept'
      BY <1>4, <3>1, <3>2, <3>3, <3>4 DEF SlotsKept
    <3> QED  BY <1>3, <3>2, <3>3, <3>4
  <2> QED  BY <2>1, <2>2
<1>7. CASE PublishFilter(p)
  <2> DEFINE r == [proc[p] EXCEPT !.st = "up"]
             k == proc[p].slot
  <2>1. /\ r.cmd = proc[p].cmd /\ r.sig = proc[p].sig /\ r.st = "up" /\ r.slot = k
        /\ proc[p].st = "claim" /\ proc[p].cmd \in Producers
        /\ k \in Slots /\ filter[k] \in {"none", proc[p].cmd}
    BY <1>2, <1>4, <1>7 DEF Process, PublishFilter, ChainInv, TypeInv, Claimants, SlotsKept
  <2>2. Move(p, r) /\ filter' = [filter EXCEPT ![k] = proc[p].cmd]
    BY <1>7 DEF PublishFilter
  <2> HIDE DEF r, k
  <2>3. filter'[k] = proc[p].cmd /\ \A j \in Slots \ {k} : filter'[j] = filter[j]
    BY <1>2, <2>1, <2>2
  <2>4. ASSUME NEW q \in Pids \ {p}
        PROVE  /\ proc[q].st # "claim"
               /\ proc[q].st = "up" /\ proc[q].cmd \in Producers => proc[q].slot # k
    <3>1. proc[q].st # "claim"
      BY <2>1 DEF ChainInv, OneStarts, Starts, TypeInv, Claimants
    <3>2. ASSUME proc[q].st = "up", proc[q].cmd \in Producers
          PROVE  proc[q].slot # k
      <4>1. proc[q].cmd # proc[p].cmd
        BY <2>1, <3>2 DEF ChainInv, OneOfEach, Procs, Producers
      <4>2. filter[proc[q].slot] = proc[q].cmd
        BY <1>4, <3>2 DEF SlotsKept
      <4> QED  BY <2>1, <3>2, <4>1, <4>2 DEF Producers
    <3> QED  BY <3>1, <3>2
  <2>5. ASSUME proc'[p] = r, \A q \in Pids \ {p} : proc'[q] = proc[q]
        PROVE  SlotsKept'
    BY <1>4, <2>1, <2>3, <2>4, <2>5 DEF SlotsKept
  <2> QED  BY <1>3, <2>1, <2>2, <2>5
<1>8. CASE ServerStart(p)
  <2> DEFINE u == IF node["audio"] = 0 THEN "up" ELSE "open"
             r == [proc[p] EXCEPT !.st = u, !.fd = node["audio"]]
  <2>1. /\ r.cmd = "server" /\ proc[p].cmd = "server" /\ r.sig = proc[p].sig
        /\ r.st \in {"up", "open"}
    BY <1>2, <1>8 DEF Process, ServerStart
  <2>2. Move(p, r) /\ filter' = filter
    BY <1>8 DEF ServerStart
  <2> HIDE DEF r
  <2>3. ASSUME proc'[p] = r, \A q \in Pids \ {p} : proc'[q] = proc[q]
        PROVE  SlotsKept'
    BY <1>4, <2>1, <2>2, <2>3 DEF SlotsKept, Producers
  <2> QED  BY <1>3, <2>1, <2>2, <2>3 DEF Producers
<1>9. CASE ServerScan(p)
  <2> DEFINE r == [proc[p] EXCEPT !.st = "up"]
  <2>1. r.cmd = "server" /\ proc[p].cmd = "server" /\ r.sig = proc[p].sig /\ r.st = "up"
    BY <1>2, <1>9 DEF Process, ServerScan
  <2>2. Move(p, r) /\ filter' = filter
    BY <1>9 DEF ServerScan
  <2> HIDE DEF r
  <2>3. ASSUME proc'[p] = r, \A q \in Pids \ {p} : proc'[q] = proc[q]
        PROVE  SlotsKept'
    BY <1>4, <2>1, <2>2, <2>3 DEF SlotsKept, Producers
  <2> QED  BY <1>3, <2>1, <2>2, <2>3 DEF Producers
<1>10. CASE Exit(p)
  <2>1. Move(p, None) /\ proc[p].cmd # "none"
    BY <1>10 DEF Exit, Procs
  <2>2. ASSUME NEW q \in Pids \ {p}, proc[q].st \in {"claim", "up"}, proc[q].cmd \in Producers
        PROVE  filter'[proc[q].slot] = filter[proc[q].slot]
    <3>1. CASE proc[p].cmd \in Producers /\ proc[p].st = "up"
      <4>1. proc[q].cmd # proc[p].cmd
        BY <2>1, <2>2 DEF ChainInv, OneOfEach, Procs, Producers
      <4>2. filter[proc[p].slot] = proc[p].cmd /\ proc[p].cmd # "none"
        BY <1>4, <2>1, <3>1 DEF SlotsKept
      <4>3. proc[q].slot \in Slots /\ filter[proc[q].slot] \in {"none", proc[q].cmd}
        BY <1>4, <2>2 DEF SlotsKept
      <4>4. proc[q].slot # proc[p].slot
        BY <4>1, <4>2, <4>3
      <4>5. filter' = [filter EXCEPT ![proc[p].slot] = "none"]
        BY <1>10, <3>1 DEF Exit
      <4> QED  BY <1>2, <4>3, <4>4, <4>5
    <3>2. CASE ~(proc[p].cmd \in Producers /\ proc[p].st = "up")
      BY <1>10, <3>2 DEF Exit
    <3> QED  BY <3>1, <3>2
  <2>3. ASSUME proc'[p] = None, \A q \in Pids \ {p} : proc'[q] = proc[q]
        PROVE  SlotsKept'
    BY <1>4, <2>2, <2>3, NoneIsOne DEF SlotsKept, ChainInv, TypeInv, Claimants
  <2> QED  BY <1>3, <2>1, <2>3, NoneIsOne DEF Producers
<1>11. CASE Oom(p)
  <2>1. Move(p, None) /\ filter' = filter
    BY <1>11 DEF Oom
  <2>2. ASSUME proc'[p] = None, \A q \in Pids \ {p} : proc'[q] = proc[q]
        PROVE  SlotsKept'
    BY <1>4, <2>1, <2>2, NoneIsOne DEF SlotsKept
  <2> QED  BY <1>3, <2>1, <2>2, NoneIsOne DEF Producers
<1> QED  BY <1>5, <1>6, <1>7, <1>8, <1>9, <1>10, <1>11 DEF ProcStep

\* ChainInv is inductive while scripts do not overlap and sleeps suffice.
LEMMA ChainInvariance ==
  ASSUME ~Overlap, SleepsSuffice
  PROVE  Spec => []ChainInv
<1>1. Init => ChainInv
  <2> SUFFICES ASSUME Init PROVE ChainInv
    OBVIOUS
  <2>1. TypeInv
    BY InitTypes
  <2>2. /\ \A p \in Pids : proc[p].cmd = "none" /\ proc[p].st = "none"
        /\ \A s \in Scripts : spc[s] = "off"
    BY NoneIsOne DEF Init
  <2>3. OneOfEach /\ OneStarts /\ SlotsKept
    BY <2>2 DEF OneOfEach, Procs, OneStarts, Starts, SlotsKept, Producers
  <2>4. OneScript /\ \A s \in Scripts : Knows(spc[s])
    BY <2>2 DEF OneScript, Knows, Before
  <2> QED  BY <2>1, <2>3, <2>4 DEF ChainInv
<1>2. ChainInv /\ [Next]_vars => ChainInv'
  <2> SUFFICES ASSUME ChainInv, [Next]_vars PROVE ChainInv'
    OBVIOUS
  <2>1. ASSUME UNCHANGED <<spc, tries, proc, node, filter, kills>>, bufUp' \in BOOLEAN
        PROVE  ChainInv'
    <3>1. TypeInv'
      BY <2>1 DEF ChainInv, TypeInv, TypeOK, TriesLeft, Claimants
    <3>2. OneOfEach' /\ OneScript' /\ OneStarts' /\ SlotsKept'
      BY <2>1 DEF ChainInv, OneOfEach, Procs, OneScript, OneStarts, Starts, SlotsKept
    <3>3. \A s \in Scripts : Knows(spc[s])'
      BY <2>1 DEF ChainInv, Knows, Gone, Signalled, AllUp
    <3> QED  BY <3>1, <3>2, <3>3 DEF ChainInv
  <2>2. CASE BufferAppears
    BY <2>1, <2>2 DEF BufferAppears
  <2>3. CASE UNCHANGED vars
    BY <2>1, <2>3 DEF vars, ChainInv, TypeInv, TypeOK
  <2> QED  BY <2>2, <2>3, ScriptKeeps, ProcKeeps DEF Next
<1> QED  BY <1>1, <1>2, PTL DEF Spec
-----------------------------------------------------------------------------
\* The script never runs two processes of a name, for any number of executions
\* one after the other and whatever is killed.
THEOREM OnlyOneOfEach ==
  ASSUME ~Overlap, SleepsSuffice
  PROVE  Spec => []OneOfEach
<1>1. ChainInv => OneOfEach
  BY DEF ChainInv
<1> QED  BY <1>1, ChainInvariance, PTL

\* Producers that are up have slots of their own with their own filter, also
\* when they found one that a killed producer left behind.
THEOREM SlotsStayDistinct ==
  ASSUME ~Overlap, SleepsSuffice
  PROVE  Spec => []SlotsDistinct
<1>1. ChainInv => SlotsDistinct
  <2> SUFFICES ASSUME ChainInv,
                      NEW p \in Procs, proc[p].cmd \in Producers, proc[p].st = "up"
               PROVE  /\ filter[proc[p].slot] = proc[p].cmd
                      /\ \A q \in Procs \ {p} : proc[q].st = "up" /\ proc[q].cmd \in Producers
                                                   => proc[q].slot # proc[p].slot
    BY DEF SlotsDistinct
  <2>1. \A q \in Procs : proc[q].st = "up" /\ proc[q].cmd \in Producers
                            => filter[proc[q].slot] = proc[q].cmd
    BY DEF ChainInv, SlotsKept, Procs
  <2>2. \A q \in Procs \ {p} : proc[q].cmd # proc[p].cmd
    BY DEF ChainInv, OneOfEach
  <2> QED  BY <2>1, <2>2
<1> QED  BY <1>1, ChainInvariance, PTL
=============================================================================
