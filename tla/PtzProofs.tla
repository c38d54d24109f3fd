------------------------------ MODULE PtzProofs ------------------------------
(***************************************************************************)
(* Proofs about PtzControl: types, the token of the CGI processes, and the *)
(* decision of their caps; then, that a moving camera has somebody who     *)
(* will stop it, and that one that the pad moves goes where a page shows.  *)
(***************************************************************************)
EXTENDS PtzControl, TLAPS

\* Where a process may be with its command.
Places ==
    \A c \in Pids :
      /\ cgi[c].pc \in {"open", "write", "fork"} => cgi[c].cmd \in Moves
      /\ cgi[c].pc = "unlink" => cgi[c].cmd = "stop"
      /\ cgi[c].cap # "none" => cgi[c].pc = "done" /\ cgi[c].cmd \in Moves

\* What the latest process has done to the token so far.
Handled ==
    /\ \A c \in Pids : Midway(c) => c = lastcmd
    /\ lastcmd = 0 => token = None
    /\ lastcmd # 0 /\ cgi[lastcmd].cmd \in Moves =>
         /\ cgi[lastcmd].pc \in {"open", "write", "fork", "done"}
         /\ cgi[lastcmd].pc = "write" => token = Empty /\ cgi[lastcmd].holds
         /\ cgi[lastcmd].pc \in {"fork", "done"} => token = lastcmd
         /\ cgi[lastcmd].pc = "done" => cgi[lastcmd].cap # "none"
    /\ lastcmd # 0 /\ cgi[lastcmd].cmd \notin Moves =>
         /\ cgi[lastcmd].pc \in {"unlink", "done"}
         /\ cgi[lastcmd].pc = "done" => token = None

Latest == ~mishap => Handled
-----------------------------------------------------------------------------
(* Types *)

LEMMA ConstantFacts ==
    /\ Pids \subseteq Nat /\ 0 \notin Pids /\ QueueLen \in Nat /\ Cap \in Nat \ {0}
    /\ MaxAsks \in Nat /\ MaxShell \in Nat /\ Buttons \subseteq Moves
    /\ NoRequest.hdr \in Nat \ {0} /\ NoRequest.body \in Nat
    /\ \A r \in Requests \union {NoRequest} :
         r.hdr \in Nat \ {0} /\ r.body \in Nat /\ r.x \in Int /\ r.y \in Int
           /\ r.token \in Nat
  <1>1. /\ NoRequest.hdr = 1 /\ NoRequest.body = 0 /\ NoRequest.x = 0
        /\ NoRequest.y = 0 /\ NoRequest.token = 1
    BY DEF NoRequest
  <1>2. /\ Pids \subseteq Nat /\ 0 \notin Pids /\ QueueLen \in Nat /\ Cap \in Nat \ {0}
        /\ MaxAsks \in Nat /\ MaxShell \in Nat /\ Buttons \subseteq Moves
    BY QueueAssumption, CgiAssumption, ButtonAssumption, OnvifAssumption
  <1>3. \A r \in Requests \union {NoRequest} :
          r.hdr \in Nat \ {0} /\ r.body \in Nat /\ r.x \in Int /\ r.y \in Int
            /\ r.token \in Nat
    BY <1>1, OnvifAssumption
  <1> QED  BY <1>1, <1>2, <1>3

LEMMA DirValueType == \A dir : DirValue(dir) \in 0 .. 4
  BY DEF DirValue

LEMMA MessageType ==
  ASSUME NEW cmd \in Commands, NEW from \in {"cgi", "cap"}, NEW c \in Pids
  PROVE  /\ Message(cmd, from, c) \in Envelope
         /\ Message(cmd, from, c).from = from /\ Message(cmd, from, c).id = c
         /\ cmd \in Moves => Message(cmd, from, c).op = "move"
         /\ cmd \notin Moves => Message(cmd, from, c).op = cmd
  <1>1. c \in Nat  BY ConstantFacts
  <1>2. (IF cmd \in Moves THEN "move" ELSE cmd) \in {"move", "stop", "light"}
    BY DEF Commands
  <1> QED  BY <1>1, <1>2, DirValueType DEF Message, Envelope

LEMMA StillType == Still \in Envelope
  BY DEF Still, Envelope

LEMMA PostType ==
  ASSUME QueueTypeOK, NEW e \in Envelope, Post(e), UNCHANGED <<up, motor>>
  PROVE  QueueTypeOK'
  <1>1. CASE up
    BY <1>1, ConstantFacts DEF QueueTypeOK, Post
  <1>2. CASE ~up
    BY <1>2 DEF QueueTypeOK, Post
  <1> QED  BY <1>1, <1>2

\* A step of a page changes no type.
LEMMA PageTypes ==
  ASSUME TypeOK, NEW p \in Pages, PageStep(p), UNCHANGED onvifvars
  PROVE  TypeOK'
  <1> DEFINE Rest == UNCHANGED <<cgi, token, shells, lastcmd, mishap, overtaken, ipc>>
  <1>1. "stop" \in Commands /\ "light" \in Commands /\ Buttons \subseteq Commands
          /\ Buttons \subseteq Moves
    BY ConstantFacts DEF Commands
  <1>2. ASSUME NEW cmd \in Commands  PROVE Append(chain[p], cmd) \in Seq(Commands)
    BY DEF TypeOK, CgiTypeOK
  <1>3. /\ QueueTypeOK' /\ OnvifTypeOK'
        /\ token' \in Pids \union {None, Empty, Garbled} /\ shells' \in 0 .. MaxShell
        /\ lastcmd' \in Pids \union {0} /\ mishap' \in BOOLEAN /\ overtaken' \in BOOLEAN
    BY DEF TypeOK, PageStep, CgiTypeOK, QueueTypeOK, OnvifTypeOK, ipc, onvifvars, client,
           reading, Size, Lesser
  <1> DEFINE PageTypeOK ==
        /\ moving \in [Pages -> Moves \union {"no"}]
        /\ chain \in [Pages -> Seq(Commands)]
        /\ flight \in [Pages -> Pids \union {0}]
        /\ asks \in [Pages -> 0 .. MaxAsks]
        /\ failed \in [Pages -> BOOLEAN]
  <1>4. PageTypeOK
    BY DEF TypeOK, CgiTypeOK
  <1>5. Ask(p) => asks' \in [Pages -> 0 .. MaxAsks]
    BY <1>4, ConstantFacts DEF Ask
  <1>6. ASSUME NEW cmd \in Commands, Enqueue(p, cmd)  PROVE chain' \in [Pages -> Seq(Commands)]
    BY <1>2, <1>4, <1>6 DEF Enqueue
  <1>7. ASSUME NEW dir \in Buttons, Press(p, dir)  PROVE PageTypeOK'
    BY <1>1, <1>4, <1>5, <1>6, <1>7 DEF Press
  <1>8. ASSUME StopMove(p)  PROVE PageTypeOK'
    BY <1>1, <1>4, <1>6, <1>8 DEF StopMove
  <1>9. ASSUME Light(p)  PROVE PageTypeOK'
    BY <1>1, <1>4, <1>5, <1>6, <1>9 DEF Light
  <1>10. ASSUME Leave(p)  PROVE PageTypeOK'
    BY <1>4, <1>10 DEF Leave
  <1>11. ASSUME Answered(p)  PROVE PageTypeOK'
    BY <1>4, <1>11 DEF Answered, Catch
  <1>12. ASSUME Fetch(p)  PROVE PageTypeOK' /\ cgi' \in [Pids -> Process]
    <2>1. Head(chain[p]) \in Commands /\ Tail(chain[p]) \in Seq(Commands)
      BY <1>4, <1>12 DEF Fetch
    <2>2. cgi' \in [Pids -> Process]
      <3>1. [Unused EXCEPT !.cmd = Head(chain[p]), !.pc = "reply"] \in Process
        BY <2>1 DEF Unused, Process
      <3> QED  BY <1>12, <3>1 DEF Fetch, TypeOK, CgiTypeOK
    <2>3. PageTypeOK'
      BY <1>4, <1>12, <2>1 DEF Fetch, Catch
    <2> QED  BY <2>2, <2>3
  <1>13. PageTypeOK' /\ cgi' \in [Pids -> Process]
    <2> HIDE DEF PageTypeOK
    <2>1. CASE (\/ \E dir \in Buttons : Press(p, dir)
                \/ StopMove(p) \/ Light(p) \/ Leave(p) \/ Answered(p)) /\ Rest
      BY <1>7, <1>8, <1>9, <1>10, <1>11, <2>1 DEF TypeOK, CgiTypeOK
    <2> QED  BY <1>12, <2>1 DEF PageStep
  <1> QED  BY <1>3, <1>13 DEF TypeOK, CgiTypeOK

LEMMA ProcessTypes ==
  ASSUME TypeOK, NEW c \in Pids, ProcessStep(c)
  PROVE  TypeOK'
  <1> USE DEF TypeOK, CgiTypeOK
  <1>1. OnvifTypeOK' /\ UNCHANGED <<page, shells>>
    BY DEF ProcessStep, OnvifTypeOK, onvifvars, client, reading, Size, Lesser
  <1>2. cgi[c] \in Process /\ c \in Nat /\ cgi[c].cmd \in Commands
    BY ConstantFacts DEF Process
  <1>3. CASE Reply(c)
    BY <1>1, <1>2, <1>3 DEF Reply, Goto, ipc, QueueTypeOK, page, Process
  <1>4. CASE Command(c)
    <2>1. QueueTypeOK'
      BY <1>4, <1>2, MessageType, PostType DEF Command
    <2>2. cgi' \in [Pids -> Process]
      BY <1>4, <1>2 DEF Command, Goto, Process, Commands
    <2> QED  BY <1>1, <1>4, <2>1, <2>2 DEF Command, page
  <1>5. CASE OpenToken(c)
    <2>1. cgi' \in [Pids -> Process]
      <3>1. cgi' = [cgi EXCEPT ![c].pc = "write", ![c].holds = TRUE]
              \/ cgi' = [cgi EXCEPT ![c].pc = "fork"]
        BY <1>5, Zenon DEF OpenToken, Goto
      <3>2. CASE cgi' = [cgi EXCEPT ![c].pc = "write", ![c].holds = TRUE]
        BY <1>2, <3>2 DEF Process
      <3>3. CASE cgi' = [cgi EXCEPT ![c].pc = "fork"]
        BY <1>2, <3>3 DEF Process
      <3> QED  BY <3>1, <3>2, <3>3, Zenon
    <2>3. mishap' \in BOOLEAN
      <3>1. mishap' = TRUE \/ mishap' = mishap
        BY <1>5 DEF OpenToken
      <3> QED  BY <3>1, Zenon
    <2>2. token' \in Pids \union {None, Empty, Garbled} /\ QueueTypeOK'
      BY <1>5 DEF OpenToken, ipc, QueueTypeOK
    <2> QED  BY <1>1, <1>5, <2>1, <2>2, <2>3 DEF OpenToken, page
  <1>6. CASE WriteToken(c)
    BY <1>1, <1>2, <1>6 DEF WriteToken, ipc, QueueTypeOK, page, Process
  <1>7. CASE Fork(c)
    <2>1. cgi' \in [Pids -> Process]
      <3>1. cgi' = [cgi EXCEPT ![c].pc = "done", ![c].cap = "asleep"]
              \/ cgi' = [cgi EXCEPT ![c].pc = "done"]
        BY <1>7, Zenon DEF Fork, Goto
      <3>2. CASE cgi' = [cgi EXCEPT ![c].pc = "done", ![c].cap = "asleep"]
        BY <1>2, <3>2 DEF Process
      <3>3. CASE cgi' = [cgi EXCEPT ![c].pc = "done"]
        BY <1>2, <3>3 DEF Process
      <3> QED  BY <3>1, <3>2, <3>3, Zenon
    <2>3. mishap' \in BOOLEAN
      <3>1. mishap' = TRUE \/ mishap' = mishap
        BY <1>7 DEF Fork
      <3> QED  BY <3>1, Zenon
    <2>2. QueueTypeOK'
      BY <1>7 DEF Fork, ipc, QueueTypeOK
    <2> QED  BY <1>1, <1>7, <2>1, <2>2, <2>3 DEF Fork, page
  <1>8. CASE Unlink(c)
    BY <1>1, <1>2, <1>8 DEF Unlink, ipc, QueueTypeOK, page, Process
  <1>9. CASE CapWakes(c)
    BY <1>1, <1>2, <1>9 DEF CapWakes, ipc, QueueTypeOK, page, Process
  <1>10. CASE CapStops(c)
    <2>1. QueueTypeOK'
      BY <1>10, <1>2, MessageType, PostType DEF CapStops, Commands
    <2>2. cgi' \in [Pids -> Process]
      BY <1>10, <1>2 DEF CapStops, Process
    <2> QED  BY <1>1, <1>10, <2>1, <2>2 DEF CapStops, page
  <1> QED
    BY <1>3, <1>4, <1>5, <1>6, <1>7, <1>8, <1>9, <1>10 DEF ProcessStep, CgiStep, CapStep

LEMMA OrderType ==
  ASSUME NEW m, NEW k, NEW o \in Orders(m, k)
  PROVE  /\ o \in Envelope /\ o.from = "onvif" /\ o.op \in {"move", "stop", "preset"}
         /\ o.op = "move" => m = Move
         /\ m = Stop => o.op = "stop"
  <1>1. \A x, y : Direction(x, y) \in 0 .. 4
    BY DirValueType DEF Direction
  <1>2. \A t : PresetIndex(t) \in 0 .. 4
    BY DEF PresetIndex
  <1>3. Move # Stop /\ SetPreset # Stop /\ GotoPreset # Stop /\ Move # SetPreset
          /\ Move # GotoPreset /\ Stop # SetPreset /\ Stop # GotoPreset /\ SetPreset # GotoPreset
    BY DEF Move, Stop, SetPreset, GotoPreset, Method
  <1>4. \A op \in {"move", "stop", "preset"}, arg \in 0 .. 4 :
          /\ Order(op, arg) \in Envelope /\ Order(op, arg).from = "onvif"
          /\ Order(op, arg).op = op
    BY DEF Order, Envelope
  <1> HIDE DEF Order, Direction, PresetIndex
  <1>5. CASE m = Move
    <2> DEFINE d == Direction(IF k >= 1 THEN req.x ELSE 0, IF k >= 2 THEN req.y ELSE 0)
    <2>0. Orders(m, k) = {Order(IF d = 0 THEN "stop" ELSE "move", d)}
      BY <1>3, <1>5 DEF Orders
    <2>1. o = Order(IF d = 0 THEN "stop" ELSE "move", d)
      BY <2>0
    <2>2. d \in 0 .. 4
      BY <1>1
    <2> HIDE DEF d
    <2>3. CASE d = 0
      BY <1>3, <1>4, <1>5, <2>1, <2>3
    <2>4. CASE d # 0
      BY <1>3, <1>4, <1>5, <2>1, <2>2, <2>4
    <2> QED  BY <2>3, <2>4
  <1>6. CASE m = Stop
    <2>1. o = Order("stop", 0)
      BY <1>3, <1>6 DEF Orders
    <2> QED  BY <1>3, <1>4, <1>6, <2>1
  <1>7. CASE m = SetPreset
    <2>1. Orders(m, k) = {Order("preset", 0)}
      BY <1>3, <1>7 DEF Orders
    <2>2. o = Order("preset", 0)
      BY <2>1
    <2> QED  BY <1>3, <1>4, <1>7, <2>2
  <1>8. CASE m = GotoPreset
    <2>1. PICK t \in 0 .. 4 : o = Order("preset", t)
      BY <1>2, <1>3, <1>8 DEF Orders
    <2> QED  BY <1>3, <1>4, <1>8, <2>1
  <1>9. m \in {Move, Stop, SetPreset, GotoPreset}
    BY DEF Orders
  <1> QED  BY <1>5, <1>6, <1>7, <1>8, <1>9

LEMMA ShellTypes ==
  ASSUME TypeOK, NEW e \in ShellEnvelopes, Shell(e), UNCHANGED onvifvars
  PROVE  /\ TypeOK'
         /\ e \in Envelope /\ e.from = "shell"
  <1>1. e \in Envelope /\ e.from = "shell"
    BY DirValueType DEF ShellEnvelopes, Envelope
  <1>2. QueueTypeOK'
    BY <1>1, PostType DEF Shell, TypeOK
  <1>3. CgiTypeOK'
    BY ConstantFacts DEF Shell, TypeOK, CgiTypeOK, page
  <1>4. OnvifTypeOK'
    BY DEF TypeOK, OnvifTypeOK, onvifvars, client, reading, Size, Lesser
  <1> QED  BY <1>1, <1>2, <1>3, <1>4 DEF TypeOK

\* The daemon's envelopes, each of them or none.
LEMMA SendEnvType ==
  ASSUME QueueTypeOK, NEW e \in Envelope, SendEnv(e), UNCHANGED <<up, motor>>,
         g_mq_ok \in BOOLEAN
  PROVE  QueueTypeOK' /\ g_mq_ok' \in BOOLEAN
  <1>1. CASE g_mq_ok
    <2>1. QueueTypeOK'
      BY <1>1, PostType DEF SendEnv
    <2>2. g_mq_ok' = up /\ up \in BOOLEAN
      BY <1>1 DEF SendEnv, QueueTypeOK
    <2> QED  BY <2>1, <2>2
  <1>2. CASE ~g_mq_ok
    <2>1. g_mq_ok' = g_mq_ok /\ queue' = queue
      BY <1>2 DEF SendEnv
    <2>2. QueueTypeOK'
      BY <2>1 DEF QueueTypeOK
    <2> QED  BY <2>1, <2>2
  <1> QED  BY <1>1, <1>2

LEMMA ReadTypes ==
  ASSUME TypeOK, ReadStep
  PROVE  OnvifTypeOK'
  <1>1. /\ req' = req /\ given' = given /\ g_move_at' = g_move_at /\ g_mq_ok' = g_mq_ok
        /\ req.hdr \in Nat \ {0} /\ req.body \in Nat /\ Cap \in Nat \ {0}
        /\ given \in Nat /\ n \in Nat
    BY ConstantFacts
       DEF ReadStep, ReadSome, ReadEnd, client, TypeOK, OnvifTypeOK, Size, Lesser
  <1>2. CASE ReadEnd
    BY <1>1, <1>2 DEF ReadEnd, reading, TypeOK, OnvifTypeOK, Size, Lesser
  <1>3. CASE ReadSome
    <2>1. PICK k \in 1 .. Lesser(given - n, Cap - 1 - n) :
             /\ n' = n + k
             /\ hdr_end' = IF hdr_end = 0 /\ n' >= req.hdr THEN req.hdr ELSE hdr_end
      BY <1>3 DEF ReadSome
    <2>2. n' \in 0 .. Lesser(given, Cap - 1) /\ hdr_end' \in {0, req.hdr}
             /\ hdr_end' <= n'
      BY <1>1, <2>1 DEF TypeOK, OnvifTypeOK, Lesser
    <2>3. hdr_end' # 0 => Cap - 1 - hdr_end' \in Nat
      <3>1. CASE hdr_end = 0
        BY <1>1, <2>1, <2>2, <3>1 DEF Lesser
      <3>2. CASE hdr_end # 0
        BY <1>1, <2>1, <2>2, <3>2 DEF TypeOK, OnvifTypeOK, Lesser
      <3> QED  BY <3>1, <3>2
    <2>4. body_len' \in 0 .. req.body
      BY <1>1, <1>3, <2>2, <2>3 DEF ReadSome, TypeOK, OnvifTypeOK, Lesser
    <2> QED  BY <1>1, <1>3, <2>2, <2>4 DEF ReadSome, TypeOK, OnvifTypeOK, Size
  <1> QED  BY <1>2, <1>3 DEF ReadStep

\* What a handler does to the queue.
LEMMA ServeFacts ==
  ASSUME Serve
  PROVE  LET m == Route(req.action)
             e == Orders(m, n - req.hdr)
         IN  /\ \/ e = {} /\ queue' = queue /\ g_mq_ok' = g_mq_ok
                \/ \E o \in e : SendEnv(o)
             /\ g_move_at' = (m = Move \/ (m # Stop /\ g_move_at))
             /\ Done(m, e) /\ MkXaddr
  <1> DEFINE m == Route(req.action)
             e == Orders(m, n - req.hdr)
  <1>1. /\ IF e = {} THEN UNCHANGED <<queue, g_mq_ok>> ELSE \A o \in e : SendEnv(o)
        /\ g_move_at' = (m = Move \/ (m # Stop /\ g_move_at))
        /\ Done(m, e) /\ MkXaddr
    BY Zenon DEF Serve
  <1> HIDE DEF m, e
  <1>2. \/ e = {} /\ queue' = queue /\ g_mq_ok' = g_mq_ok
        \/ \E o \in e : SendEnv(o)
    <2>1. CASE e = {}
      BY <1>1, <2>1
    <2>2. CASE e # {}
      BY <1>1, <2>2
    <2> QED  BY <2>1, <2>2
  <1> QED  BY <1>1, <1>2, Zenon DEF m, e

\* The daemon's handlers and its cap keep the types.
LEMMA HandleTypes ==
  ASSUME TypeOK, Handle \/ CapFires
  PROVE  QueueTypeOK' /\ OnvifTypeOK'
  <1>1. /\ req' = req /\ given' = given /\ n' = n /\ hdr_end' = hdr_end
        /\ body_len' = body_len /\ have_cl' = have_cl /\ up' = up /\ motor' = motor
        /\ pc' = "select"
    <2>1. CASE Fault
      BY <2>1 DEF Fault, Done, client, reading
    <2>2. CASE Serve
      BY <2>2 DEF Serve, Done, client, reading
    <2>3. CASE CapFires
      BY <2>3 DEF CapFires, client, reading
    <2> QED  BY <2>1, <2>2, <2>3 DEF Handle
  <1>2. g_mq_ok \in BOOLEAN /\ g_move_at \in BOOLEAN /\ QueueTypeOK
    BY DEF TypeOK, OnvifTypeOK
  <1>3. QueueTypeOK' /\ g_mq_ok' \in BOOLEAN /\ g_move_at' \in BOOLEAN
    <2>1. CASE Fault
      BY <1>1, <1>2, <2>1 DEF Fault, QueueTypeOK
    <2>2. CASE Serve
      <3> DEFINE m == Route(req.action)
                 e == Orders(m, n - req.hdr)
      <3>1. /\ \/ e = {} /\ queue' = queue /\ g_mq_ok' = g_mq_ok
               \/ \E o \in e : SendEnv(o)
            /\ g_move_at' = (m = Move \/ (m # Stop /\ g_move_at))
        BY <2>2, ServeFacts, Zenon
      <3>2. \A o \in e : o \in Envelope
        BY OrderType
      <3> HIDE DEF m, e
      <3>3. g_move_at' \in BOOLEAN
        BY <3>1
      <3>4. CASE e = {} /\ queue' = queue /\ g_mq_ok' = g_mq_ok
        BY <1>1, <1>2, <3>3, <3>4 DEF QueueTypeOK
      <3>5. CASE \E o \in e : SendEnv(o)
        BY <1>1, <1>2, <3>2, <3>3, <3>5, SendEnvType
      <3> QED  BY <3>1, <3>4, <3>5
    <2>3. CASE CapFires
      <3>1. Order("stop", 0) \in Envelope
        BY DEF Order, Envelope
      <3> QED  BY <1>1, <1>2, <2>3, <3>1, SendEnvType DEF CapFires
    <2> QED  BY <2>1, <2>2, <2>3 DEF Handle
  <1> QED  BY <1>1, <1>3 DEF TypeOK, OnvifTypeOK, Size

LEMMA ClientTypes ==
  ASSUME TypeOK, (\E r \in Requests : Accept(r)) \/ Arrive \/ Lease
  PROVE  QueueTypeOK' /\ OnvifTypeOK'
  <1>1. QueueTypeOK' /\ g_mq_ok' = g_mq_ok /\ g_move_at' = g_move_at
    BY DEF Accept, Arrive, Lease, ipc, TypeOK, QueueTypeOK
  <1>2. CASE \E r \in Requests : Accept(r)
    <2>1. PICK r \in Requests : Accept(r)
      BY <1>2
    <2>2. r.hdr \in Nat \ {0} /\ r.body \in Nat /\ Cap \in Nat \ {0}
      BY ConstantFacts
    <2>3. /\ req' = r /\ given' = 0 /\ n' = 0 /\ hdr_end' = 0 /\ body_len' = 0
          /\ have_cl' = FALSE /\ pc' = "read"
      BY <2>1 DEF Accept
    <2>4. given' \in 0 .. Size(req') /\ n' \in 0 .. Lesser(given', Cap - 1)
      BY <2>2, <2>3 DEF Size, Lesser
    <2>5. have_cl' = (hdr_end' # 0)
      BY <2>3
    <2> QED  BY <1>1, <2>2, <2>3, <2>4, <2>5 DEF TypeOK, OnvifTypeOK
  <1>3. CASE Arrive
    <2>1. given' \in 0 .. Size(req) /\ given' >= given /\ req' = req /\ n' = n
            /\ req.hdr \in Nat \ {0} /\ req.body \in Nat /\ given \in Nat /\ n \in Nat
            /\ Cap \in Nat \ {0}
      BY <1>3, ConstantFacts DEF Arrive, reading, TypeOK, OnvifTypeOK, Size, Lesser
    <2>2. n' \in 0 .. Lesser(given', Cap - 1)
      BY <2>1 DEF TypeOK, OnvifTypeOK, Lesser
    <2> QED  BY <1>1, <1>3, <2>1, <2>2 DEF Arrive, reading, TypeOK, OnvifTypeOK, Size
  <1>4. CASE Lease
    BY <1>1, <1>4 DEF Lease, client, reading, TypeOK, OnvifTypeOK, Size, Lesser
  <1> QED  BY <1>2, <1>3, <1>4

LEMMA AppTypes ==
  ASSUME TypeOK, AppStep, UNCHANGED <<cgivars, onvifvars>>
  PROVE  TypeOK'
  <1>1. CgiTypeOK' /\ OnvifTypeOK'
    BY DEF TypeOK, CgiTypeOK, OnvifTypeOK, cgivars, page, onvifvars, client, reading,
           Size, Lesser
  <1>2. QueueTypeOK'
    <2>1. CASE AppUp
      BY <2>1 DEF AppUp, TypeOK, QueueTypeOK
    <2>2. CASE Dispatch
      <3>1. Head(queue) \in Envelope /\ Tail(queue) \in Seq(Envelope)
              /\ Len(Tail(queue)) <= Len(queue)
        BY <2>2 DEF Dispatch, TypeOK, QueueTypeOK
      <3>2. motor' \in Envelope
        BY <2>2, <3>1, StillType DEF Dispatch, TypeOK, QueueTypeOK
      <3> QED  BY <2>2, <3>1, <3>2, ConstantFacts DEF Dispatch, TypeOK, QueueTypeOK
    <2> QED  BY <2>1, <2>2 DEF AppStep
  <1> QED  BY <1>1, <1>2 DEF TypeOK

\* Every step is one of these.
LEMMA Steps ==
  ASSUME Next
  PROVE  \/ \E p \in Pages : PageStep(p) /\ UNCHANGED onvifvars
         \/ \E c \in Pids : ProcessStep(c)
         \/ \E e \in ShellEnvelopes : Shell(e) /\ UNCHANGED onvifvars
         \/ (ReadStep \/ Handle \/ CapFires) /\ UNCHANGED cgivars
         \/ ((\E r \in Requests : Accept(r)) \/ Arrive \/ Lease) /\ UNCHANGED cgivars
         \/ AppStep /\ UNCHANGED <<cgivars, onvifvars>>
  BY DEF Next, CgiNext, OnvifNext, DaemonStep, ProcessStep

LEMMA InitTypes == Init => TypeOK
  <1> SUFFICES ASSUME Init  PROVE TypeOK
    OBVIOUS
  <1>1. QueueTypeOK
    BY StillType, ConstantFacts DEF Init, QueueInit, QueueTypeOK
  <1>2. CgiTypeOK
    <2>1. Unused \in Process
      BY DEF Unused, Process, Commands
    <2>2. cgi \in [Pids -> Process]
      BY <2>1 DEF Init, CgiInit
    <2>3. /\ token \in Pids \union {None, Empty, Garbled}
          /\ lastcmd \in Pids \union {0} /\ asks \in [Pages -> 0 .. MaxAsks]
          /\ shells \in 0 .. MaxShell /\ flight \in [Pages -> Pids \union {0}]
      BY ConstantFacts DEF Init, CgiInit
    <2>4. mishap \in BOOLEAN /\ overtaken \in BOOLEAN /\ failed \in [Pages -> BOOLEAN]
      BY DEF Init, CgiInit
    <2>5. moving \in [Pages -> Moves \union {"no"}] /\ chain \in [Pages -> Seq(Commands)]
      BY DEF Init, CgiInit
    <2> QED  BY <2>2, <2>3, <2>4, <2>5 DEF CgiTypeOK
  <1>3. OnvifTypeOK
    <2>1. /\ req = NoRequest /\ given = 0 /\ n = 0 /\ hdr_end = 0 /\ body_len = 0
          /\ have_cl = FALSE /\ pc = "select" /\ g_move_at = FALSE /\ g_mq_ok = TRUE
      BY DEF Init, OnvifInit, ReadInit
    <2>2. given \in 0 .. Size(req) /\ n \in 0 .. Lesser(given, Cap - 1)
            /\ body_len \in 0 .. req.body
      BY <2>1, ConstantFacts DEF Size, Lesser
    <2>3. have_cl = (hdr_end # 0)
      BY <2>1
    <2>4. /\ pc \in {"select", "read", "handle"} /\ req \in Requests \union {NoRequest}
          /\ hdr_end \in {0, req.hdr} /\ hdr_end <= n
      BY <2>1
    <2>5. g_move_at \in BOOLEAN /\ g_mq_ok \in BOOLEAN
      BY <2>1
    <2> QED  BY <2>2, <2>3, <2>4, <2>5 DEF OnvifTypeOK
  <1> QED  BY <1>1, <1>2, <1>3 DEF TypeOK

LEMMA NextTypes == TypeOK /\ [Next]_vars => TypeOK'
  <1> SUFFICES ASSUME TypeOK, [Next]_vars  PROVE TypeOK'
    OBVIOUS
  <1>1. CASE UNCHANGED vars
    BY <1>1 DEF vars, ipc, cgivars, page, onvifvars, client, reading, TypeOK, QueueTypeOK,
                CgiTypeOK, OnvifTypeOK, Size, Lesser
  <1>2. UNCHANGED cgivars => CgiTypeOK'
    BY DEF TypeOK, cgivars, page, CgiTypeOK
  <1>3. ReadStep => QueueTypeOK'
    BY DEF TypeOK, QueueTypeOK, ReadStep, ReadSome, ReadEnd, ipc
  <1>4. CASE Next
    BY <1>2, <1>3, <1>4, Steps, PageTypes, ProcessTypes, ShellTypes, ReadTypes, HandleTypes,
       ClientTypes, AppTypes DEF TypeOK
  <1> QED  BY <1>1, <1>4

\* TypeOK holds for any number of pages, processes, requests and envelopes.
THEOREM TypeCorrect == Spec => []TypeOK
  BY InitTypes, NextTypes, PTL DEF Spec
-----------------------------------------------------------------------------
(* The token *)

\* One process goes on, the others stay.
Only(c, pc2, cap2) ==
    /\ cgi'[c].pc = pc2 /\ cgi'[c].cap = cap2 /\ cgi'[c].cmd = cgi[c].cmd
    /\ \A d \in Pids \ {c} : cgi'[d] = cgi[d]

LEMMA Reached ==
  ASSUME TypeOK, NEW c \in Pids
  PROVE  /\ Reply(c) => Only(c, "send", cgi[c].cap)
         /\ Command(c) => /\ cgi[c].cmd \in Moves => Only(c, "open", cgi[c].cap)
                          /\ cgi[c].cmd = "stop" => Only(c, "unlink", cgi[c].cap)
                          /\ cgi[c].cmd = "light" => Only(c, "done", cgi[c].cap)
         /\ WriteToken(c) => Only(c, "fork", cgi[c].cap)
         /\ CapWakes(c) => Only(c, cgi[c].pc, IF token = c THEN "stop" ELSE "done")
         /\ CapStops(c) => Only(c, cgi[c].pc, "done")
  <1>1. cgi \in [Pids -> Process] /\ "stop" \notin Moves /\ "light" \notin Moves
    BY DEF TypeOK, CgiTypeOK, Moves
  <1>2. Reply(c) => Only(c, "send", cgi[c].cap)
    BY <1>1 DEF Reply, Goto, Only, Process
  <1>3. Command(c) => /\ cgi[c].cmd \in Moves => Only(c, "open", cgi[c].cap)
                      /\ cgi[c].cmd = "stop" => Only(c, "unlink", cgi[c].cap)
                      /\ cgi[c].cmd = "light" => Only(c, "done", cgi[c].cap)
    BY <1>1 DEF Command, Goto, Only, Process
  <1>4. WriteToken(c) => Only(c, "fork", cgi[c].cap)
    BY <1>1 DEF WriteToken, Only, Process
  <1>5. CapWakes(c) => Only(c, cgi[c].pc, IF token = c THEN "stop" ELSE "done")
    BY <1>1 DEF CapWakes, Only, Process
  <1>6. CapStops(c) => Only(c, cgi[c].pc, "done")
    BY <1>1 DEF CapStops, Only, Process
  <1> QED  BY <1>2, <1>3, <1>4, <1>5, <1>6

LEMMA TokenAlone ==
  ASSUME Places, Latest, UNCHANGED <<cgi, token, lastcmd, mishap>>
  PROVE  Places' /\ Latest'
  BY DEF Places, Latest, Handled, Midway

LEMMA TokenFetch ==
  ASSUME TypeOK, Places, Latest, NEW p \in Pages, PageStep(p)
  PROVE  Places' /\ Latest'
  <1>1. CASE UNCHANGED <<cgi, token, lastcmd, mishap>>
    BY <1>1, TokenAlone
  <1>2. CASE Fetch(p) /\ UNCHANGED <<token, lastcmd, mishap>> /\ cgi' # cgi
    <2>1. PICK c \in Pids :
            /\ cgi[c].pc = "none"
            /\ cgi' = [cgi EXCEPT ![c] = [Unused EXCEPT !.cmd = Head(chain[p]),
                                                        !.pc = "reply"]]
      BY <1>2 DEF Fetch
    <2>2. /\ cgi'[c].pc = "reply" /\ cgi'[c].cap = "none"
          /\ \A d \in Pids \ {c} : cgi'[d] = cgi[d]
      BY <2>1 DEF Unused, TypeOK, CgiTypeOK
    <2>3. Places'
      BY <2>2 DEF Places
    <2>4. ~mishap => lastcmd # c
      BY <2>1, ConstantFacts DEF Latest, Handled
    <2>5. lastcmd \in Pids \union {0}
      BY DEF TypeOK, CgiTypeOK
    <2> QED  BY <1>2, <2>2, <2>3, <2>4, <2>5 DEF Latest, Handled, Midway
  <1> QED  BY <1>1, <1>2 DEF PageStep

LEMMA TokenProcess ==
  ASSUME TypeOK, Places, Latest, NEW c \in Pids, ProcessStep(c)
  PROVE  Places' /\ Latest'
  <1>1. /\ c # 0 /\ c # None /\ c # Empty /\ lastcmd \in Pids \union {0}
        /\ "stop" \notin Moves /\ "light" \notin Moves
        /\ cgi[c].cmd \in Moves \union {"stop", "light"}
    BY ConstantFacts DEF TypeOK, CgiTypeOK, Process, Commands, Moves, None, Empty
  <1>2. CASE Reply(c)
    <2>1. /\ Only(c, "send", cgi[c].cap) /\ cgi[c].pc = "reply"
          /\ token' = token /\ lastcmd' = lastcmd /\ mishap' = mishap
      BY <1>2, Reached DEF Reply, At
    <2>2. Places'
      BY <2>1 DEF Places, Only
    <2>3. ~mishap => lastcmd # c
      BY <1>1, <2>1 DEF Latest, Handled
    <2> QED  BY <1>1, <2>1, <2>2, <2>3 DEF Latest, Handled, Midway, Only
  <1>3. CASE Command(c)
    <2>1. /\ cgi[c].pc = "send" /\ token' = token
          /\ cgi[c].cmd \in Moves => Only(c, "open", cgi[c].cap)
          /\ cgi[c].cmd = "stop" => Only(c, "unlink", cgi[c].cap)
          /\ cgi[c].cmd = "light" => Only(c, "done", cgi[c].cap)
      BY <1>3, Reached DEF Command, At
    <2>2. Places'
      BY <1>1, <2>1 DEF Places, Only
    <2>3. CASE cgi[c].cmd = "light"
      <3>1. lastcmd' = lastcmd /\ mishap' = mishap
        BY <1>3, <2>3 DEF Command
      <3>2. ~mishap => lastcmd # c
        BY <1>1, <2>1 DEF Latest, Handled
      <3> QED  BY <1>1, <2>1, <2>2, <2>3, <3>1, <3>2 DEF Latest, Handled, Midway, Only
    <2>4. CASE cgi[c].cmd # "light"
      <3>1. /\ lastcmd' = c
            /\ mishap' = (mishap \/ \E d \in Pids : Midway(d))
        BY <1>3, <2>4 DEF Command
      <3>2. ~mishap' => \A d \in Pids : ~Midway(d)
        BY <3>1
      <3>3. Handled' \/ mishap'
        BY <1>1, <2>1, <2>4, <3>1, <3>2 DEF Handled, Midway, Only
      <3> QED  BY <2>2, <3>3 DEF Latest
    <2> QED  BY <2>3, <2>4
  <1>4. CASE OpenToken(c)
    <2>1. cgi[c].pc = "open" /\ lastcmd' = lastcmd
      BY <1>4 DEF OpenToken, At
    <2>2. Places'
      <3>1. cgi' = [cgi EXCEPT ![c].pc = "write", ![c].holds = TRUE]
              \/ cgi' = [cgi EXCEPT ![c].pc = "fork"]
        BY <1>4, Zenon DEF OpenToken, Goto
      <3>2. Only(c, cgi'[c].pc, cgi[c].cap) /\ cgi'[c].pc \in {"write", "fork"}
        BY <3>1 DEF Only, Process, TypeOK, CgiTypeOK
      <3> QED  BY <2>1, <3>2 DEF Places, Only
    <2>3. ASSUME ~mishap'  PROVE Handled'
      <3>1. /\ token' = Empty /\ ~mishap
            /\ cgi' = [cgi EXCEPT ![c].pc = "write", ![c].holds = TRUE]
        BY <1>4, <2>3 DEF OpenToken
      <3>2. /\ Only(c, "write", cgi[c].cap) /\ cgi'[c].holds
        BY <3>1 DEF Only, TypeOK, CgiTypeOK, Process
      <3>3. c = lastcmd
        BY <2>1, <3>1 DEF Latest, Handled, Midway
      <3> QED  BY <1>1, <2>1, <3>1, <3>2, <3>3 DEF Places, Latest, Handled, Midway, Only
    <2> QED  BY <2>2, <2>3 DEF Latest
  <1>5. CASE WriteToken(c)
    <2>1. /\ Only(c, "fork", cgi[c].cap) /\ cgi[c].pc = "write"
          /\ lastcmd' = lastcmd /\ mishap' = mishap
      BY <1>5, Reached DEF WriteToken, At
    <2>2. Places'
      BY <2>1 DEF Places, Only
    <2>3. ~mishap => c = lastcmd /\ cgi[c].cmd \in Moves /\ token' = c
      BY <1>5, <1>1, <2>1 DEF Places, Latest, Handled, Midway, WriteToken
    <2> QED  BY <1>1, <2>1, <2>2, <2>3 DEF Latest, Handled, Midway, Only
  <1>6. CASE Fork(c)
    <2>1. cgi[c].pc = "fork" /\ lastcmd' = lastcmd /\ token' = token
      BY <1>6 DEF Fork, At
    <2>2. Places'
      <3>1. cgi' = [cgi EXCEPT ![c].pc = "done", ![c].cap = "asleep"]
              \/ cgi' = [cgi EXCEPT ![c].pc = "done"]
        BY <1>6, Zenon DEF Fork, Goto
      <3>2. Only(c, "done", cgi'[c].cap)
        BY <3>1 DEF Only, Process, TypeOK, CgiTypeOK
      <3> QED  BY <2>1, <3>2 DEF Places, Only
    <2>3. ASSUME ~mishap'  PROVE Handled'
      <3>1. ~mishap /\ cgi' = [cgi EXCEPT ![c].pc = "done", ![c].cap = "asleep"]
        BY <1>6, <2>3 DEF Fork
      <3>2. Only(c, "done", "asleep")
        BY <3>1 DEF Only, TypeOK, CgiTypeOK, Process
      <3>3. Handled /\ cgi[c].cmd \in Moves
        BY <2>1, <3>1 DEF Places, Latest
      <3>4. \A d \in Pids : Midway(d)' => d = lastcmd'
        BY <2>1, <3>2, <3>3 DEF Handled, Midway, Only
      <3> QED  BY <1>1, <2>1, <3>2, <3>3, <3>4 DEF Handled, Only
    <2> QED  BY <2>2, <2>3 DEF Latest
  <1>7. CASE Unlink(c)
    <2>1. /\ cgi[c].pc = "unlink" /\ lastcmd' = lastcmd /\ mishap' = mishap /\ token' = None
          /\ \A d \in Pids : /\ cgi'[d].cmd = cgi[d].cmd /\ cgi'[d].cap = cgi[d].cap
                             /\ cgi'[d].pc = IF d = c THEN "done" ELSE cgi[d].pc
      BY <1>7 DEF Unlink, At, TypeOK, CgiTypeOK, Process
    <2>2. Places'
      BY <2>1 DEF Places
    <2>3. ~mishap => c = lastcmd /\ cgi[c].cmd \notin Moves
      BY <1>1, <2>1 DEF Places, Latest, Handled, Midway
    <2> QED  BY <1>1, <2>1, <2>2, <2>3 DEF Latest, Handled, Midway
  <1>8. CASE CapWakes(c) \/ CapStops(c)
    <2>1. /\ Only(c, cgi[c].pc, cgi'[c].cap) /\ cgi'[c].cap \in {"stop", "done"}
          /\ cgi[c].cap # "none"
          /\ token' = token /\ lastcmd' = lastcmd /\ mishap' = mishap
      BY <1>8, Reached DEF CapWakes, CapStops, Only
    <2>2. Places'
      BY <2>1 DEF Places, Only
    <2>3. cgi[c].pc = "done"
      BY <2>1 DEF Places
    <2> QED  BY <1>1, <2>1, <2>2, <2>3 DEF Latest, Handled, Midway, Only
  <1> QED
    BY <1>2, <1>3, <1>4, <1>5, <1>6, <1>7, <1>8 DEF ProcessStep, CgiStep, CapStep

\* A process leaves the caps of the others alone.
LEMMA CapsKept ==
  ASSUME TypeOK, NEW c \in Pids, ProcessStep(c), NEW d \in Pids \ {c}
  PROVE  cgi'[d].cap = cgi[d].cap
  <1>1. cgi \in [Pids -> Process]
    BY DEF TypeOK, CgiTypeOK
  <1>2. CASE OpenToken(c) \/ Fork(c)
    <2>1. \/ cgi' = [cgi EXCEPT ![c].pc = "write", ![c].holds = TRUE]
          \/ cgi' = [cgi EXCEPT ![c].pc = "fork"]
          \/ cgi' = [cgi EXCEPT ![c].pc = "done", ![c].cap = "asleep"]
          \/ cgi' = [cgi EXCEPT ![c].pc = "done"]
      BY <1>2, Zenon DEF OpenToken, Fork, Goto
    <2> QED  BY <1>1, <2>1
  <1>3. CASE Unlink(c)
    BY <1>1, <1>3 DEF Unlink, Process
  <1>4. CASE Command(c)
    BY <1>1, <1>4 DEF Command, Goto
  <1>5. CASE Reply(c) \/ WriteToken(c) \/ CapWakes(c) \/ CapStops(c)
    BY <1>5, Reached DEF Only
  <1> QED  BY <1>2, <1>3, <1>4, <1>5 DEF ProcessStep, CgiStep, CapStep

TokenIInv == TypeOK /\ Places /\ Latest

LEMMA InitToken == Init => TokenIInv
  <1> SUFFICES ASSUME Init  PROVE Places /\ Latest
    BY InitTypes DEF TokenIInv
  <1>1. cgi = [c \in Pids |-> Unused] /\ token = None /\ lastcmd = 0
    BY DEF Init, CgiInit
  <1>2. \A c \in Pids : cgi[c].pc = "none" /\ cgi[c].cap = "none"
    BY <1>1 DEF Unused
  <1> QED  BY <1>1, <1>2 DEF Places, Latest, Handled, Midway

LEMMA NextToken == TokenIInv /\ [Next]_vars => TokenIInv'
  <1> SUFFICES ASSUME TokenIInv, [Next]_vars  PROVE Places' /\ Latest'
    BY NextTypes DEF TokenIInv
  <1>1. TypeOK /\ Places /\ Latest
    BY DEF TokenIInv
  <1>2. CASE UNCHANGED cgivars
    BY <1>1, <1>2, TokenAlone DEF cgivars
  <1>3. CASE \E p \in Pages : PageStep(p)
    BY <1>1, <1>3, TokenFetch
  <1>4. CASE \E c \in Pids : ProcessStep(c)
    BY <1>1, <1>4, TokenProcess
  <1>5. CASE \E e \in ShellEnvelopes : Shell(e)
    BY <1>1, <1>5, TokenAlone DEF Shell
  <1>6. UNCHANGED vars => UNCHANGED cgivars
    BY DEF vars
  <1> QED  BY <1>2, <1>3, <1>4, <1>5, <1>6, Steps

LEMMA TokenInvariant == Spec => []TokenIInv
  BY InitToken, NextToken, PTL DEF Spec

\* With no two commands overlapping, /tmp/ptz_active names the latest move, and is
\* gone after a stop.
THEOREM TokenTellsTheorem == Spec => []TokenTells
  <1>1. TokenIInv => TokenTells
    <2> SUFFICES ASSUME TokenIInv, ~mishap, \A c \in Pids : ~Midway(c)
                 PROVE  token = IF lastcmd # 0 /\ cgi[lastcmd].cmd \in Moves
                                  THEN lastcmd ELSE None
      BY DEF TokenTells
    <2>1. Handled /\ Places /\ lastcmd \in Pids \union {0}
      BY DEF TokenIInv, Latest, TypeOK, CgiTypeOK
    <2> QED  BY <2>1 DEF Handled, Midway, Places
  <1> QED  BY <1>1, TokenInvariant, PTL

\* A cap that decides to stop the camera is that of the latest command.
THEOREM CapIsDueTheorem == Spec => CapIsDue
  <1> DEFINE Due == \A c \in Pids :
         (cgi[c].cap = "asleep" /\ cgi'[c].cap = "stop"
            /\ ~mishap /\ \A d \in Pids : ~Midway(d))
           => lastcmd = c /\ cgi[c].cmd \in Moves
  <1>1. TokenIInv /\ [Next]_vars => [Due]_vars
    <2> SUFFICES ASSUME TokenIInv, Next, NEW c \in Pids,
                        cgi[c].cap = "asleep", cgi'[c].cap = "stop",
                        ~mishap, \A d \in Pids : ~Midway(d)
                 PROVE  lastcmd = c /\ cgi[c].cmd \in Moves
      OBVIOUS
    <2>1. TypeOK /\ Places /\ Handled /\ cgi[c].pc = "done" /\ cgi[c].cmd \in Moves
            /\ c # 0 /\ c # None
      BY ConstantFacts DEF TokenIInv, Places, Latest, None
    <2>2. cgi' # cgi
      OBVIOUS
    <2>3. token = c
      <3>1. CASE \E p \in Pages : PageStep(p)
        <4>1. PICK p \in Pages : Fetch(p)
          BY <2>2, <3>1 DEF PageStep
        <4>2. PICK d \in Pids :
                /\ cgi[d].pc = "none"
                /\ cgi' = [cgi EXCEPT ![d] = [Unused EXCEPT !.cmd = Head(chain[p]),
                                                            !.pc = "reply"]]
          BY <2>2, <4>1 DEF Fetch
        <4>3. cgi'[c] = cgi[c]
          BY <2>1, <4>2 DEF TypeOK, CgiTypeOK
        <4> QED  BY <4>3
      <3>2. ASSUME NEW d \in Pids, ProcessStep(d)  PROVE token = c
        <4>1. CASE d # c
          <5>1. cgi'[c].cap = cgi[c].cap
            BY <2>1, <3>2, <4>1, CapsKept
          <5> QED  BY <5>1
        <4>2. CASE d = c
          <5>1. CapWakes(c)
            BY <2>1, <3>2, <4>2
               DEF ProcessStep, CgiStep, CapStep, Reply, Command, OpenToken, WriteToken, Fork,
                   Unlink, CapStops, At
          <5> QED  BY <2>1, <5>1, Reached DEF Only
        <4> QED  BY <4>1, <4>2
      <3>3. CASE UNCHANGED cgivars \/ \E e \in ShellEnvelopes : Shell(e)
        BY <2>2, <3>3 DEF cgivars, Shell
      <3> QED  BY <3>1, <3>2, <3>3, Steps
    <2>4. lastcmd \in Pids \union {0}
      BY <2>1 DEF TypeOK, CgiTypeOK
    <2>5. lastcmd # 0 => ~Midway(lastcmd)
      BY <2>4
    <2>6. lastcmd = c
      BY <2>1, <2>3, <2>5 DEF Handled, Midway
    <2> QED  BY <2>1, <2>6
  <1> QED  BY <1>1, TokenInvariant, PTL DEF Spec, CapIsDue
-----------------------------------------------------------------------------
(***************************************************************************)
(* Who stops the camera, and what a page shows                             *)
(***************************************************************************)

\* There is nothing in the queue of an app that is not there.
AppGone == ~up => queue = <<>> /\ motor = Still

InQueue(e) == e = motor \/ \E i \in DOMAIN queue : queue[i] = e

Early == {"none", "reply", "send"}

\* A process sends its command and goes on, and a daemon that once could not open
\* the queue has sent nothing and never will.
Sender(e) ==
    /\ e.from = "cgi" => /\ e.id \in Pids /\ cgi[e.id].pc \notin Early
                         /\ e.op = "move" => cgi[e.id].cmd \in Moves
    /\ e.from = "onvif" => g_mq_ok

Senders == \A e : InQueue(e) => Sender(e)

\* Processes that have sent stay so.
Kept == \A c \in Pids : cgi[c].pc \notin Early =>
          cgi'[c].pc \notin Early /\ cgi'[c].cmd = cgi[c].cmd

WatchIInv == TokenIInv /\ AppGone /\ Senders /\ Watched
-----------------------------------------------------------------------------
(* What is obeyed *)

Guarded(e) ==
    /\ e.from = "onvif" => g_move_at
    /\ e.from = "cgi" /\ ~mishap =>
         /\ e.id = lastcmd
         /\ cgi[e.id].cap \in {"asleep", "stop"} \/ cgi[e.id].pc # "done"

LEMMA WatchedEach ==
  Watched <=> \A e : e.op = "move" /\ Obeyed(e) => Guarded(e)
  <1>1. \A e : Obeyed(e) => e \in {motor} \union {queue[i] : i \in DOMAIN queue}
    BY DEF Obeyed
  <1> QED  BY <1>1 DEF Watched, Guarded

LEMMA WatchedEachNext ==
  Watched' <=> \A e : e.op = "move" /\ Obeyed(e)' => Guarded(e)'
  <1>1. \A e : Obeyed(e)' => e \in ({motor} \union {queue[i] : i \in DOMAIN queue})'
    BY DEF Obeyed
  <1> QED  BY <1>1 DEF Watched, Guarded

\* What comes to the end of the queue is obeyed; a light mode or a preset leaves
\* the motor to what was before.
LEMMA ObeyedAppend ==
  ASSUME QueueTypeOK, NEW x \in Envelope, queue' = Append(queue, x), motor' = motor,
         NEW e, Obeyed(e)'
  PROVE  /\ Drives(x) => e = x
         /\ ~Drives(x) /\ Drives(e) => Obeyed(e)
  <1>1. /\ DOMAIN queue = 1 .. Len(queue) /\ Len(queue) \in Nat
        /\ DOMAIN queue' = 1 .. Len(queue) + 1 /\ queue'[Len(queue) + 1] = x
        /\ \A i \in DOMAIN queue : queue'[i] = queue[i]
    BY DEF QueueTypeOK
  <1>2. \/ \E i \in DOMAIN queue' : /\ queue'[i] = e /\ Drives(e)
                                    /\ ~\E j \in DOMAIN queue' : j > i /\ Drives(queue'[j])
        \/ motor = e /\ ~\E j \in DOMAIN queue' : j > 0 /\ Drives(queue'[j])
    BY DEF Obeyed
  <1>3. ASSUME Drives(x)  PROVE e = x
    BY <1>1, <1>2, <1>3
  <1>4. ASSUME ~Drives(x), Drives(e)  PROVE Obeyed(e)
    <2>1. CASE motor = e /\ ~\E j \in DOMAIN queue' : j > 0 /\ Drives(queue'[j])
      BY <1>1, <2>1 DEF Obeyed
    <2>2. ASSUME NEW i \in DOMAIN queue', queue'[i] = e,
                 ~\E j \in DOMAIN queue' : j > i /\ Drives(queue'[j])
          PROVE  Obeyed(e)
      <3>1. i \in DOMAIN queue /\ queue[i] = e
        BY <1>1, <1>4, <2>2
      <3>2. ~\E j \in DOMAIN queue : j > i /\ Drives(queue[j])
        BY <1>1, <2>2
      <3> QED  BY <1>4, <3>1, <3>2 DEF Obeyed
    <2> QED  BY <1>2, <2>1, <2>2
  <1> QED  BY <1>3, <1>4

LEMMA ObeyedPost ==
  ASSUME QueueTypeOK, AppGone, NEW x \in Envelope, Post(x), motor' = motor,
         NEW e, e.op = "move", Obeyed(e)'
  PROVE  IF Drives(x) THEN e = x ELSE Obeyed(e)
  <1>1. CASE up
    BY <1>1, ObeyedAppend DEF Post, Drives
  <1>2. CASE ~up
    <2>1. queue' = <<>> /\ motor' = Still
      BY <1>2 DEF Post, AppGone
    <2>2. e = Still
      BY <2>1 DEF Obeyed
    <2> QED  BY <2>2 DEF Still
  <1> QED  BY <1>1, <1>2

LEMMA ObeyedDispatch ==
  ASSUME QueueTypeOK, Dispatch, NEW e, e.op = "move", Obeyed(e)'
  PROVE  Obeyed(e)
  <1>1. /\ DOMAIN queue = 1 .. Len(queue) /\ Len(queue) \in Nat \ {0}
        /\ DOMAIN queue' = 1 .. Len(queue) - 1 /\ Head(queue) = queue[1]
        /\ \A i \in DOMAIN queue' : queue'[i] = queue[i + 1]
    BY DEF Dispatch, QueueTypeOK
  <1>2. /\ queue[1].op = "move" => motor' = queue[1]
        /\ queue[1].op = "stop" => motor' = Still
        /\ ~Drives(queue[1]) => motor' = motor
    BY <1>1 DEF Dispatch, Drives
  <1>3. ASSUME NEW i \in DOMAIN queue', queue'[i] = e,
               ~\E j \in DOMAIN queue' : j > i /\ Drives(queue'[j])
        PROVE  Obeyed(e)
    <2>1. i + 1 \in DOMAIN queue /\ queue[i + 1] = e
      BY <1>1, <1>3
    <2>2. ASSUME NEW j \in DOMAIN queue, j > i + 1  PROVE ~Drives(queue[j])
      <3>1. j - 1 \in DOMAIN queue' /\ j - 1 > i /\ queue'[j - 1] = queue[j]
        BY <1>1, <2>2
      <3> QED  BY <1>3, <3>1
    <2> QED  BY <2>1, <2>2 DEF Obeyed, Drives
  <1>4. ASSUME motor' = e, ~\E j \in DOMAIN queue' : j > 0 /\ Drives(queue'[j])
        PROVE  Obeyed(e)
    <2>1. ASSUME NEW j \in DOMAIN queue, j > 1  PROVE ~Drives(queue[j])
      <3>1. j - 1 \in DOMAIN queue' /\ j - 1 > 0 /\ queue'[j - 1] = queue[j]
        BY <1>1, <2>1
      <3> QED  BY <1>4, <3>1
    <2>2. CASE queue[1].op = "move"
      BY <1>1, <1>2, <1>4, <2>1, <2>2 DEF Obeyed, Drives
    <2>3. CASE queue[1].op = "stop"
      BY <1>2, <1>4, <2>3 DEF Still
    <2>4. CASE ~Drives(queue[1])
      BY <1>1, <1>2, <1>4, <2>1, <2>4 DEF Obeyed
    <2> QED  BY <2>2, <2>3, <2>4 DEF Drives
  <1> QED  BY <1>3, <1>4 DEF Obeyed

LEMMA InQueuePost ==
  ASSUME QueueTypeOK, NEW x \in Envelope, Post(x), UNCHANGED <<up, motor>>,
         NEW e, InQueue(e)'
  PROVE  (up /\ e = x) \/ InQueue(e)
  <1>1. CASE up
    <2>1. /\ DOMAIN queue' = 1 .. Len(queue) + 1 /\ queue'[Len(queue) + 1] = x
          /\ DOMAIN queue = 1 .. Len(queue) /\ Len(queue) \in Nat
          /\ \A i \in DOMAIN queue : queue'[i] = queue[i]
      BY <1>1 DEF Post, QueueTypeOK
    <2> QED  BY <1>1, <2>1 DEF InQueue
  <1>2. CASE ~up
    BY <1>2 DEF Post, InQueue
  <1> QED  BY <1>1, <1>2

LEMMA AppGonePost ==
  ASSUME AppGone, NEW x, Post(x), UNCHANGED <<up, motor>>
  PROVE  AppGone'
  BY DEF AppGone, Post

\* Steps that send nothing and take nothing.
LEMMA WatchQuiet ==
  ASSUME WatchIInv, UNCHANGED <<ipc, g_mq_ok, g_move_at>>, Kept,
         \A e : Guarded(e) /\ Sender(e) /\ e.op = "move" => Guarded(e)'
  PROVE  AppGone' /\ Senders' /\ Watched'
  <1>1. UNCHANGED <<up, queue, motor, g_mq_ok>>
    BY DEF ipc
  <1>2. AppGone' /\ Senders'
    BY <1>1 DEF WatchIInv, AppGone, Senders, Sender, InQueue, Kept
  <1>3. ASSUME NEW e, e.op = "move", Obeyed(e)'  PROVE Guarded(e)'
    <2>1. Obeyed(e) /\ InQueue(e)
      BY <1>1, <1>3 DEF Obeyed, InQueue
    <2>2. Guarded(e) /\ Sender(e)
      BY <1>3, <2>1, WatchedEach DEF WatchIInv, Senders
    <2> QED  BY <1>3, <2>1, <2>2
  <1>4. (\A e : e.op = "move" /\ Obeyed(e)' => Guarded(e)') => Watched'
    <2>1. Watched' <=> \A e : e.op = "move" /\ Obeyed(e)' => Guarded(e)'
      BY WatchedEachNext
    <2> QED  BY <2>1
  <1> QED  BY <1>2, <1>3, <1>4
-----------------------------------------------------------------------------
(* Steps *)

\* A step that sends x.
LEMMA WatchPost ==
  ASSUME WatchIInv, NEW x \in Envelope, Post(x), UNCHANGED <<up, motor>>, Kept,
         g_mq_ok' = g_mq_ok \/ g_mq_ok' = up, up => Sender(x)',
         up /\ x.op = "move" => Guarded(x)',
         ~Drives(x) => \A e : Guarded(e) /\ Sender(e) => Guarded(e)'
  PROVE  AppGone' /\ Senders' /\ Watched'
  <1>1. QueueTypeOK /\ AppGone /\ Senders
    BY DEF WatchIInv, TokenIInv, TypeOK
  <1>2. AppGone'
    BY <1>1, AppGonePost
  <1>3. ASSUME ~up, NEW e, InQueue(e)'  PROVE e = Still
    BY <1>1, <1>3 DEF Post, AppGone, InQueue
  <1>4. Senders'
    <2>1. CASE ~up
      BY <1>3, <2>1 DEF Senders, Sender, Still
    <2>2. CASE up
      <3>1. ASSUME NEW e, InQueue(e)'  PROVE e = x \/ InQueue(e)
        BY <1>1, <3>1, InQueuePost
      <3>2. ASSUME NEW e, InQueue(e)  PROVE Sender(e)'
        <4>1. g_mq_ok => g_mq_ok'
          BY <2>2, Zenon
        <4>2. Sender(e)
          BY <1>1, <3>2 DEF Senders
        <4> QED  BY <4>1, <4>2, Zenon DEF Sender, Kept
      <3> QED  BY <2>2, <3>1, <3>2 DEF Senders
    <2> QED  BY <2>1, <2>2
  <1>5. ASSUME NEW e, e.op = "move", Obeyed(e)'  PROVE Guarded(e)'
    <2>0. up
      <3>1. ~up => e = Still
        BY <1>3, <1>5 DEF Obeyed, InQueue
      <3> QED  BY <1>5, <3>1 DEF Still
    <2>1. CASE Drives(x)
      BY <1>1, <1>5, <2>0, <2>1, ObeyedPost
    <2>2. CASE ~Drives(x)
      <3>1. Obeyed(e)
        BY <1>1, <1>5, <2>2, ObeyedPost
      <3>2. Guarded(e) /\ Sender(e)
        BY <1>1, <1>5, <3>1, WatchedEach DEF WatchIInv, Obeyed, InQueue, Senders
      <3> QED  BY <2>2, <3>2
    <2> QED  BY <2>1, <2>2
  <1> QED  BY <1>2, <1>4, <1>5, WatchedEachNext

LEMMA WatchPage ==
  ASSUME WatchIInv, NEW p \in Pages, PageStep(p), UNCHANGED onvifvars
  PROVE  AppGone' /\ Senders' /\ Watched'
  <1>1. UNCHANGED <<ipc, g_mq_ok, g_move_at, lastcmd, mishap>>
    BY DEF PageStep, onvifvars
  <1>2. cgi' = cgi \/ \E c \in Pids : /\ cgi[c].pc = "none"
                                     /\ \A d \in Pids \ {c} : cgi'[d] = cgi[d]
    <2>1. CASE Fetch(p)
      BY <2>1 DEF Fetch, WatchIInv, TokenIInv, TypeOK, CgiTypeOK
    <2> QED  BY <2>1 DEF PageStep
  <1>3. \A c \in Pids : cgi[c].pc \notin Early => cgi'[c] = cgi[c]
    BY <1>2 DEF Early
  <1>4. ASSUME NEW e, Guarded(e), Sender(e)  PROVE Guarded(e)'
    BY <1>1, <1>3, <1>4 DEF Guarded, Sender
  <1>5. Kept
    BY <1>3 DEF Kept
  <1> QED  BY <1>1, <1>4, <1>5, WatchQuiet

LEMMA WatchShell ==
  ASSUME WatchIInv, NEW x \in ShellEnvelopes, Shell(x), UNCHANGED onvifvars
  PROVE  AppGone' /\ Senders' /\ Watched'
  <1>1. x \in Envelope /\ x.from = "shell"
    BY ShellTypes DEF WatchIInv, TokenIInv
  <1>2. /\ Post(x) /\ UNCHANGED <<up, motor, g_mq_ok>>
        /\ UNCHANGED <<cgi, lastcmd, mishap, g_move_at>>
    BY DEF Shell, onvifvars
  <1>3. Guarded(x)' /\ Sender(x)'
    BY <1>1 DEF Guarded, Sender
  <1>4. Kept /\ \A e : Guarded(e) => Guarded(e)'
    BY <1>2 DEF Guarded, Kept
  <1> QED  BY <1>1, <1>2, <1>3, <1>4, WatchPost

\* Processes go on.
LEMMA ProcessKept ==
  ASSUME TypeOK, NEW c \in Pids, ProcessStep(c)
  PROVE  Kept
  <1>1. cgi \in [Pids -> Process]
    BY DEF TypeOK, CgiTypeOK
  <1>2. CASE OpenToken(c) \/ Fork(c)
    <2>1. \/ cgi' = [cgi EXCEPT ![c].pc = "write", ![c].holds = TRUE]
          \/ cgi' = [cgi EXCEPT ![c].pc = "fork"]
          \/ cgi' = [cgi EXCEPT ![c].pc = "done", ![c].cap = "asleep"]
          \/ cgi' = [cgi EXCEPT ![c].pc = "done"]
      BY <1>2, Zenon DEF OpenToken, Fork, Goto
    <2> QED  BY <1>1, <2>1 DEF Kept, Early, Process
  <1>3. CASE Unlink(c)
    BY <1>1, <1>3 DEF Unlink, Process, Kept, Early
  <1>4. CASE Reply(c) \/ Command(c)
    <2>1. cgi[c].pc \in Early /\ \A d \in Pids \ {c} : cgi'[d] = cgi[d]
      BY <1>1, <1>4 DEF Reply, Command, Goto, At, Early
    <2> QED  BY <2>1 DEF Kept
  <1>5. CASE WriteToken(c) \/ CapWakes(c) \/ CapStops(c)
    BY <1>5, Reached DEF Only, Kept, Early
  <1> QED  BY <1>2, <1>3, <1>4, <1>5 DEF ProcessStep, CgiStep, CapStep

\* The latest move keeps its guard.
LEMMA ProcessGuards ==
  ASSUME TokenIInv, NEW c \in Pids,
         Reply(c) \/ OpenToken(c) \/ WriteToken(c) \/ Fork(c) \/ Unlink(c) \/ CapWakes(c),
         ~mishap', lastcmd \in Pids, cgi[lastcmd].cmd \in Moves,
         cgi[lastcmd].pc \notin Early,
         cgi[lastcmd].cap \in {"asleep", "stop"} \/ cgi[lastcmd].pc # "done"
  PROVE  /\ ~mishap /\ lastcmd' = lastcmd
         /\ cgi'[lastcmd].cap \in {"asleep", "stop"} \/ cgi'[lastcmd].pc # "done"
  <1>1. cgi \in [Pids -> Process] /\ Places
    BY DEF TokenIInv, TypeOK, CgiTypeOK
  <1>2. ~mishap /\ lastcmd' = lastcmd
    <2>1. ~mishap
      BY DEF Reply, OpenToken, WriteToken, Fork, Unlink, CapWakes
    <2>2. lastcmd' = lastcmd
      BY DEF Reply, OpenToken, WriteToken, Fork, Unlink, CapWakes
    <2> QED  BY <2>1, <2>2
  <1>3. CASE Reply(c)
    <2>1. cgi'[lastcmd] = cgi[lastcmd]
      BY <1>1, <1>3 DEF Reply, At, Goto, Early
    <2> QED  BY <1>2, <2>1
  <1>4. CASE OpenToken(c)
    <2>1. cgi' = [cgi EXCEPT ![c].pc = "write", ![c].holds = TRUE]
            \/ cgi' = [cgi EXCEPT ![c].pc = "fork"]
      BY <1>4, Zenon DEF OpenToken, Goto
    <2>2. cgi'[lastcmd].pc \in {"write", "fork"} \/ cgi'[lastcmd] = cgi[lastcmd]
      <3>1. CASE cgi' = [cgi EXCEPT ![c].pc = "write", ![c].holds = TRUE]
        BY <1>1, <3>1
      <3>2. CASE cgi' = [cgi EXCEPT ![c].pc = "fork"]
        BY <1>1, <3>2
      <3> QED  BY <2>1, <3>1, <3>2
    <2> QED  BY <1>2, <2>2
  <1>5. CASE WriteToken(c)
    <2>1. cgi'[c].pc = "fork" /\ \A d \in Pids \ {c} : cgi'[d] = cgi[d]
      BY <1>5, Reached DEF Only, TokenIInv
    <2>2. cgi'[lastcmd].pc = "fork" \/ cgi'[lastcmd] = cgi[lastcmd]
      BY <2>1
    <2> QED  BY <1>2, <2>2
  <1>6. CASE Fork(c)
    <2>1. cgi' = [cgi EXCEPT ![c].pc = "done", ![c].cap = "asleep"]
      BY <1>6 DEF Fork
    <2> QED  BY <1>1, <1>2, <2>1
  <1>7. CASE Unlink(c)
    <2>1. lastcmd # c
      BY <1>1, <1>7 DEF Unlink, At, Places, Moves
    <2> QED  BY <1>1, <1>2, <1>7, <2>1 DEF Unlink, Process
  <1>8. CASE CapWakes(c)
    <2>1. CASE c # lastcmd
      <3>1. cgi'[lastcmd] = cgi[lastcmd]
        BY <1>8, <2>1, Reached DEF Only, TokenIInv
      <3> QED  BY <1>2, <3>1
    <2>2. CASE c = lastcmd
      <3>1. cgi[c].pc = "done"
        BY <1>1, <1>8 DEF CapWakes, Places
      <3>2. token = c
        BY <1>2, <2>2, <3>1, ConstantFacts DEF TokenIInv, Latest, Handled
      <3>3. cgi'[c].cap = "stop"
        BY <1>8, <3>2, Reached DEF Only, TokenIInv
      <3> QED  BY <1>2, <2>2, <3>3
    <2> QED  BY <2>1, <2>2
  <1> QED  BY <1>3, <1>4, <1>5, <1>6, <1>7, <1>8

LEMMA WatchProcess ==
  ASSUME WatchIInv, NEW c \in Pids, ProcessStep(c)
  PROVE  AppGone' /\ Senders' /\ Watched'
  <1>1. /\ TypeOK /\ Kept /\ TokenIInv
        /\ UNCHANGED <<g_mq_ok, g_move_at>> /\ cgi \in [Pids -> Process]
    BY ProcessKept DEF WatchIInv, TokenIInv, ProcessStep, onvifvars, TypeOK, CgiTypeOK
  <1>2. CASE Reply(c) \/ OpenToken(c) \/ WriteToken(c) \/ Fork(c) \/ Unlink(c) \/ CapWakes(c)
    <2>1. UNCHANGED ipc
      BY <1>2 DEF Reply, OpenToken, WriteToken, Fork, Unlink, CapWakes
    <2>2. ASSUME NEW e, Guarded(e), Sender(e), e.op = "move"  PROVE Guarded(e)'
      <3>1. e.from = "onvif" => g_move_at'
        BY <1>1, <2>2 DEF Guarded
      <3>2. ASSUME e.from = "cgi", ~mishap'
            PROVE  /\ e.id = lastcmd'
                   /\ cgi'[e.id].cap \in {"asleep", "stop"} \/ cgi'[e.id].pc # "done"
        <4>1. ~mishap
          BY <1>2, <3>2 DEF Reply, OpenToken, WriteToken, Fork, Unlink, CapWakes
        <4>2. e.id = lastcmd /\ (cgi[e.id].cap \in {"asleep", "stop"} \/ cgi[e.id].pc # "done")
          BY <2>2, <3>2, <4>1 DEF Guarded
        <4>3. e.id \in Pids /\ cgi[e.id].pc \notin Early /\ cgi[e.id].cmd \in Moves
          BY <2>2, <3>2 DEF Sender
        <4> QED  BY <1>1, <1>2, <3>2, <4>2, <4>3, ProcessGuards
      <3> QED  BY <3>1, <3>2 DEF Guarded
    <2> QED  BY <1>1, <2>1, <2>2, WatchQuiet
  <1>3. CASE CapStops(c)
    <2> DEFINE x == Message("stop", "cap", c)
    <2>1. /\ x \in Envelope /\ x.from = "cap" /\ x.op = "stop"
      BY MessageType DEF Commands, Moves
    <2>2. Post(x) /\ UNCHANGED <<up, motor>>
      BY <1>3 DEF CapStops
    <2> HIDE DEF x
    <2>3. Sender(x)' /\ Drives(x)
      BY <2>1 DEF Sender, Drives
    <2> QED  BY <1>1, <2>1, <2>2, <2>3, WatchPost
  <1>4. CASE Command(c)
    <2>0. cgi[c].cmd \in Moves \union {"stop", "light"}
      BY <1>1 DEF Process, Commands
    <2>1. PICK x \in Envelope :
            /\ x = Message(cgi[c].cmd, "cgi", c) /\ x.from = "cgi" /\ x.id = c
            /\ cgi[c].cmd \in Moves => x.op = "move"
            /\ cgi[c].cmd \notin Moves => x.op = cgi[c].cmd
      BY <2>0, MessageType DEF Commands
    <2>2. Post(x) /\ UNCHANGED <<up, motor>> /\ cgi[c].pc = "send"
      BY <1>4, <2>1 DEF Command, At
    <2>3. /\ cgi[c].cmd \in Moves => Only(c, "open", cgi[c].cap)
          /\ cgi[c].cmd = "stop" => Only(c, "unlink", cgi[c].cap)
          /\ cgi[c].cmd = "light" => Only(c, "done", cgi[c].cap)
      BY <1>1, <1>4, Reached
    <2>4. Sender(x)'
      <3>1. cgi'[c].pc \notin Early /\ cgi'[c].cmd = cgi[c].cmd
        BY <2>0, <2>3 DEF Only, Early
      <3> QED  BY <2>0, <2>1, <3>1 DEF Sender
    <2>5. cgi[c].cmd # "light" => lastcmd' = c
      BY <1>4 DEF Command
    <2>6. x.op = "move" => Guarded(x)'
      <3>1. ASSUME x.op = "move"  PROVE cgi'[c].pc = "open" /\ lastcmd' = c
        BY <2>0, <2>1, <2>3, <2>5, <3>1 DEF Only
      <3> QED  BY <2>1, <3>1 DEF Guarded
    <2>7. ASSUME ~Drives(x), NEW e, Guarded(e), Sender(e)  PROVE Guarded(e)'
      <3>1. cgi[c].cmd = "light"
        BY <2>0, <2>1, <2>7 DEF Drives
      <3>2. UNCHANGED <<lastcmd, mishap, g_move_at>>
        BY <1>1, <1>4, <3>1 DEF Command
      <3>3. e.from = "cgi" => cgi'[e.id] = cgi[e.id]
        BY <2>2, <2>3, <2>7, <3>1 DEF Sender, Only, Early
      <3> QED  BY <2>7, <3>2, <3>3 DEF Guarded
    <2>8. ~Drives(x) => \A e : Guarded(e) /\ Sender(e) => Guarded(e)'
      BY <2>7
    <2>9. g_mq_ok' = g_mq_ok
      BY <1>1
    <2> QED  BY <1>1, <2>1, <2>2, <2>4, <2>6, <2>8, <2>9, WatchPost
  <1> QED  BY <1>2, <1>3, <1>4 DEF ProcessStep, CgiStep, CapStep

\* The daemon sends o.
LEMMA WatchSendEnv ==
  ASSUME WatchIInv, NEW o \in Envelope, SendEnv(o), UNCHANGED <<up, motor, cgi>>,
         UNCHANGED <<lastcmd, mishap>>, o.from = "onvif",
         o.op = "move" => g_move_at',
         ~Drives(o) => (g_move_at => g_move_at')
  PROVE  g_mq_ok => AppGone' /\ Senders' /\ Watched'
  <1> SUFFICES ASSUME g_mq_ok  PROVE AppGone' /\ Senders' /\ Watched'
    OBVIOUS
  <1>1. Post(o) /\ g_mq_ok' = up
    BY DEF SendEnv
  <1>2. Kept
    BY DEF Kept
  <1>3. up => Sender(o)'
    BY <1>1 DEF Sender
  <1>4. o.op = "move" => Guarded(o)'
    BY Zenon DEF Guarded
  <1>5. ~Drives(o) => \A e : Guarded(e) => Guarded(e)'
    BY Zenon DEF Guarded
  <1> QED  BY <1>1, <1>2, <1>3, <1>4, <1>5, WatchPost

\* A daemon that sends nothing leaves the others to themselves, if it keeps
\* g_move_at or has never moved the camera.
LEMMA WatchIdle ==
  ASSUME WatchIInv, UNCHANGED <<ipc, cgivars, g_mq_ok>>,
         (g_move_at => g_move_at') \/ ~g_mq_ok
  PROVE  AppGone' /\ Senders' /\ Watched'
  <1>1. UNCHANGED <<up, queue, motor, g_mq_ok, cgi, lastcmd, mishap>>
    BY DEF ipc, cgivars
  <1>2. AppGone' /\ Senders'
    BY <1>1 DEF WatchIInv, AppGone, Senders, Sender, InQueue
  <1>3. ASSUME NEW e, e.op = "move", Obeyed(e)'  PROVE Guarded(e)'
    <2>1. Obeyed(e) /\ InQueue(e)
      BY <1>1, <1>3 DEF Obeyed, InQueue
    <2>2. Guarded(e) /\ Sender(e)
      BY <1>3, <2>1, WatchedEach DEF WatchIInv, Senders
    <2> QED  BY <1>1, <2>2, Zenon DEF Guarded, Sender
  <1> QED  BY <1>2, <1>3, WatchedEachNext

LEMMA OrdersDrive ==
  /\ \A k : Orders(Move, k) # {} /\ Orders(Stop, k) # {}
  /\ \A k, o : o \in Orders(Move, k) \union Orders(Stop, k) => Drives(o)
  <1>1. Move # Stop /\ SetPreset # Stop /\ GotoPreset # Stop /\ Move # SetPreset
          /\ Move # GotoPreset
    BY DEF Move, Stop, SetPreset, GotoPreset, Method
  <1>2. \A k : /\ \E dir : Orders(Move, k) = {Order(IF dir = 0 THEN "stop" ELSE "move", dir)}
              /\ Orders(Stop, k) = {Order("stop", 0)}
    <2> TAKE k
    <2> DEFINE d == Direction(IF k >= 1 THEN req.x ELSE 0, IF k >= 2 THEN req.y ELSE 0)
    <2>1. Orders(Move, k) = {Order(IF d = 0 THEN "stop" ELSE "move", d)}
      BY <1>1 DEF Orders
    <2>2. Orders(Stop, k) = {Order("stop", 0)}
      BY <1>1 DEF Orders
    <2> HIDE DEF d
    <2> QED  BY <2>1, <2>2
  <1>3. \A arg : Drives(Order("stop", arg)) /\ Drives(Order("move", arg))
    BY DEF Order, Drives
  <1> QED  BY <1>2, <1>3

LEMMA WatchDaemon ==
  ASSUME WatchIInv, ReadStep \/ Handle \/ CapFires, UNCHANGED cgivars
  PROVE  AppGone' /\ Senders' /\ Watched'
  <1>1. UNCHANGED <<up, motor, cgi, lastcmd, mishap>>
    BY DEF ReadStep, ReadSome, ReadEnd, Handle, Fault, Serve, Done, CapFires, ipc, cgivars
  <1>2. CASE ReadStep \/ Fault
    <2>1. UNCHANGED <<ipc, g_mq_ok, g_move_at>>
      BY <1>2 DEF ReadStep, ReadSome, ReadEnd, Fault, Done, ipc
    <2> QED  BY <2>1, WatchIdle
  <1>3. CASE CapFires
    <2> DEFINE o == Order("stop", 0)
    <2>1. o \in Envelope /\ o.from = "onvif" /\ o.op = "stop"
      BY DEF Order, Envelope
    <2>2. SendEnv(o)
      BY <1>3 DEF CapFires
    <2> HIDE DEF o
    <2>3. CASE g_mq_ok
      BY <1>1, <2>1, <2>2, <2>3, WatchSendEnv DEF Drives
    <2>4. CASE ~g_mq_ok
      <3>1. UNCHANGED <<ipc, g_mq_ok>>
        BY <1>1, <2>2, <2>4 DEF SendEnv, ipc
      <3> QED  BY <2>4, <3>1, WatchIdle
    <2> QED  BY <2>3, <2>4
  <1>4. CASE Serve
    <2> DEFINE m == Route(req.action)
    <2>0. PICK s \in {Orders(m, n - req.hdr)} :
            /\ \/ s = {} /\ queue' = queue /\ g_mq_ok' = g_mq_ok
               \/ \E o \in s : SendEnv(o)
            /\ g_move_at' = (m = Move \/ (m # Stop /\ g_move_at))
      BY <1>4, ServeFacts, Zenon
    <2>1. PICK k : s = Orders(m, k)
      BY <2>0
    <2> HIDE DEF m
    <2>2. CASE s = {} /\ queue' = queue /\ g_mq_ok' = g_mq_ok
      <3>1. m # Stop
        BY <2>1, <2>2, OrdersDrive
      <3>2. g_move_at => g_move_at'
        BY <2>0, <3>1, Zenon
      <3>3. UNCHANGED <<ipc, g_mq_ok>>
        BY <1>1, <2>2 DEF ipc
      <3> QED  BY <3>2, <3>3, WatchIdle
    <2>3. ASSUME NEW o \in s, SendEnv(o)  PROVE AppGone' /\ Senders' /\ Watched'
      <3>1. /\ o \in Envelope /\ o.from = "onvif"
            /\ o.op = "move" => m = Move
        BY <2>1, <2>3, OrderType
      <3>2. o.op = "move" => g_move_at'
        BY <2>0, <3>1, Zenon
      <3>3. ~Drives(o) => m # Stop
        BY <2>1, <2>3, OrdersDrive
      <3>4. ~Drives(o) => (g_move_at => g_move_at')
        BY <2>0, <3>3, Zenon
      <3>5. CASE g_mq_ok
        BY <1>1, <2>3, <3>1, <3>2, <3>4, <3>5, WatchSendEnv
      <3>6. CASE ~g_mq_ok
        <4>1. UNCHANGED <<ipc, g_mq_ok>>
          BY <1>1, <2>3, <3>6 DEF SendEnv, ipc
        <4> QED  BY <3>6, <4>1, WatchIdle
      <3> QED  BY <3>5, <3>6
    <2> QED  BY <2>0, <2>2, <2>3
  <1> QED  BY <1>2, <1>3, <1>4 DEF Handle

LEMMA WatchApp ==
  ASSUME WatchIInv, AppStep, UNCHANGED <<cgivars, onvifvars>>
  PROVE  AppGone' /\ Senders' /\ Watched'
  <1>1. UNCHANGED <<cgi, lastcmd, mishap, g_mq_ok, g_move_at>>
    BY DEF cgivars, onvifvars
  <1>2. \A e : /\ Guarded(e) => Guarded(e)'
               /\ Sender(e) => Sender(e)'
    BY <1>1 DEF Guarded, Sender
  <1>3. QueueTypeOK /\ AppGone /\ Senders
    BY DEF WatchIInv, TokenIInv, TypeOK
  <1>4. CASE AppUp
    <2>1. AppGone'
      BY <1>4 DEF AppUp, AppGone
    <2>2. Senders'
      BY <1>2, <1>3, <1>4 DEF AppUp, Senders, InQueue
    <2>3. ASSUME NEW e, e.op = "move", Obeyed(e)'  PROVE Guarded(e)'
      <3>1. Obeyed(e)
        BY <1>4, <2>3 DEF AppUp, Obeyed
      <3> QED  BY <1>2, <2>3, <3>1, WatchedEach DEF WatchIInv
    <2> QED  BY <2>1, <2>2, <2>3, WatchedEachNext
  <1>5. CASE Dispatch
    <2>0. /\ DOMAIN queue = 1 .. Len(queue) /\ Len(queue) \in Nat \ {0} /\ up
          /\ DOMAIN queue' = 1 .. Len(queue) - 1 /\ Head(queue) = queue[1]
          /\ \A i \in DOMAIN queue' : queue'[i] = queue[i + 1]
          /\ up' = up /\ motor' \in {motor, queue[1], Still}
      BY <1>3, <1>5 DEF Dispatch, QueueTypeOK, AppGone
    <2>1. AppGone'
      BY <2>0 DEF AppGone
    <2>2. ASSUME NEW e, InQueue(e)'  PROVE e = Still \/ InQueue(e)
      BY <2>0, <2>2 DEF InQueue
    <2>3. Sender(Still)'
      BY DEF Sender, Still
    <2>4. Senders'
      BY <1>2, <1>3, <2>2, <2>3 DEF Senders
    <2>5. ASSUME NEW e, e.op = "move", Obeyed(e)'  PROVE Guarded(e)'
      <3>1. Obeyed(e)
        BY <1>3, <1>5, <2>5, ObeyedDispatch
      <3> QED  BY <1>2, <2>5, <3>1, WatchedEach DEF WatchIInv
    <2> QED  BY <2>1, <2>4, <2>5, WatchedEachNext
  <1> QED  BY <1>4, <1>5 DEF AppStep

LEMMA InitWatch == Init => WatchIInv
  <1> SUFFICES ASSUME Init  PROVE AppGone /\ Senders /\ Watched
    BY InitToken DEF WatchIInv
  <1>1. queue = <<>> /\ motor = Still
    BY DEF Init, QueueInit
  <1>2. \A e : InQueue(e) \/ Obeyed(e) => e = Still
    BY <1>1 DEF InQueue, Obeyed
  <1>3. Senders
    BY <1>2 DEF Senders, Sender, Still
  <1>4. Watched
    BY <1>2, WatchedEach DEF Still
  <1> QED  BY <1>1, <1>3, <1>4 DEF AppGone

LEMMA NextWatch == WatchIInv /\ [Next]_vars => WatchIInv'
  <1> SUFFICES ASSUME WatchIInv, [Next]_vars  PROVE AppGone' /\ Senders' /\ Watched'
    BY NextToken DEF WatchIInv
  <1>1. CASE UNCHANGED vars
    BY <1>1, WatchIdle DEF vars, onvifvars
  <1>2. CASE Next
    <2>1. ASSUME NEW p \in Pages, PageStep(p) /\ UNCHANGED onvifvars
          PROVE  AppGone' /\ Senders' /\ Watched'
      BY <2>1, WatchPage
    <2>2. ASSUME NEW c \in Pids, ProcessStep(c)  PROVE AppGone' /\ Senders' /\ Watched'
      BY <2>2, WatchProcess
    <2>3. ASSUME NEW e \in ShellEnvelopes, Shell(e) /\ UNCHANGED onvifvars
          PROVE  AppGone' /\ Senders' /\ Watched'
      BY <2>3, WatchShell
    <2>4. CASE (ReadStep \/ Handle \/ CapFires) /\ UNCHANGED cgivars
      BY <2>4, WatchDaemon
    <2>5. CASE ((\E r \in Requests : Accept(r)) \/ Arrive \/ Lease) /\ UNCHANGED cgivars
      <3>1. UNCHANGED <<ipc, g_mq_ok, g_move_at>>
        BY <2>5 DEF Accept, Arrive, Lease
      <3> QED  BY <2>5, <3>1, WatchIdle
    <2>6. CASE AppStep /\ UNCHANGED <<cgivars, onvifvars>>
      BY <2>6, WatchApp
    <2> QED  BY <1>2, <2>1, <2>2, <2>3, <2>4, <2>5, <2>6, Steps
  <1> QED  BY <1>1, <1>2

\* However many pages, processes and clients there are, a camera that moves, or will
\* once the queue is taken, has somebody left who will stop it.
THEOREM WatchedTheorem == Spec => []Watched
  <1>1. WatchIInv => Watched
    BY DEF WatchIInv
  <1> QED  BY <1>1, InitWatch, NextWatch, PTL DEF Spec
-----------------------------------------------------------------------------
(* What the pages show *)

\* Every command of s is a light command.
AllLight(s) == \A i \in DOMAIN s : s[i] = "light"

\* cmd is the last command of s that is no light command.
EndsIn(s, cmd) ==
    /\ cmd # "light"
    /\ \E i \in DOMAIN s : s[i] = cmd /\ \A j \in DOMAIN s : j > i => s[j] = "light"

\* The command that makes what the page shows.
Shown(m) == IF m = "no" THEN "stop" ELSE m

\* What page p shows is what its latest command makes: one in its chain, or, if
\* there is none, cmd.
Says(p) == failed[p] \/ EndsIn(chain[p], Shown(moving[p]))
Agrees(p) == Says(p) \/ AllLight(chain[p])
Shows(p, cmd) == Says(p) \/ (AllLight(chain[p]) /\ cmd = Shown(moving[p]))

\* Process c was started to move or stop the camera, and has sent its envelope.
Drove(c) == cgi[c].pc # "none" /\ cgi[c].cmd # "light"
Sent(c) == cgi[c].pc \notin Early

InTurn == \A c, d \in Pids : d < c /\ cgi[d].pc = "none" => cgi[c].pc = "none"
PagesAgree == \A p \in Pages : Agrees(p)
NewestShown ==
    \A c \in Pids : (Drove(c) /\ \A d \in Pids : Drove(d) => d <= c) =>
      \E p \in Pages : Shows(p, cgi[c].cmd)
SentInTurn ==
    /\ lastcmd # 0 => Drove(lastcmd) /\ Sent(lastcmd)
    /\ ~overtaken => \A c \in Pids : Drove(c) /\ Sent(c) =>
         /\ lastcmd # 0 /\ c <= lastcmd
         /\ \A d \in Pids : d < c => Sent(d)

\* A move by the pad that is obeyed is that of the latest command.
OfLatest(e) ==
    e.from = "cgi" => e.id = lastcmd /\ e.arg = DirValue(cgi[e.id].cmd)
LatestObeyed == \A e : e.op = "move" /\ Obeyed(e) => OfLatest(e)

\* The motor is moved and stopped by nothing else.
MotorDrives == Drives(motor)

PadIInv ==
    /\ WatchIInv
    /\ InTurn /\ PagesAgree /\ NewestShown /\ SentInTurn
    /\ LatestObeyed /\ MotorDrives
-----------------------------------------------------------------------------
LEMMA AppendEnds ==
  ASSUME NEW s \in Seq(Commands), NEW x \in Commands
  PROVE  /\ x # "light" => EndsIn(Append(s, x), x)
         /\ x = "light" => /\ AllLight(s) => AllLight(Append(s, x))
                           /\ \A v : EndsIn(s, v) => EndsIn(Append(s, x), v)
  <1>1. /\ Len(s) \in Nat /\ DOMAIN s = 1 .. Len(s)
        /\ DOMAIN Append(s, x) = 1 .. Len(s) + 1 /\ Append(s, x)[Len(s) + 1] = x
        /\ \A i \in DOMAIN s : Append(s, x)[i] = s[i]
    OBVIOUS
  <1>2. ASSUME x # "light"  PROVE EndsIn(Append(s, x), x)
    BY <1>1, <1>2 DEF EndsIn
  <1>3. ASSUME x = "light", AllLight(s)  PROVE AllLight(Append(s, x))
    BY <1>1, <1>3 DEF AllLight
  <1>4. ASSUME x = "light", NEW v, EndsIn(s, v)  PROVE EndsIn(Append(s, x), v)
    <2>1. PICK i \in DOMAIN s : s[i] = v /\ \A j \in DOMAIN s : j > i => s[j] = "light"
      BY <1>4 DEF EndsIn
    <2>2. i \in DOMAIN Append(s, x) /\ Append(s, x)[i] = v
      BY <1>1, <2>1
    <2>3. \A j \in DOMAIN Append(s, x) : j > i => Append(s, x)[j] = "light"
      BY <1>1, <1>4, <2>1
    <2> QED  BY <1>4, <2>2, <2>3 DEF EndsIn
  <1> QED  BY <1>2, <1>3, <1>4

LEMMA TailEnds ==
  ASSUME NEW s \in Seq(Commands), s # <<>>
  PROVE  /\ AllLight(s) => Head(s) = "light" /\ AllLight(Tail(s))
         /\ \A v : EndsIn(s, v) => EndsIn(Tail(s), v) \/ (Head(s) = v /\ AllLight(Tail(s)))
  <1>1. /\ Len(s) \in Nat \ {0} /\ DOMAIN s = 1 .. Len(s) /\ Head(s) = s[1]
        /\ DOMAIN Tail(s) = 1 .. Len(s) - 1
        /\ \A i \in DOMAIN Tail(s) : Tail(s)[i] = s[i + 1]
    OBVIOUS
  <1>2. ASSUME AllLight(s)  PROVE Head(s) = "light" /\ AllLight(Tail(s))
    BY <1>1, <1>2 DEF AllLight
  <1>3. ASSUME NEW v, EndsIn(s, v)
        PROVE  EndsIn(Tail(s), v) \/ (Head(s) = v /\ AllLight(Tail(s)))
    <2>1. PICK i \in DOMAIN s : s[i] = v /\ \A j \in DOMAIN s : j > i => s[j] = "light"
      BY <1>3 DEF EndsIn
    <2>2. CASE i = 1
      BY <1>1, <2>1, <2>2 DEF AllLight
    <2>3. CASE i # 1
      <3>1. i - 1 \in DOMAIN Tail(s) /\ Tail(s)[i - 1] = v
        BY <1>1, <2>1, <2>3
      <3>2. \A j \in DOMAIN Tail(s) : j > i - 1 => Tail(s)[j] = "light"
        BY <1>1, <2>1
      <3> QED  BY <1>3, <3>1, <3>2 DEF EndsIn
    <2> QED  BY <2>2, <2>3
  <1> QED  BY <1>2, <1>3

\* What a page does without a new process keeps what it says true.
LEMMA PageAgrees ==
  ASSUME TypeOK, NEW p \in Pages, PageStep(p), cgi' = cgi, NEW q \in Pages
  PROVE  /\ Agrees(q) => Agrees(q)'
         /\ \A cmd : Shows(q, cmd) => Shows(q, cmd)'
  <1> USE DEF Agrees, Shows, Says
  <1>1. /\ moving \in [Pages -> Moves \union {"no"}] /\ failed \in [Pages -> BOOLEAN]
        /\ chain \in [Pages -> Seq(Commands)] /\ flight \in [Pages -> Pids \union {0}]
    BY DEF TypeOK, CgiTypeOK
  <1>2. /\ Buttons \subseteq Moves /\ "light" \notin Moves /\ "no" \notin Moves
        /\ "stop" \in Commands /\ "light" \in Commands /\ Moves \subseteq Commands
    BY ConstantFacts DEF Commands, Moves
  <1>3. CASE UNCHANGED <<moving, chain, failed>>
    BY <1>3
  <1>4. CASE /\ q # p => moving'[q] = moving[q] /\ chain'[q] = chain[q] /\ failed'[q] = failed[q]
             /\ failed'[p]
    BY <1>4
  <1>5. ASSUME NEW dir \in Buttons, Press(p, dir)  PROVE (Agrees(q) => Agrees(q)') /\ \A cmd : Shows(q, cmd) => Shows(q, cmd)'
    <2>1. /\ moving'[p] = dir /\ chain'[p] = Append(chain[p], dir) /\ failed' = failed
          /\ q # p => moving'[q] = moving[q] /\ chain'[q] = chain[q]
      BY <1>1, <1>5 DEF Press, Enqueue
    <2>2. EndsIn(Append(chain[p], dir), Shown(dir))
      BY <1>1, <1>2, AppendEnds DEF Shown
    <2> QED  BY <2>1, <2>2
  <1>6. CASE StopMove(p)
    <2>1. CASE moving[p] = "no"
      <3>1. moving' = moving /\ chain' = chain /\ failed' = failed
        BY <1>1, <1>6, <2>1 DEF StopMove
      <3> QED  BY <1>3, <3>1
    <2>2. CASE moving[p] # "no"
      <3>1. /\ moving'[p] = "no" /\ chain'[p] = Append(chain[p], "stop") /\ failed' = failed
            /\ q # p => moving'[q] = moving[q] /\ chain'[q] = chain[q]
        BY <1>1, <1>6, <2>2 DEF StopMove, Enqueue
      <3>2. EndsIn(Append(chain[p], "stop"), Shown("no"))
        BY <1>1, <1>2, AppendEnds DEF Shown
      <3> QED  BY <3>1, <3>2
    <2> QED  BY <2>1, <2>2
  <1>7. CASE Light(p)
    <2>1. /\ moving' = moving /\ chain'[p] = Append(chain[p], "light") /\ failed' = failed
          /\ q # p => chain'[q] = chain[q]
      BY <1>1, <1>7 DEF Light, Enqueue
    <2>2. /\ AllLight(chain[p]) => AllLight(chain'[p])
          /\ \A v : EndsIn(chain[p], v) => EndsIn(chain'[p], v)
      BY <1>1, <1>2, <2>1, AppendEnds
    <2> QED  BY <2>1, <2>2
  <1>8. CASE Leave(p)
    BY <1>1, <1>4, <1>8 DEF Leave
  <1>9. CASE Answered(p)
    <2>1. CASE UNCHANGED <<moving, failed>>
      BY <1>3, <1>9, <2>1 DEF Answered
    <2>2. CASE Catch(p, cgi[flight[p]].cmd)
      BY <1>1, <1>4, <1>9, <2>2 DEF Answered, Catch
    <2> QED  BY <1>9, <2>1, <2>2 DEF Answered
  <1>10. CASE Fetch(p)
    <2>1. Catch(p, Head(chain[p]))
      <3>1. ASSUME NEW c \in Pids, cgi[c].pc = "none",
                   cgi' = [cgi EXCEPT ![c] = [Unused EXCEPT !.cmd = Head(chain[p]),
                                                            !.pc = "reply"]]
            PROVE  FALSE
        BY <3>1 DEF Unused, TypeOK, CgiTypeOK
      <3> QED  BY <1>10, <3>1 DEF Fetch
    <2> QED  BY <1>1, <1>4, <1>10, <2>1 DEF Fetch, Catch
  <1> QED  BY <1>5, <1>6, <1>7, <1>8, <1>9, <1>10 DEF PageStep

\* A fetch that starts process c.
LEMMA PadFetch ==
  ASSUME PadIInv, NEW p \in Pages, Fetch(p), UNCHANGED <<lastcmd, overtaken>>, NEW c \in Pids,
         cgi[c].pc = "none", \A d \in Pids : d < c => cgi[d].pc # "none",
         cgi' = [cgi EXCEPT ![c] = [Unused EXCEPT !.cmd = Head(chain[p]), !.pc = "reply"]]
  PROVE  InTurn' /\ PagesAgree' /\ NewestShown' /\ SentInTurn' /\ Kept
  <1>0. PICK h : h = Head(chain[p])
    OBVIOUS
  <1>1. /\ chain \in [Pages -> Seq(Commands)] /\ cgi \in [Pids -> Process]
        /\ Pids \subseteq Nat /\ 0 \notin Pids /\ lastcmd \in Pids \union {0}
    BY ConstantFacts DEF PadIInv, WatchIInv, TokenIInv, TypeOK, CgiTypeOK
  <1>2. /\ cgi'[c].pc = "reply" /\ cgi'[c].cmd = h
        /\ \A d \in Pids \ {c} : cgi'[d] = cgi[d]
    BY <1>0, <1>1 DEF Unused
  <1>3. moving' = moving /\ failed' = failed
    <2>1. cgi' # cgi
      BY <1>2
    <2> QED  BY <2>1 DEF Fetch
  <1>4. /\ chain'[p] = Tail(chain[p]) /\ \A q \in Pages \ {p} : chain'[q] = chain[q]
        /\ chain[p] \in Seq(Commands) /\ chain[p] # <<>>
    BY <1>1 DEF Fetch
  <1>5. /\ AllLight(chain[p]) => h = "light" /\ AllLight(chain'[p])
        /\ \A v : EndsIn(chain[p], v) => EndsIn(chain'[p], v) \/ (h = v /\ AllLight(chain'[p]))
    BY <1>0, <1>4, TailEnds
  <1>6. InTurn'
    BY <1>1, <1>2 DEF InTurn, PadIInv
  <1>7. ASSUME NEW q \in Pages, Agrees(q)  PROVE Agrees(q)'
    BY <1>3, <1>4, <1>5, <1>7 DEF Agrees, Says
  <1>8. PagesAgree'
    BY <1>7 DEF PagesAgree, PadIInv
  <1>9. ASSUME h = "light", NEW q \in Pages, NEW cmd, Shows(q, cmd)  PROVE Shows(q, cmd)'
    <2>1. \A v : EndsIn(chain[p], v) => v # "light"
      BY DEF EndsIn
    <2> QED  BY <1>3, <1>4, <1>5, <1>9, <2>1 DEF Shows, Says
  <1>10. h # "light" => Shows(p, h)'
    BY <1>3, <1>5 DEF Shows, Says, Agrees, PagesAgree, PadIInv
  <1>11. NewestShown'
    <2> SUFFICES ASSUME NEW cc \in Pids, Drove(cc)', \A d \in Pids : Drove(d)' => d <= cc
                 PROVE  \E q \in Pages : Shows(q, cgi[cc].cmd)'
      BY DEF NewestShown
    <2>1. CASE h = "light"
      <3>1. cc # c
        BY <1>2, <2>1 DEF Drove
      <3>2. Drove(cc) /\ cgi'[cc].cmd = cgi[cc].cmd
        BY <1>2, <3>1 DEF Drove
      <3>3. \A d \in Pids : Drove(d) => Drove(d)'
        BY <1>2 DEF Drove
      <3>4. PICK cmd : cmd = cgi[cc].cmd /\ cmd = cgi'[cc].cmd
        BY <3>2
      <3>5. PICK q \in Pages : Shows(q, cmd)
        BY <3>2, <3>3, <3>4 DEF NewestShown, PadIInv
      <3>6. Shows(q, cmd)'
        BY <1>9, <2>1, <3>5
      <3> QED  BY <3>4, <3>6 DEF Shows
    <2>2. CASE h # "light"
      <3>1. Drove(c)'
        BY <1>2, <2>2 DEF Drove
      <3>2. cc = c
        <4>1. c <= cc
          BY <3>1
        <4>2. cc # c => cgi[cc].pc # "none"
          BY <1>2 DEF Drove
        <4> QED  BY <1>1, <4>1, <4>2 DEF InTurn, PadIInv
      <3> QED  BY <1>2, <1>10, <2>2, <3>2 DEF Shows
    <2> QED  BY <2>1, <2>2
  <1>12. \A d \in Pids : Sent(d) => d # c
    BY DEF Sent, Early
  <1>13. \A d \in Pids : Sent(d)' => d # c
    BY <1>2 DEF Sent, Early
  <1>14. \A d \in Pids : d # c => Sent(d)' = Sent(d) /\ Drove(d)' = Drove(d)
    BY <1>2 DEF Sent, Drove
  <1>15. SentInTurn'
    <2> USE DEF PadIInv, SentInTurn
    <2>1. lastcmd' # 0 => (Drove(lastcmd) /\ Sent(lastcmd))'
      BY <1>1, <1>12, <1>14
    <2>2. ASSUME ~overtaken', NEW cc \in Pids, Drove(cc)', Sent(cc)'
          PROVE  lastcmd' # 0 /\ cc <= lastcmd' /\ \A d \in Pids : d < cc => Sent(d)'
      BY <1>12, <1>13, <1>14, <2>2
    <2> QED  BY <2>1, <2>2
  <1>16. Kept
    BY <1>2 DEF Kept, Early
  <1> QED  BY <1>6, <1>8, <1>11, <1>15, <1>16

\* Nothing is sent and nothing taken.
LEMMA LatestQuiet ==
  ASSUME PadIInv, UNCHANGED ipc, Kept, lastcmd' = lastcmd
  PROVE  LatestObeyed' /\ MotorDrives'
  <1>1. UNCHANGED <<up, queue, motor>>
    BY DEF ipc
  <1>2. ASSUME NEW e, e.op = "move", Obeyed(e)'  PROVE OfLatest(e)'
    <2>1. Obeyed(e) /\ InQueue(e)
      BY <1>1, <1>2 DEF Obeyed, InQueue
    <2>2. OfLatest(e) /\ Sender(e)
      BY <1>2, <2>1 DEF PadIInv, LatestObeyed, WatchIInv, Senders
    <2> QED  BY <2>2 DEF OfLatest, Sender, Kept
  <1>3. MotorDrives'
    BY <1>1 DEF PadIInv, MotorDrives, Drives
  <1> QED  BY <1>2, <1>3 DEF LatestObeyed

\* Somebody sends x.
LEMMA LatestPost ==
  ASSUME PadIInv, NEW x \in Envelope, Post(x), UNCHANGED <<up, motor>>, Kept,
         x.op = "move" => OfLatest(x)',
         ~Drives(x) => lastcmd' = lastcmd
  PROVE  LatestObeyed' /\ MotorDrives'
  <1>1. QueueTypeOK /\ AppGone /\ Senders
    BY DEF PadIInv, WatchIInv, TokenIInv, TypeOK
  <1>2. ASSUME NEW e, e.op = "move", Obeyed(e)'  PROVE OfLatest(e)'
    <2>1. CASE Drives(x)
      BY <1>1, <1>2, <2>1, ObeyedPost
    <2>2. CASE ~Drives(x)
      <3>1. Obeyed(e)
        BY <1>1, <1>2, <2>2, ObeyedPost
      <3>2. InQueue(e)
        BY <3>1 DEF Obeyed, InQueue
      <3>3. OfLatest(e) /\ Sender(e)
        BY <1>1, <1>2, <3>1, <3>2 DEF PadIInv, LatestObeyed, Senders
      <3> QED  BY <2>2, <3>3 DEF OfLatest, Sender, Kept
    <2> QED  BY <2>1, <2>2
  <1>3. MotorDrives'
    BY DEF PadIInv, MotorDrives, Drives
  <1> QED  BY <1>2, <1>3 DEF LatestObeyed

LEMMA PadPage ==
  ASSUME PadIInv, NEW p \in Pages, PageStep(p)
  PROVE  InTurn' /\ PagesAgree' /\ NewestShown' /\ SentInTurn' /\ LatestObeyed' /\ MotorDrives'
  <1>1. TypeOK /\ UNCHANGED <<ipc, lastcmd, overtaken>>
    BY DEF PadIInv, WatchIInv, TokenIInv, PageStep
  <1>2. CASE cgi' = cgi
    <2>1. InTurn' /\ SentInTurn' /\ Kept
      BY <1>1, <1>2 DEF PadIInv, InTurn, SentInTurn, Drove, Sent, Kept
    <2>2. PagesAgree'
      BY <1>1, <1>2, PageAgrees DEF PadIInv, PagesAgree
    <2>3. NewestShown'
      <3> SUFFICES ASSUME NEW c \in Pids, Drove(c)', \A d \in Pids : Drove(d)' => d <= c
                   PROVE  \E q \in Pages : Shows(q, cgi[c].cmd)'
        BY DEF NewestShown
      <3>1. PICK cmd : cmd = cgi[c].cmd /\ cmd = cgi'[c].cmd
        BY <1>2
      <3>2. PICK q \in Pages : Shows(q, cmd)
        BY <1>2, <3>1 DEF PadIInv, NewestShown, Drove
      <3>3. Shows(q, cmd)'
        BY <1>1, <1>2, <3>2, PageAgrees
      <3> QED  BY <3>1, <3>3 DEF Shows
    <2> QED  BY <1>1, <2>1, <2>2, <2>3, LatestQuiet
  <1>3. CASE cgi' # cgi
    <2>1. Fetch(p)
      BY <1>3 DEF PageStep
    <2>2. PICK c \in Pids :
            /\ cgi[c].pc = "none" /\ \A d \in Pids : d < c => cgi[d].pc # "none"
            /\ cgi' = [cgi EXCEPT ![c] = [Unused EXCEPT !.cmd = Head(chain[p]), !.pc = "reply"]]
      BY <1>3, <2>1 DEF Fetch
    <2>3. InTurn' /\ PagesAgree' /\ NewestShown' /\ SentInTurn' /\ Kept
      BY <1>1, <2>1, <2>2, PadFetch
    <2> QED  BY <1>1, <2>3, LatestQuiet
  <1> QED  BY <1>2, <1>3

\* A process keeps its command, and no process is started by another one.
LEMMA ProcessSame ==
  ASSUME TypeOK, NEW c \in Pids, ProcessStep(c), NEW d \in Pids
  PROVE  /\ cgi'[d].cmd = cgi[d].cmd
         /\ cgi'[d].pc = "none" <=> cgi[d].pc = "none"
         /\ Sent(d) => Sent(d)'
         /\ ~Command(c) \/ d # c => Sent(d)' = Sent(d)
         /\ Command(c) => cgi[c].pc = "send" /\ Sent(c)'
  <1>1. cgi \in [Pids -> Process]
    BY DEF TypeOK, CgiTypeOK
  <1>2. CASE OpenToken(c) \/ Fork(c)
    <2>1. \/ cgi' = [cgi EXCEPT ![c].pc = "write", ![c].holds = TRUE]
          \/ cgi' = [cgi EXCEPT ![c].pc = "fork"]
          \/ cgi' = [cgi EXCEPT ![c].pc = "done", ![c].cap = "asleep"]
          \/ cgi' = [cgi EXCEPT ![c].pc = "done"]
      BY <1>2, Zenon DEF OpenToken, Fork, Goto
    <2>2. cgi[c].pc \in {"open", "fork"}
      BY <1>2 DEF OpenToken, Fork, At
    <2>3. /\ cgi'[d].cmd = cgi[d].cmd
          /\ cgi'[d] = cgi[d] \/ (d = c /\ cgi'[d].pc \in {"write", "fork", "done"})
      <3>1. CASE cgi' = [cgi EXCEPT ![c].pc = "write", ![c].holds = TRUE]
        BY <1>1, <3>1 DEF Process
      <3>2. CASE cgi' = [cgi EXCEPT ![c].pc = "fork"]
        BY <1>1, <3>2 DEF Process
      <3>3. CASE cgi' = [cgi EXCEPT ![c].pc = "done", ![c].cap = "asleep"]
        BY <1>1, <3>3 DEF Process
      <3>4. CASE cgi' = [cgi EXCEPT ![c].pc = "done"]
        BY <1>1, <3>4 DEF Process
      <3> QED  BY <2>1, <3>1, <3>2, <3>3, <3>4
    <2> QED  BY <1>2, <2>2, <2>3 DEF Sent, Early, Command, At
  <1>3. CASE Unlink(c)
    <2>1. cgi[c].pc = "unlink" /\ ~Command(c)
      BY <1>3 DEF Unlink, At, Command
    <2>2. cgi'[d].cmd = cgi[d].cmd /\ cgi'[d].pc = IF d = c THEN "done" ELSE cgi[d].pc
      BY <1>1, <1>3 DEF Unlink, Process
    <2> QED  BY <2>1, <2>2 DEF Sent, Early
  <1>4. CASE Reply(c)
    <2>1. Only(c, "send", cgi[c].cap) /\ cgi[c].pc = "reply" /\ ~Command(c)
      BY <1>4, Reached DEF Reply, At, Command
    <2> QED  BY <2>1 DEF Only, Sent, Early
  <1>5. CASE Command(c)
    <2>1. \E pc2 \in {"open", "unlink", "done"} : Only(c, pc2, cgi[c].cap)
      <3>1. cgi[c].cmd \in Moves \union {"stop", "light"}
        BY <1>1 DEF Process, Commands
      <3> QED  BY <1>5, <3>1, Reached
    <2>2. cgi[c].pc = "send"
      BY <1>5 DEF Command, At
    <2> QED  BY <1>5, <2>1, <2>2 DEF Only, Sent, Early
  <1>6. CASE WriteToken(c)
    <2>1. Only(c, "fork", cgi[c].cap) /\ cgi[c].pc = "write" /\ ~Command(c)
      BY <1>6, Reached DEF WriteToken, At, Command
    <2> QED  BY <2>1 DEF Only, Sent, Early
  <1>7. CASE CapWakes(c) \/ CapStops(c)
    <2>1. \E cap2 : Only(c, cgi[c].pc, cap2)
      BY <1>7, Reached
    <2>2. Command(c) => cgi[c].pc = "send" /\ Sent(c)'
      BY <1>5
    <2>3. Sent(d)' = Sent(d)
      BY <2>1 DEF Only, Sent
    <2> QED  BY <2>1, <2>2, <2>3 DEF Only
  <1> QED  BY <1>2, <1>3, <1>4, <1>5, <1>6, <1>7 DEF ProcessStep, CgiStep, CapStep

LEMMA PadProcess ==
  ASSUME PadIInv, NEW c \in Pids, ProcessStep(c)
  PROVE  InTurn' /\ PagesAgree' /\ NewestShown' /\ SentInTurn' /\ LatestObeyed' /\ MotorDrives'
  <1> DEFINE Stays == ~Command(c) \/ cgi[c].cmd = "light"
  <1>1. TypeOK /\ Kept /\ UNCHANGED page
    BY ProcessKept DEF PadIInv, WatchIInv, TokenIInv, ProcessStep
  <1>2. UNCHANGED <<moving, chain, failed>>
    BY <1>1 DEF page
  <1>3. \A d \in Pids : /\ cgi'[d].cmd = cgi[d].cmd /\ Drove(d)' = Drove(d)
                        /\ cgi'[d].pc = "none" <=> cgi[d].pc = "none"
                        /\ Sent(d) => Sent(d)'
                        /\ ~Command(c) \/ d # c => Sent(d)' = Sent(d)
                        /\ Command(c) => cgi[c].pc = "send" /\ Sent(c)'
    BY <1>1, ProcessSame DEF Drove
  <1>4. InTurn' /\ PagesAgree' /\ NewestShown'
    <2>1. InTurn'
      BY <1>3 DEF PadIInv, InTurn
    <2>2. PagesAgree'
      BY <1>2 DEF PadIInv, PagesAgree, Agrees, Says
    <2>3. \A q \in Pages, cmd \in Commands : Shows(q, cmd) = Shows(q, cmd)'
      BY <1>2 DEF Shows, Says
    <2>4. \A d \in Pids : cgi[d].cmd \in Commands
      BY <1>1 DEF TypeOK, CgiTypeOK, Process
    <2>5. NewestShown'
      BY <1>3, <2>3, <2>4 DEF PadIInv, NewestShown
    <2> QED  BY <2>1, <2>2, <2>5
  <1>5. Stays => UNCHANGED <<lastcmd, overtaken>>
    <2>1. ~Command(c) => UNCHANGED <<lastcmd, overtaken>>
      BY DEF ProcessStep, CgiStep, CapStep, Reply, OpenToken, WriteToken, Fork, Unlink,
             CapWakes, CapStops
    <2> QED  BY <2>1 DEF Command
  <1>6. SentInTurn'
    <2>0. lastcmd \in Pids \union {0} /\ Pids \subseteq Nat /\ 0 \notin Pids
      BY <1>1, ConstantFacts DEF TypeOK, CgiTypeOK
    <2>1. CASE Stays
      <3>1. lastcmd' # 0 => (Drove(lastcmd) /\ Sent(lastcmd))'
        BY <1>3, <1>5, <2>0, <2>1 DEF PadIInv, SentInTurn
      <3>2. ASSUME NEW d \in Pids, Drove(d)', Sent(d)'  PROVE Drove(d) /\ Sent(d)
        BY <1>3, <2>1, <3>2 DEF Drove
      <3> QED  BY <1>3, <1>5, <2>1, <3>1, <3>2 DEF PadIInv, SentInTurn
    <2>2. CASE ~Stays
      <3>1. /\ lastcmd' = c /\ cgi[c].pc = "send" /\ cgi[c].cmd # "light"
            /\ ~overtaken' => ~overtaken /\ ~\E d \in Pids : d < c /\ cgi[d].pc \in {"reply", "send"}
        BY <2>2 DEF Command, At
      <3>2. (Drove(lastcmd) /\ Sent(lastcmd))'
        BY <1>3, <2>2, <3>1 DEF Drove
      <3>3. ASSUME ~overtaken'  PROVE \A d \in Pids : d < c => Sent(d)
        <4>1. \A d \in Pids : d < c => cgi[d].pc # "none"
          BY <3>1 DEF PadIInv, InTurn
        <4> QED  BY <3>1, <3>3, <4>1 DEF Sent, Early
      <3>4. ASSUME ~overtaken', NEW cc \in Pids, Drove(cc)', Sent(cc)'
            PROVE  cc <= c /\ \A d \in Pids : d < cc => Sent(d)'
        <4>1. CASE cc = c
          BY <1>3, <2>0, <3>3, <3>4, <4>1
        <4>2. CASE cc # c
          <5>1. Drove(cc) /\ Sent(cc) /\ ~overtaken
            BY <1>3, <3>1, <3>4, <4>2
          <5>2. \A d \in Pids : d < cc => Sent(d)
            BY <5>1 DEF PadIInv, SentInTurn
          <5>3. ~Sent(c)
            BY <3>1 DEF Sent, Early
          <5> QED  BY <1>3, <2>0, <5>2, <5>3
        <4> QED  BY <4>1, <4>2
      <3> QED  BY <2>0, <3>1, <3>2, <3>4 DEF SentInTurn
    <2> QED  BY <2>1, <2>2
  <1>7. CASE Reply(c) \/ OpenToken(c) \/ WriteToken(c) \/ Fork(c) \/ Unlink(c) \/ CapWakes(c)
    <2>1. UNCHANGED ipc /\ lastcmd' = lastcmd
      BY <1>7 DEF Reply, OpenToken, WriteToken, Fork, Unlink, CapWakes
    <2> QED  BY <1>1, <1>4, <1>6, <2>1, LatestQuiet
  <1>8. CASE CapStops(c)
    <2>1. PICK x \in Envelope : x = Message("stop", "cap", c) /\ x.op = "stop"
      BY MessageType DEF Commands, Moves
    <2>2. Post(x) /\ UNCHANGED <<up, motor>> /\ lastcmd' = lastcmd
      BY <1>8, <2>1 DEF CapStops
    <2> QED  BY <1>1, <1>4, <1>6, <2>1, <2>2, LatestPost
  <1>9. CASE Command(c)
    <2>0. cgi[c].cmd \in Moves \union {"stop", "light"}
      BY <1>1 DEF TypeOK, CgiTypeOK, Process, Commands
    <2>1. PICK x \in Envelope :
            /\ x = Message(cgi[c].cmd, "cgi", c) /\ x.from = "cgi" /\ x.id = c
            /\ cgi[c].cmd \in Moves => x.op = "move"
            /\ cgi[c].cmd \notin Moves => x.op = cgi[c].cmd
      BY <2>0, MessageType DEF Commands
    <2>2. x.arg = DirValue(cgi[c].cmd)
      BY <2>1 DEF Message
    <2>3. Post(x) /\ UNCHANGED <<up, motor>>
      BY <1>9, <2>1 DEF Command
    <2>4. cgi[c].cmd # "light" => lastcmd' = c
      BY <1>9 DEF Command
    <2>5. x.op = "move" => OfLatest(x)'
      <3>1. ASSUME x.op = "move"  PROVE cgi[c].cmd # "light"
        BY <2>1, <3>1 DEF Moves
      <3>2. cgi'[c].cmd = cgi[c].cmd
        BY <1>3
      <3> QED  BY <2>1, <2>2, <2>4, <3>1, <3>2 DEF OfLatest
    <2>6. ~Drives(x) => lastcmd' = lastcmd
      BY <1>5, <2>0, <2>1 DEF Drives
    <2> QED  BY <1>1, <1>4, <1>6, <2>1, <2>3, <2>5, <2>6, LatestPost
  <1> QED  BY <1>7, <1>8, <1>9 DEF ProcessStep, CgiStep, CapStep

\* What is neither the pad's nor its processes'.
LEMMA PadOthers ==
  ASSUME PadIInv, UNCHANGED cgivars \/ (\E e \in ShellEnvelopes : Shell(e))
  PROVE  InTurn' /\ PagesAgree' /\ NewestShown' /\ SentInTurn' /\ Kept /\ lastcmd' = lastcmd
  <1>1. UNCHANGED <<cgi, moving, chain, failed, lastcmd, overtaken>>
    BY DEF cgivars, page, Shell
  <1>2. InTurn' /\ SentInTurn' /\ Kept
    BY <1>1 DEF PadIInv, InTurn, SentInTurn, Drove, Sent, Kept
  <1>3. PagesAgree' /\ NewestShown'
    BY <1>1 DEF PadIInv, PagesAgree, Agrees, Says, NewestShown, Drove, Shows
  <1> QED  BY <1>1, <1>2, <1>3

LEMMA PadShell ==
  ASSUME PadIInv, NEW x \in ShellEnvelopes, Shell(x)
  PROVE  LatestObeyed' /\ MotorDrives'
  <1>1. x \in Envelope /\ x.from = "shell"
    BY DirValueType DEF ShellEnvelopes, Envelope
  <1>2. Post(x) /\ UNCHANGED <<up, motor>> /\ Kept /\ lastcmd' = lastcmd
    BY PadOthers DEF Shell
  <1> QED  BY <1>1, <1>2, LatestPost DEF OfLatest

\* The daemon sends nothing in the pad's name.
LEMMA PadDaemon ==
  ASSUME PadIInv, ReadStep \/ Handle \/ CapFires, UNCHANGED cgivars
  PROVE  LatestObeyed' /\ MotorDrives'
  <1>1. Kept /\ lastcmd' = lastcmd
    BY PadOthers
  <1>2. CASE UNCHANGED ipc
    BY <1>1, <1>2, LatestQuiet
  <1>3. ASSUME NEW o \in Envelope, o.from = "onvif", SendEnv(o), UNCHANGED <<up, motor>>
        PROVE  LatestObeyed' /\ MotorDrives'
    <2>1. CASE Post(o)
      BY <1>1, <1>3, <2>1, LatestPost DEF OfLatest
    <2>2. CASE ~g_mq_ok
      BY <1>2, <1>3, <2>2 DEF SendEnv, ipc
    <2> QED  BY <1>3, <2>1, <2>2 DEF SendEnv
  <1>4. CASE CapFires
    <2>1. Order("stop", 0) \in Envelope /\ Order("stop", 0).from = "onvif"
      BY DEF Order, Envelope
    <2> QED  BY <1>3, <1>4, <2>1 DEF CapFires
  <1>5. CASE Serve
    <2>1. UNCHANGED <<up, motor>>
      BY <1>5 DEF Serve, Done
    <2>2. PICK s \in {Orders(Route(req.action), n - req.hdr)} :
            \/ queue' = queue
            \/ \E o \in s : SendEnv(o)
      BY <1>5, ServeFacts, Zenon
    <2>3. CASE queue' = queue
      BY <1>2, <2>1, <2>3 DEF ipc
    <2>4. ASSUME NEW o \in s, SendEnv(o)  PROVE LatestObeyed' /\ MotorDrives'
      <3>1. o \in Envelope /\ o.from = "onvif"
        BY <2>2, OrderType
      <3> QED  BY <1>3, <2>1, <2>4, <3>1
    <2> QED  BY <2>2, <2>3, <2>4
  <1>6. CASE Fault
    BY <1>2, <1>6 DEF Fault, Done, ipc
  <1>7. CASE ReadStep
    BY <1>2, <1>7 DEF ReadStep, ReadSome, ReadEnd
  <1> QED  BY <1>4, <1>5, <1>6, <1>7 DEF Handle

LEMMA PadApp ==
  ASSUME PadIInv, AppStep, UNCHANGED cgivars
  PROVE  LatestObeyed' /\ MotorDrives'
  <1>1. /\ QueueTypeOK /\ UNCHANGED <<cgi, lastcmd>>
        /\ \A e : OfLatest(e) => OfLatest(e)'
    BY DEF PadIInv, WatchIInv, TokenIInv, TypeOK, cgivars, OfLatest
  <1>2. CASE AppUp
    <2>1. \A e : Obeyed(e)' => Obeyed(e)
      BY <1>2 DEF AppUp, Obeyed
    <2>2. MotorDrives'
      BY <1>2 DEF AppUp, PadIInv, MotorDrives, Drives
    <2> QED  BY <1>1, <2>1, <2>2 DEF PadIInv, LatestObeyed
  <1>3. CASE Dispatch
    <2>1. \A e : e.op = "move" /\ Obeyed(e)' => Obeyed(e)
      BY <1>1, <1>3, ObeyedDispatch
    <2>2. MotorDrives'
      BY <1>3 DEF Dispatch, PadIInv, MotorDrives, Drives, Still
    <2> QED  BY <1>1, <2>1, <2>2 DEF PadIInv, LatestObeyed
  <1> QED  BY <1>2, <1>3 DEF AppStep

LEMMA InitPad == Init => PadIInv
  <1> SUFFICES ASSUME Init
               PROVE  InTurn /\ PagesAgree /\ NewestShown /\ SentInTurn /\ LatestObeyed /\ MotorDrives
    BY InitWatch DEF PadIInv
  <1>1. /\ \A c \in Pids : cgi[c].pc = "none" /\ ~Drove(c) /\ ~Sent(c)
        /\ \A p \in Pages : AllLight(chain[p])
        /\ lastcmd = 0 /\ motor = Still /\ queue = <<>>
    BY DEF Init, QueueInit, CgiInit, Unused, Drove, Sent, Early, AllLight
  <1>2. \A e : Obeyed(e) => e = Still
    BY <1>1 DEF Obeyed
  <1> QED
    BY <1>1, <1>2 DEF InTurn, PagesAgree, Agrees, NewestShown, SentInTurn, LatestObeyed,
                      MotorDrives, Drives, Still

LEMMA NextPad == PadIInv /\ [Next]_vars => PadIInv'
  <1> DEFINE Goal == InTurn' /\ PagesAgree' /\ NewestShown' /\ SentInTurn' /\ LatestObeyed'
                       /\ MotorDrives'
  <1> SUFFICES ASSUME PadIInv, [Next]_vars  PROVE Goal
    BY NextWatch DEF PadIInv
  <1>1. CASE UNCHANGED vars
    <2>1. UNCHANGED cgivars /\ UNCHANGED ipc
      BY <1>1 DEF vars
    <2> QED  BY <2>1, PadOthers, LatestQuiet
  <1>2. ASSUME NEW p \in Pages, PageStep(p)  PROVE Goal
    BY <1>2, PadPage
  <1>3. ASSUME NEW c \in Pids, ProcessStep(c)  PROVE Goal
    BY <1>3, PadProcess
  <1>4. ASSUME NEW x \in ShellEnvelopes, Shell(x)  PROVE Goal
    BY <1>4, PadOthers, PadShell
  <1>5. CASE (ReadStep \/ Handle \/ CapFires) /\ UNCHANGED cgivars
    BY <1>5, PadOthers, PadDaemon
  <1>6. CASE ((\E r \in Requests : Accept(r)) \/ Arrive \/ Lease) /\ UNCHANGED cgivars
    <2>1. UNCHANGED ipc
      BY <1>6 DEF Accept, Arrive, Lease
    <2> QED  BY <1>6, <2>1, PadOthers, LatestQuiet
  <1>7. CASE AppStep /\ UNCHANGED <<cgivars, onvifvars>>
    BY <1>7, PadOthers, PadApp
  <1> QED  BY <1>1, <1>2, <1>3, <1>4, <1>5, <1>6, <1>7, Steps

\* For any number of pages and processes: once everything has been sent and taken in
\* its order, a camera the pad moves goes where one of the pages shows.
THEOREM PadShowsTheorem == Spec => []PadShows
  <1>1. PadIInv => PadShows
    <2> SUFFICES ASSUME PadIInv, queue = <<>>, ~overtaken, motor.op # "stop", motor.from = "cgi",
                        \A p \in Pages : chain[p] = <<>> /\ ~failed[p],
                        \A c \in Pids : cgi[c].pc \notin {"reply", "send"}
                 PROVE  \E p \in Pages : moving[p] # "no" /\ motor.arg = DirValue(moving[p])
      BY DEF PadShows
    <2>1. motor.op = "move" /\ Obeyed(motor) /\ InQueue(motor)
      BY DEF PadIInv, MotorDrives, Drives, Obeyed, InQueue
    <2>2. /\ motor.id = lastcmd /\ motor.arg = DirValue(cgi[lastcmd].cmd)
          /\ lastcmd \in Pids /\ cgi[lastcmd].cmd \in Moves /\ Sent(lastcmd)
      BY <2>1 DEF PadIInv, LatestObeyed, OfLatest, WatchIInv, Senders, Sender, Sent
    <2>3. Drove(lastcmd)
      BY <2>2 DEF Drove, Sent, Early, Moves
    <2>4. \A d \in Pids : Drove(d) => Sent(d)
      BY DEF Drove, Sent, Early
    <2>5. \A d \in Pids : Drove(d) => d <= lastcmd
      BY <2>4 DEF PadIInv, SentInTurn
    <2>6. PICK p \in Pages : Shows(p, cgi[lastcmd].cmd)
      BY <2>2, <2>3, <2>5 DEF PadIInv, NewestShown
    <2>7. cgi[lastcmd].cmd = Shown(moving[p])
      BY <2>6 DEF Shows, Says, EndsIn
    <2> QED  BY <2>2, <2>7 DEF Shown, Moves
  <1> QED  BY <1>1, InitPad, NextPad, PTL DEF Spec
=============================================================================
