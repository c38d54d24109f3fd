-------------------------------- MODULE Onvif --------------------------------
(***************************************************************************)
(* The ONVIF daemon, src/src/onvif/onvif.c: one thread that accepts a      *)
(* client, reads its request from as many segments as it comes in, routes  *)
(* it on its SOAPAction, sends envelopes to the app's queue, answers, and  *)
(* stops an unattended move when no client has come for a second.          *)
(*                                                                         *)
(* A request is hdr units of header, the last of which ends it, and body   *)
(* units of body.  The body of a ContinuousMove carries the attribute x in *)
(* its first unit and y in its second one, that of a preset command its    *)
(* token in the first.                                                     *)
(***************************************************************************)
EXTENDS PtzQueue, SequencesExt

CONSTANTS
    Requests,   \* what clients may ask
    Cap,        \* sizeof req, in units
    Addresses   \* addresses DHCP may give wlan0

\* Words of a method's name after its service, so that the name of one method
\* begins with that of another exactly when its words do.
Method(svc, words) == [svc |-> svc, words |-> words]
NoAction == Method("none", <<>>)

Move == Method("ptz", <<"Continuous", "Move">>)
Stop == Method("ptz", <<"Stop">>)
SetPreset == Method("ptz", <<"Set", "Preset">>)
GotoPreset == Method("ptz", <<"Goto", "Preset">>)

\* Methods that are answered with a text and change nothing.
DeviceQueries == <<
    Method("device", <<"Get", "Device", "Information">>),
    Method("device", <<"Get", "Capabilities">>),
    Method("device", <<"Get", "Scopes">>),
    Method("device", <<"Get", "System", "Date", "And", "Time">>) >>
MediaQueries == <<
    Method("media", <<"Get", "Profile", "s">>),
    Method("media", <<"Get", "Stream", "Uri">>) >>
PtzQueries == <<
    Method("ptz", <<"Get", "Preset", "s">>),
    Method("ptz", <<"Get", "Status">>),
    Method("ptz", <<"Get", "Node", "s">>),
    Method("ptz", <<"Get", "Node">>),
    Method("ptz", <<"Get", "Configuration", "s">>),
    Method("ptz", <<"Get", "Service", "Capabilities">>) >>
ServiceQueries == <<
    Method("media", <<"Get", "Service", "Capabilities">>),
    Method("device", <<"Get", "Service", "Capabilities">>),
    Method("device", <<"Get", "Service", "s">>),
    Method("device", <<"Get", "Network", "Interface", "s">>) >>

\* Answers that carry the camera's address.
Addressed == {DeviceQueries[2], MediaQueries[2], ServiceQueries[3], ServiceQueries[4]}

ASSUME OnvifAssumption ==
    /\ Cap \in Nat \ {0}
    /\ \A r \in Requests :
         /\ r.hdr \in Nat \ {0} /\ r.body \in Nat
         /\ r.x \in Int /\ r.y \in Int /\ r.token \in Nat
         /\ r.cl \in BOOLEAN

\* What a body is too short to carry is not asked for.
ASSUME BodyAssumption ==
    \A r \in Requests : /\ r.body < 1 => r.x = 0 /\ r.token = 1
                        /\ r.body < 2 => r.y = 0

VARIABLES
    pc,         \* "select", "read" or "handle"
    req,        \* the request being served
    given,      \* units of it that have arrived
    n, hdr_end, body_len, have_cl,  \* locals of read_request
    g_move_at,  \* a move is to be stopped
    g_mq_ok,
    wlan,       \* the address of wlan0, or NoAddress
    g_ip,
    \* history variables
    worn,       \* addresses wlan0 had from accepting the request to answering it
    did         \* what was done with the latest request, or Nothing

NoAddress == "0.0.0.0"
reading == <<n, hdr_end, body_len, have_cl>>
client == <<req, given>>
onvifvars == <<pc, client, reading, g_move_at, g_mq_ok, wlan, g_ip, worn, did>>

Lesser(a, b) == IF a < b THEN a ELSE b
Size(r) == r.hdr + r.body
-----------------------------------------------------------------------------
(* read_request *)

ReadInit == n = 0 /\ hdr_end = 0 /\ body_len = 0 /\ have_cl = FALSE

\* The loop's condition and its first test, negated.
ReadOver == \/ n >= Cap - 1
            \/ hdr_end # 0 /\ have_cl /\ n >= hdr_end + body_len

\* Mutant of ReadSome: a request is what one read returns.
ReadSomeOnce ==
    /\ pc = "read" /\ ~ReadOver
    /\ \E k \in 1 .. Lesser(given - n, Cap - 1 - n) :
         /\ n' = n + k
         /\ hdr_end' = (IF n' >= req.hdr THEN req.hdr ELSE 0)
         /\ have_cl' = (hdr_end' # 0) /\ body_len' = 0
    /\ pc' = "handle"
    /\ UNCHANGED <<client, g_move_at, g_mq_ok, wlan, g_ip, worn, did, ipc>>

\* Mutant of ReadSome: a read may fill more than the buffer.
ReadSomeFar ==
    /\ pc = "read" /\ ~ReadOver
    /\ \E k \in 1 .. given - n :
         /\ n' = n + k
         /\ hdr_end' = IF hdr_end = 0 /\ n' >= req.hdr THEN req.hdr ELSE hdr_end
         /\ have_cl' = (hdr_end' # 0)
         /\ body_len' = IF hdr_end' # 0 /\ ~have_cl /\ req.cl THEN req.body ELSE body_len
    /\ UNCHANGED <<pc, client, g_move_at, g_mq_ok, wlan, g_ip, worn, did, ipc>>

\* One read that returns data.  Content-Length is looked for once, in the
\* header, and cut to what fits.
ReadSome ==
    /\ pc = "read" /\ ~ReadOver
    /\ \E k \in 1 .. Lesser(given - n, Cap - 1 - n) :
         /\ n' = n + k
         /\ hdr_end' = IF hdr_end = 0 /\ n' >= req.hdr THEN req.hdr ELSE hdr_end
         /\ have_cl' = (hdr_end' # 0)
         /\ body_len' = IF hdr_end' # 0 /\ ~have_cl /\ req.cl
                          THEN Lesser(req.body, Cap - 1 - hdr_end') ELSE body_len
    /\ UNCHANGED <<pc, client, g_move_at, g_mq_ok, wlan, g_ip, worn, did, ipc>>

\* The request is read, or nothing has come for five seconds, or the client
\* has closed its end.
ReadEnd ==
    /\ pc = "read"
    /\ ReadOver \/ n = given
    /\ pc' = "handle"
    /\ UNCHANGED <<client, reading, g_move_at, g_mq_ok, wlan, g_ip, worn, did, ipc>>

ReadStep == ReadSome \/ ReadEnd
-----------------------------------------------------------------------------
(* handle_request *)

\* Mutant of Routes: the shorter name is tried first.
RoutesShortFirst ==
    DeviceQueries \o MediaQueries \o <<Move, Stop, SetPreset, GotoPreset>>
      \o [PtzQueries EXCEPT ![3] = PtzQueries[4], ![4] = PtzQueries[3]]
      \o ServiceQueries

\* The tests of the SOAPAction in their order.
Routes == DeviceQueries \o MediaQueries \o <<Move, Stop, SetPreset, GotoPreset>>
            \o PtzQueries \o ServiceQueries

\* The test for method m finds its text in the action.
Finds(m, action) == m.svc = action.svc /\ IsPrefix(m.words, action.words)

\* No client asks for a method whose name goes on where that of a route ends,
\* unless that is a route too: ONVIF has none.
ASSUME MethodAssumption ==
    \A r \in Requests, m \in Range(Routes) :
      Finds(m, r.action) => r.action \in Range(Routes)

\* The first test that does.
Route(action) ==
    LET Hits == {i \in DOMAIN Routes : Finds(Routes[i], action)}
    IN  IF Hits = {} THEN NoAction
        ELSE Routes[CHOOSE i \in Hits : \A j \in Hits : i <= j]

\* Mutant of Direction: the sign of y decides first.
DirectionByY(x, y) == CASE x = 0 /\ y = 0 -> 0
                        [] y # 0          -> DirValue(IF y > 0 THEN "up" ELSE "down")
                        [] OTHER          -> DirValue(IF x > 0 THEN "right" ELSE "left")

\* rsp_ptz_move: the direction of the longer component; 0 is a stop.
Direction(x, y) == CASE x = 0 /\ y = 0 -> 0
                     [] x * x > y * y  -> DirValue(IF x > 0 THEN "right" ELSE "left")
                     [] OTHER          -> DirValue(IF y > 0 THEN "up" ELSE "down")

\* preset_index.
PresetIndex(token) == IF token \in 1 .. 4 THEN token ELSE 1

Order(op, arg) == [op |-> op, arg |-> arg, from |-> "onvif", id |-> 0]

\* The envelope for a method, from the k units of the body that were read.
Orders(m, k) ==
    CASE m = Move ->
            LET dir == Direction(IF k >= 1 THEN req.x ELSE 0, IF k >= 2 THEN req.y ELSE 0)
            IN  {Order(IF dir = 0 THEN "stop" ELSE "move", dir)}
      [] m = Stop       -> {Order("stop", 0)}
      [] m = SetPreset  -> {Order("preset", 0)}
      [] m = GotoPreset -> {Order("preset", PresetIndex(IF k >= 1 THEN req.token ELSE 1))}
      [] OTHER          -> {}

\* send_env: the first mq_open that fails is the last one tried.
SendEnv(e) ==
    IF g_mq_ok THEN Post(e) /\ g_mq_ok' = up ELSE UNCHANGED <<queue, g_mq_ok>>

\* Mutant of MkXaddr: only the first address is taken.
MkXaddrOnce == g_ip' = IF g_ip = NoAddress THEN wlan ELSE g_ip

\* mk_xaddr: the address is taken anew, and kept while wlan0 has none.
MkXaddr == g_ip' = IF wlan = NoAddress THEN g_ip ELSE wlan

\* A request is done with: m is the handler that was called, e the envelope.
Done(m, e) ==
    /\ did' = [handler |-> m, orders |-> e, ip |-> g_ip']
    /\ pc' = "select"
    /\ UNCHANGED <<client, reading, wlan, worn, up, motor>>

\* The header did not come, or no handler is for the action.
Fault ==
    /\ pc = "handle"
    /\ n < req.hdr \/ Route(req.action) = NoAction
    /\ IF n < req.hdr THEN UNCHANGED g_ip ELSE MkXaddr
    /\ Done(NoAction, {})
    /\ UNCHANGED <<queue, g_move_at, g_mq_ok>>

\* Mutant of Serve: a move does not set the time.
ServeKeepsTime ==
    /\ pc = "handle" /\ n >= req.hdr
    /\ LET m == Route(req.action)
           e == Orders(m, n - req.hdr) IN
         /\ m # NoAction
         /\ IF e = {} THEN UNCHANGED <<queue, g_mq_ok>> ELSE \A o \in e : SendEnv(o)
         /\ g_move_at' = (g_move_at /\ m # Stop)
         /\ MkXaddr
         /\ Done(m, e)

\* A handler: the envelope, the time of the move, the answer.
Serve ==
    /\ pc = "handle" /\ n >= req.hdr
    /\ LET m == Route(req.action)
           e == Orders(m, n - req.hdr) IN
         /\ m # NoAction
         /\ IF e = {} THEN UNCHANGED <<queue, g_mq_ok>> ELSE \A o \in e : SendEnv(o)
         /\ g_move_at' = (m = Move \/ (m # Stop /\ g_move_at))
         /\ MkXaddr
         /\ Done(m, e)

Handle == Fault \/ Serve
-----------------------------------------------------------------------------
(* main *)

NoRequest == [action |-> NoAction, x |-> 0, y |-> 0, token |-> 1, cl |-> TRUE,
              hdr |-> 1, body |-> 0]
Nothing == [handler |-> NoAction, orders |-> {}, ip |-> NoAddress]

OnvifInit ==
    /\ pc = "select" /\ given = 0
    /\ req = NoRequest
    /\ ReadInit
    /\ g_move_at = FALSE /\ g_mq_ok = TRUE
    /\ wlan \in Addresses \union {NoAddress} /\ g_ip = wlan
    /\ worn = {} /\ did = Nothing

\* select says there is a client.
Accept(r) ==
    /\ pc = "select"
    /\ pc' = "read"
    /\ req' = r /\ given' = 0
    /\ n' = 0 /\ hdr_end' = 0 /\ body_len' = 0 /\ have_cl' = FALSE
    /\ worn' = {wlan} /\ did' = Nothing
    /\ UNCHANGED <<g_move_at, g_mq_ok, wlan, g_ip, ipc>>

\* The next segment of the request.
Arrive ==
    /\ pc = "read"
    /\ given' \in given + 1 .. Size(req)
    /\ UNCHANGED <<pc, req, reading, g_move_at, g_mq_ok, wlan, g_ip, worn, did, ipc>>

\* Mutant of CapFires: the stop is not sent when the queue is full.
CapFiresNoWait ==
    /\ pc = "select" /\ g_move_at
    /\ IF Len(queue) < QueueLen THEN SendEnv(Order("stop", 0))
                                ELSE UNCHANGED <<queue, g_mq_ok>>
    /\ g_move_at' = FALSE
    /\ UNCHANGED <<pc, client, reading, wlan, g_ip, worn, did, up, motor>>

\* select times out, and the move is ten seconds old.
CapFires ==
    /\ pc = "select" /\ g_move_at
    /\ SendEnv(Order("stop", 0))
    /\ g_move_at' = FALSE
    /\ UNCHANGED <<pc, client, reading, wlan, g_ip, worn, did, up, motor>>

\* wlan0 comes up, loses its address, gets another one.
Lease ==
    /\ wlan' \in (Addresses \union {NoAddress}) \ {wlan}
    /\ worn' = IF pc = "select" THEN worn ELSE worn \union {wlan'}
    /\ UNCHANGED <<pc, client, reading, g_move_at, g_mq_ok, g_ip, did, ipc>>

DaemonStep == ReadStep \/ Handle \/ CapFires
OnvifNext == DaemonStep \/ (\E r \in Requests : Accept(r)) \/ Arrive \/ Lease
-----------------------------------------------------------------------------
OnvifTypeOK ==
    /\ pc \in {"select", "read", "handle"} /\ req \in Requests \union {NoRequest}
    /\ given \in 0 .. Size(req) /\ n \in 0 .. Lesser(given, Cap - 1)
    /\ hdr_end \in {0, req.hdr} /\ hdr_end <= n /\ have_cl = (hdr_end # 0)
    /\ body_len \in 0 .. req.body
    /\ g_move_at \in BOOLEAN /\ g_mq_ok \in BOOLEAN
=============================================================================
