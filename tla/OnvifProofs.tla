----------------------------- MODULE OnvifProofs -----------------------------
(***************************************************************************)
(* Proofs about the ONVIF daemon in PtzControl: a request is read whole,   *)
(* an answer has the address of the moment, a method gets its handler, and *)
(* the envelope is the one that was asked for.                             *)
(***************************************************************************)
EXTENDS PtzProofs

(* A request is read whole *)

\* How far read_request has come with the request.
Progress ==
    /\ pc # "select" =>
         /\ hdr_end = IF n >= req.hdr THEN req.hdr ELSE 0
         /\ hdr_end # 0 /\ req.cl => body_len = Lesser(req.body, Cap - 1 - hdr_end)
    /\ pc = "handle" => ReadOver \/ n = given

LEMMA Numbers ==
  ASSUME TypeOK
  PROVE  /\ req.hdr \in Nat \ {0} /\ req.body \in Nat /\ Cap \in Nat \ {0}
         /\ given \in 0 .. Size(req) /\ n \in 0 .. given /\ n <= Cap - 1
         /\ have_cl = (hdr_end # 0)
  <1>1. req \in Requests \union {NoRequest} /\ given \in 0 .. Size(req)
          /\ n \in 0 .. Lesser(given, Cap - 1) /\ have_cl = (hdr_end # 0)
    BY DEF TypeOK, OnvifTypeOK
  <1>2. req.hdr \in Nat \ {0} /\ req.body \in Nat /\ Cap \in Nat \ {0}
    BY <1>1, ConstantFacts
  <1> QED  BY <1>1, <1>2 DEF Size, Lesser

LEMMA ProgressNext ==
  ASSUME TypeOK, Progress, [Next]_vars
  PROVE  Progress'
  <1> USE Numbers
  <1>1. CASE UNCHANGED <<pc, req, given, n, hdr_end, body_len, have_cl>>
    BY <1>1 DEF Progress, ReadOver
  <1>2. CASE ReadSome
    <2>1. PICK k \in 1 .. Lesser(given - n, Cap - 1 - n) :
            /\ n' = n + k
            /\ hdr_end' = IF hdr_end = 0 /\ n' >= req.hdr THEN req.hdr ELSE hdr_end
            /\ body_len' = IF hdr_end' # 0 /\ ~have_cl /\ req.cl
                             THEN Lesser(req.body, Cap - 1 - hdr_end') ELSE body_len
            /\ pc = "read" /\ pc' = "read" /\ req' = req
      BY <1>2 DEF ReadSome, client
    <2>2. k \in Nat /\ n' >= n /\ n' \in Nat
      BY <2>1 DEF Lesser
    <2>3. hdr_end' = IF n' >= req.hdr THEN req.hdr ELSE 0
      BY <2>1, <2>2 DEF Progress
    <2>4. ASSUME hdr_end' # 0, req.cl
          PROVE  body_len' = Lesser(req.body, Cap - 1 - hdr_end')
      <3>1. CASE hdr_end = 0
        BY <2>1, <2>4, <3>1
      <3>2. CASE hdr_end # 0
        BY <2>1, <2>4, <3>2 DEF Progress
      <3> QED  BY <3>1, <3>2
    <2> QED  BY <2>1, <2>3, <2>4 DEF Progress
  <1>3. CASE ReadEnd
    BY <1>3 DEF ReadEnd, client, reading, Progress, ReadOver
  <1>4. CASE Handle
    BY <1>4 DEF Handle, Fault, Serve, Done, Progress
  <1>5. CASE \E r \in Requests : Accept(r)
    <2>1. PICK r \in Requests : Accept(r)
      BY <1>5
    <2>2. r.hdr \in Nat \ {0}
      BY ConstantFacts
    <2> QED  BY <2>1, <2>2 DEF Accept, Progress
  <1>6. CASE Arrive
    BY <1>6 DEF Arrive, reading, Progress
  <1>7. CASE Next
    BY <1>1, <1>2, <1>3, <1>4, <1>5, <1>6, <1>7, Steps
       DEF onvifvars, client, reading, ProcessStep, ReadStep, CapFires, Lease
  <1> QED  BY <1>1, <1>7 DEF vars, onvifvars, client, reading

\* For any request in any segments and any size of the buffer: what a handler gets is
\* the whole request, if it fits and its length is given.
THEOREM WholeRequestTheorem == Spec => []WholeRequest
  <1>1. Init => Progress
    BY DEF Init, OnvifInit, Progress
  <1>2. TypeOK /\ Progress /\ [Next]_vars => Progress'
    BY ProgressNext
  <1>3. TypeOK /\ Progress => WholeRequest
    <2> SUFFICES ASSUME TypeOK, Progress, pc = "handle", req.cl, given = Size(req),
                        Size(req) < Cap
                 PROVE  n = given
      BY DEF WholeRequest
    <2> USE Numbers
    <2>1. CASE n >= Cap - 1
      BY <2>1
    <2>2. CASE hdr_end # 0 /\ have_cl /\ n >= hdr_end + body_len
      <3>1. hdr_end = req.hdr /\ body_len = Lesser(req.body, Cap - 1 - req.hdr)
        BY <2>2 DEF Progress
      <3>2. body_len = req.body
        BY <3>1 DEF Size, Lesser
      <3> QED  BY <2>2, <3>1, <3>2 DEF Size
    <2> QED  BY <2>1, <2>2 DEF Progress, ReadOver
  <1> QED  BY <1>1, <1>2, <1>3, TypeCorrect, PTL DEF Spec
-----------------------------------------------------------------------------
(* An answer names an address of the moment *)

Served == (pc # "select" => wlan \in worn) /\ AddressFresh

\* For any addresses DHCP may give: the answers that name the camera name one it had
\* while it served the request.
THEOREM AddressFreshTheorem == Spec => []AddressFresh
  <1>0. NoAction \notin Addressed
    BY DEF NoAction, Addressed, DeviceQueries, MediaQueries, ServiceQueries, Method
  <1>1. Init => Served
    BY <1>0 DEF Init, OnvifInit, Served, AddressFresh, Nothing
  <1>2. Served /\ [Next]_vars => Served'
    <2> SUFFICES ASSUME Served, [Next]_vars  PROVE Served'
      OBVIOUS
    <2>1. CASE UNCHANGED <<did, worn, wlan>> /\ (pc' = "select" \/ pc # "select")
      BY <2>1 DEF Served, AddressFresh
    <2>2. CASE Serve
      <3>1. PICK m, e : /\ did' = [handler |-> m, orders |-> e, ip |-> g_ip']
                        /\ MkXaddr /\ UNCHANGED <<worn, wlan>> /\ pc = "handle"
        BY <2>2, Zenon DEF Serve, Done
      <3>2. wlan \in worn /\ pc' = "select"
        BY <2>2, <3>1 DEF Served, Serve, Done
      <3> QED  BY <3>1, <3>2 DEF Served, AddressFresh, MkXaddr
    <2>3. CASE Fault
      <3>1. did'.handler = NoAction /\ pc' = "select"
        BY <2>3 DEF Fault, Done
      <3> QED  BY <1>0, <3>1 DEF Served, AddressFresh
    <2>4. CASE \E r \in Requests : Accept(r)
      BY <1>0, <2>4 DEF Accept, Served, AddressFresh, Nothing
    <2>5. CASE Lease
      BY <2>5 DEF Lease, Served, AddressFresh
    <2>6. CASE ReadStep \/ CapFires \/ Arrive
      BY <2>1, <2>6 DEF ReadStep, ReadSome, ReadEnd, CapFires, Arrive
    <2>7. CASE UNCHANGED onvifvars
      BY <2>7 DEF onvifvars, Served, AddressFresh
    <2> QED  BY <2>2, <2>3, <2>4, <2>5, <2>6, <2>7, Steps DEF Handle, ProcessStep, vars
  <1>3. Served => AddressFresh
    BY DEF Served
  <1> QED  BY <1>1, <1>2, <1>3, PTL DEF Spec
-----------------------------------------------------------------------------
(* The tests of the SOAPAction, in their order *)

\* c is the join of a and b, which are p and q long.
Joins(S, a, b, c, p, q) ==
    /\ a \in Seq(S) /\ b \in Seq(S) /\ c = a \o b
    /\ Len(a) = p /\ Len(b) = q

\* What that says of c.
Joined(S, a, b, c, p, q) ==
    /\ c \in Seq(S) /\ Len(c) = p + q
    /\ \A i \in 1 .. p : c[i] = a[i]
    /\ \A i \in 1 .. q : c[p + i] = b[i]

LEMMA Joining ==
  ASSUME NEW S, NEW a \in Seq(S), NEW b \in Seq(S)
  PROVE  /\ a \o b \in Seq(S) /\ Len(a \o b) = Len(a) + Len(b)
         /\ \A i \in 1 .. Len(a) : (a \o b)[i] = a[i]
         /\ \A i \in 1 .. Len(b) : (a \o b)[Len(a) + i] = b[i]
  OBVIOUS

LEMMA JoinsAt ==
  ASSUME NEW S, NEW a, NEW b, NEW c, NEW p, NEW q, Joins(S, a, b, c, p, q)
  PROVE  Joined(S, a, b, c, p, q)
  <1>1. a \in Seq(S) /\ b \in Seq(S) /\ c = a \o b
    BY DEF Joins
  <1>2. /\ c \in Seq(S) /\ Len(c) = Len(a) + Len(b)
        /\ \A i \in 1 .. Len(a) : c[i] = a[i]
        /\ \A i \in 1 .. Len(b) : c[Len(a) + i] = b[i]
    BY <1>1, Joining
  <1>3. Len(a) = p /\ Len(b) = q
    BY DEF Joins
  <1> QED  BY <1>2, <1>3 DEF Joined

\* s is the join of five lists of the lengths that those of the routes have.
JoinOfFive(S, s, a, b, c, d, e) ==
    /\ a \in Seq(S) /\ b \in Seq(S) /\ c \in Seq(S) /\ d \in Seq(S) /\ e \in Seq(S)
    /\ Len(a) = 4 /\ Len(b) = 2 /\ Len(c) = 4 /\ Len(d) = 6 /\ Len(e) = 4
    /\ s = a \o b \o c \o d \o e

LEMMA JoiningFive ==
  ASSUME NEW S, NEW s, NEW a, NEW b, NEW c, NEW d, NEW e, JoinOfFive(S, s, a, b, c, d, e)
  PROVE  /\ s \in Seq(S) /\ Len(s) = 20
         /\ \A i \in 1 .. 4 : s[i] = a[i]
         /\ \A i \in 1 .. 2 : s[4 + i] = b[i]
         /\ \A i \in 1 .. 4 : s[6 + i] = c[i]
         /\ \A i \in 1 .. 6 : s[10 + i] = d[i]
         /\ \A i \in 1 .. 4 : s[16 + i] = e[i]
  <1>0. /\ a \in Seq(S) /\ b \in Seq(S) /\ c \in Seq(S) /\ d \in Seq(S) /\ e \in Seq(S)
        /\ Len(a) = 4 /\ Len(b) = 2 /\ Len(c) = 4 /\ Len(d) = 6 /\ Len(e) = 4
    BY DEF JoinOfFive
  <1>1. PICK A : A = a \o b
    OBVIOUS
  <1>2. /\ A \in Seq(S) /\ Len(A) = 4 + 2
        /\ \A i \in 1 .. 4 : A[i] = a[i]
        /\ \A i \in 1 .. 2 : A[4 + i] = b[i]
    <2>1. Joins(S, a, b, A, 4, 2)
      BY <1>0, <1>1 DEF Joins
    <2>2. Joined(S, a, b, A, 4, 2)
      BY <2>1, JoinsAt, Zenon
    <2> QED  BY <2>2 DEF Joined
  <1>3. PICK B : B = A \o c
    OBVIOUS
  <1>4. /\ B \in Seq(S) /\ Len(B) = 6 + 4
        /\ \A i \in 1 .. 6 : B[i] = A[i]
        /\ \A i \in 1 .. 4 : B[6 + i] = c[i]
    <2>1. Joins(S, A, c, B, 6, 4)
      BY <1>0, <1>2, <1>3 DEF Joins
    <2>2. Joined(S, A, c, B, 6, 4)
      BY <2>1, JoinsAt, Zenon
    <2> QED  BY <2>2 DEF Joined
  <1>5. PICK C : C = B \o d
    OBVIOUS
  <1>6. /\ C \in Seq(S) /\ Len(C) = 10 + 6
        /\ \A i \in 1 .. 10 : C[i] = B[i]
        /\ \A i \in 1 .. 6 : C[10 + i] = d[i]
    <2>1. Joins(S, B, d, C, 10, 6)
      BY <1>0, <1>4, <1>5 DEF Joins
    <2>2. Joined(S, B, d, C, 10, 6)
      BY <2>1, JoinsAt, Zenon
    <2> QED  BY <2>2 DEF Joined
  <1>7. PICK D : D = C \o e
    OBVIOUS
  <1>8. /\ D \in Seq(S) /\ Len(D) = 16 + 4
        /\ \A i \in 1 .. 16 : D[i] = C[i]
        /\ \A i \in 1 .. 4 : D[16 + i] = e[i]
    <2>1. Joins(S, C, e, D, 16, 4)
      BY <1>0, <1>6, <1>7 DEF Joins
    <2>2. Joined(S, C, e, D, 16, 4)
      BY <2>1, JoinsAt, Zenon
    <2> QED  BY <2>2 DEF Joined
  <1>9. /\ \A i \in 1 .. 10 : D[i] = B[i]
        /\ \A i \in 1 .. 6 : D[10 + i] = d[i]
    <2>1. \A i \in 1 .. 16 : D[i] = C[i]
      BY <1>8
    <2>2. \A i \in 1 .. 6 : C[10 + i] = d[i]
      BY <1>6
    <2>3. \A i \in 1 .. 10 : C[i] = B[i]
      BY <1>6
    <2> QED  BY <2>1, <2>2, <2>3
  <1>10. /\ \A i \in 1 .. 6 : D[i] = A[i]
         /\ \A i \in 1 .. 4 : D[6 + i] = c[i]
    <2>1. \A i \in 1 .. 10 : D[i] = B[i]
      BY <1>9
    <2> QED  BY <2>1, <1>4
  <1>11. /\ \A i \in 1 .. 4 : D[i] = a[i]
         /\ \A i \in 1 .. 2 : D[4 + i] = b[i]
    <2>1. \A i \in 1 .. 6 : D[i] = A[i]
      BY <1>10
    <2> QED  BY <2>1, <1>2
  <1>12. D = s
    BY <1>1, <1>3, <1>5, <1>7 DEF JoinOfFive
  <1>13. Len(D) = 20
    BY <1>8
  <1> QED  BY <1>8, <1>9, <1>10, <1>11, <1>12, <1>13, Zenon

\* The tests in their order, one by one.
LEMMA RouteList ==
  /\ Len(Routes) = 20 /\ DOMAIN Routes = 1 .. 20
  /\ \A i \in 1 .. 4 : Routes[i] = DeviceQueries[i]
  /\ \A i \in 1 .. 2 : Routes[4 + i] = MediaQueries[i]
  /\ Routes[7] = Move /\ Routes[8] = Stop /\ Routes[9] = SetPreset /\ Routes[10] = GotoPreset
  /\ \A i \in 1 .. 6 : Routes[10 + i] = PtzQueries[i]
  /\ \A i \in 1 .. 4 : Routes[16 + i] = ServiceQueries[i]
  <1> DEFINE f == <<Move, Stop, SetPreset, GotoPreset>>
  <1>0. PICK S : /\ DeviceQueries \in Seq(S) /\ MediaQueries \in Seq(S) /\ f \in Seq(S)
                 /\ PtzQueries \in Seq(S) /\ ServiceQueries \in Seq(S)
    <2> DEFINE S == UNION {{DeviceQueries[i] : i \in 1 .. 4}, {MediaQueries[i] : i \in 1 .. 2},
                           {Move, Stop, SetPreset, GotoPreset},
                           {PtzQueries[i] : i \in 1 .. 6}, {ServiceQueries[i] : i \in 1 .. 4}}
    <2>1. DeviceQueries \in Seq(S)
      BY DEF DeviceQueries
    <2>2. MediaQueries \in Seq(S)
      BY DEF MediaQueries
    <2>3. f \in Seq(S)
      OBVIOUS
    <2>4. PtzQueries \in Seq(S)
      BY DEF PtzQueries
    <2>5. ServiceQueries \in Seq(S)
      BY DEF ServiceQueries
    <2> HIDE DEF S, f
    <2> QED  BY <2>1, <2>2, <2>3, <2>4, <2>5
  <1>1. /\ Len(DeviceQueries) = 4 /\ Len(MediaQueries) = 2 /\ Len(f) = 4
        /\ Len(PtzQueries) = 6 /\ Len(ServiceQueries) = 4
    BY DEF DeviceQueries, MediaQueries, PtzQueries, ServiceQueries
  <1>2. f[1] = Move /\ f[2] = Stop /\ f[3] = SetPreset /\ f[4] = GotoPreset
    OBVIOUS
  <1> HIDE DEF f
  <1>3. JoinOfFive(S, Routes, DeviceQueries, MediaQueries, f, PtzQueries, ServiceQueries)
    BY <1>0, <1>1 DEF Routes, f, JoinOfFive
  <1>4. /\ Routes \in Seq(S) /\ Len(Routes) = 20
        /\ \A i \in 1 .. 4 : Routes[i] = DeviceQueries[i]
        /\ \A i \in 1 .. 2 : Routes[4 + i] = MediaQueries[i]
        /\ \A i \in 1 .. 4 : Routes[6 + i] = f[i]
        /\ \A i \in 1 .. 6 : Routes[10 + i] = PtzQueries[i]
        /\ \A i \in 1 .. 4 : Routes[16 + i] = ServiceQueries[i]
    BY <1>3, JoiningFive
  <1>5. DOMAIN Routes = 1 .. 20
    BY <1>4
  <1>6. /\ Routes[7] = Move /\ Routes[8] = Stop /\ Routes[9] = SetPreset
        /\ Routes[10] = GotoPreset
    <2>1. \A i \in 1 .. 4 : Routes[6 + i] = f[i]
      BY <1>4
    <2> QED  BY <1>2, <2>1
  <1> QED  BY <1>4, <1>5, <1>6, Zenon

LEMMA RouteNames ==
  /\ Routes[1] = [svc |-> "device", words |-> <<"Get", "Device", "Information">>]
  /\ Routes[2] = [svc |-> "device", words |-> <<"Get", "Capabilities">>]
  /\ Routes[3] = [svc |-> "device", words |-> <<"Get", "Scopes">>]
  /\ Routes[4] = [svc |-> "device", words |-> <<"Get", "System", "Date", "And", "Time">>]
  /\ Routes[5] = [svc |-> "media", words |-> <<"Get", "Profile", "s">>]
  /\ Routes[6] = [svc |-> "media", words |-> <<"Get", "Stream", "Uri">>]
  /\ Routes[7] = [svc |-> "ptz", words |-> <<"Continuous", "Move">>]
  /\ Routes[8] = [svc |-> "ptz", words |-> <<"Stop">>]
  /\ Routes[9] = [svc |-> "ptz", words |-> <<"Set", "Preset">>]
  /\ Routes[10] = [svc |-> "ptz", words |-> <<"Goto", "Preset">>]
  /\ Routes[11] = [svc |-> "ptz", words |-> <<"Get", "Preset", "s">>]
  /\ Routes[12] = [svc |-> "ptz", words |-> <<"Get", "Status">>]
  /\ Routes[13] = [svc |-> "ptz", words |-> <<"Get", "Node", "s">>]
  /\ Routes[14] = [svc |-> "ptz", words |-> <<"Get", "Node">>]
  /\ Routes[15] = [svc |-> "ptz", words |-> <<"Get", "Configuration", "s">>]
  /\ Routes[16] = [svc |-> "ptz", words |-> <<"Get", "Service", "Capabilities">>]
  /\ Routes[17] = [svc |-> "media", words |-> <<"Get", "Service", "Capabilities">>]
  /\ Routes[18] = [svc |-> "device", words |-> <<"Get", "Service", "Capabilities">>]
  /\ Routes[19] = [svc |-> "device", words |-> <<"Get", "Service", "s">>]
  /\ Routes[20] = [svc |-> "device", words |-> <<"Get", "Network", "Interface", "s">>]
  <1>1. /\ Routes[1] = DeviceQueries[1] /\ Routes[2] = DeviceQueries[2]
        /\ Routes[3] = DeviceQueries[3] /\ Routes[4] = DeviceQueries[4]
    BY RouteList
  <1>2. Routes[5] = MediaQueries[1] /\ Routes[6] = MediaQueries[2]
    BY RouteList
  <1>3. /\ Routes[7] = Move /\ Routes[8] = Stop
        /\ Routes[9] = SetPreset /\ Routes[10] = GotoPreset
    BY RouteList
  <1>4. /\ Routes[11] = PtzQueries[1] /\ Routes[12] = PtzQueries[2]
        /\ Routes[13] = PtzQueries[3] /\ Routes[14] = PtzQueries[4]
        /\ Routes[15] = PtzQueries[5] /\ Routes[16] = PtzQueries[6]
    BY RouteList
  <1>5. /\ Routes[17] = ServiceQueries[1] /\ Routes[18] = ServiceQueries[2]
        /\ Routes[19] = ServiceQueries[3] /\ Routes[20] = ServiceQueries[4]
    BY RouteList
  <1>6. /\ Routes[1].svc = "device"
    BY <1>1 DEF DeviceQueries, Method
  <1> QED
    BY <1>1, <1>2, <1>3, <1>4, <1>5
       DEF DeviceQueries, MediaQueries, PtzQueries, ServiceQueries, Method, Move, Stop,
           SetPreset, GotoPreset

\* What a test compares: the words of the method with those of the action.
LEMMA PrefixWords ==
  ASSUME NEW S, NEW T, NEW s \in Seq(S), NEW t \in Seq(T), IsPrefix(s, t)
  PROVE  Len(s) <= Len(t) /\ \A i \in 1 .. Len(s) : s[i] = t[i]
  <1>1. Len(s) <= Len(t) /\ SubSeq(s, 1, Len(s)) = SubSeq(t, 1, Len(s))
    BY DEF IsPrefix
  <1>2. ASSUME NEW i \in 1 .. Len(s) PROVE s[i] = t[i]
    <2>1. SubSeq(s, 1, Len(s))[i] = s[i] /\ SubSeq(t, 1, Len(s))[i] = t[i]
      BY <1>1
    <2> QED  BY <1>1, <2>1
  <1> QED  BY <1>1, <1>2

LEMMA PrefixItself ==
  ASSUME NEW S, NEW s \in Seq(S) PROVE IsPrefix(s, s)
  BY DEF IsPrefix

\* The same, column by column.
LEMMA RouteService ==
  /\ Routes[1].svc = "device" /\ Routes[2].svc = "device" /\ Routes[3].svc = "device"
  /\ Routes[4].svc = "device" /\ Routes[5].svc = "media" /\ Routes[6].svc = "media"
  /\ Routes[7].svc = "ptz" /\ Routes[8].svc = "ptz" /\ Routes[9].svc = "ptz"
  /\ Routes[10].svc = "ptz" /\ Routes[11].svc = "ptz" /\ Routes[12].svc = "ptz"
  /\ Routes[13].svc = "ptz" /\ Routes[14].svc = "ptz" /\ Routes[15].svc = "ptz"
  /\ Routes[16].svc = "ptz" /\ Routes[17].svc = "media" /\ Routes[18].svc = "device"
  /\ Routes[19].svc = "device" /\ Routes[20].svc = "device"
  <1>1. Routes[1].svc = "device"
    BY RouteNames
  <1>2. Routes[2].svc = "device"
    BY RouteNames
  <1>3. Routes[3].svc = "device"
    BY RouteNames
  <1>4. Routes[4].svc = "device"
    BY RouteNames
  <1>5. Routes[5].svc = "media"
    BY RouteNames
  <1>6. Routes[6].svc = "media"
    BY RouteNames
  <1>7. Routes[7].svc = "ptz"
    BY RouteNames
  <1>8. Routes[8].svc = "ptz"
    BY RouteNames
  <1>9. Routes[9].svc = "ptz"
    BY RouteNames
  <1>10. Routes[10].svc = "ptz"
    BY RouteNames
  <1>11. Routes[11].svc = "ptz"
    BY RouteNames
  <1>12. Routes[12].svc = "ptz"
    BY RouteNames
  <1>13. Routes[13].svc = "ptz"
    BY RouteNames
  <1>14. Routes[14].svc = "ptz"
    BY RouteNames
  <1>15. Routes[15].svc = "ptz"
    BY RouteNames
  <1>16. Routes[16].svc = "ptz"
    BY RouteNames
  <1>17. Routes[17].svc = "media"
    BY RouteNames
  <1>18. Routes[18].svc = "device"
    BY RouteNames
  <1>19. Routes[19].svc = "device"
    BY RouteNames
  <1>20. Routes[20].svc = "device"
    BY RouteNames
  <1> QED
    BY <1>1, <1>2, <1>3, <1>4, <1>5, <1>6, <1>7, <1>8, <1>9, <1>10, <1>11, <1>12, <1>13, <1>14, <1>15, <1>16, <1>17, <1>18, <1>19, <1>20, Zenon

WordCount(i) == Len(Routes[i].words)

\* How many words there are.
LEMMA RouteLength ==
  /\ WordCount(1) = 3 /\ WordCount(2) = 2 /\ WordCount(3) = 2
  /\ WordCount(4) = 5 /\ WordCount(5) = 3 /\ WordCount(6) = 3
  /\ WordCount(7) = 2 /\ WordCount(8) = 1 /\ WordCount(9) = 2
  /\ WordCount(10) = 2 /\ WordCount(11) = 3 /\ WordCount(12) = 2
  /\ WordCount(13) = 3 /\ WordCount(14) = 2 /\ WordCount(15) = 3
  /\ WordCount(16) = 3 /\ WordCount(17) = 3 /\ WordCount(18) = 3
  /\ WordCount(19) = 3 /\ WordCount(20) = 4
  <1>1. WordCount(1) = 3
    <2>1. Routes[1].words = <<"Get", "Device", "Information">>
      BY RouteNames
    <2> QED  BY <2>1 DEF WordCount
  <1>2. WordCount(2) = 2
    <2>1. Routes[2].words = <<"Get", "Capabilities">>
      BY RouteNames
    <2> QED  BY <2>1 DEF WordCount
  <1>3. WordCount(3) = 2
    <2>1. Routes[3].words = <<"Get", "Scopes">>
      BY RouteNames
    <2> QED  BY <2>1 DEF WordCount
  <1>4. WordCount(4) = 5
    <2>1. Routes[4].words = <<"Get", "System", "Date", "And", "Time">>
      BY RouteNames
    <2> QED  BY <2>1 DEF WordCount
  <1>5. WordCount(5) = 3
    <2>1. Routes[5].words = <<"Get", "Profile", "s">>
      BY RouteNames
    <2> QED  BY <2>1 DEF WordCount
  <1>6. WordCount(6) = 3
    <2>1. Routes[6].words = <<"Get", "Stream", "Uri">>
      BY RouteNames
    <2> QED  BY <2>1 DEF WordCount
  <1>7. WordCount(7) = 2
    <2>1. Routes[7].words = <<"Continuous", "Move">>
      BY RouteNames
    <2> QED  BY <2>1 DEF WordCount
  <1>8. WordCount(8) = 1
    <2>1. Routes[8].words = <<"Stop">>
      BY RouteNames
    <2> QED  BY <2>1 DEF WordCount
  <1>9. WordCount(9) = 2
    <2>1. Routes[9].words = <<"Set", "Preset">>
      BY RouteNames
    <2> QED  BY <2>1 DEF WordCount
  <1>10. WordCount(10) = 2
    <2>1. Routes[10].words = <<"Goto", "Preset">>
      BY RouteNames
    <2> QED  BY <2>1 DEF WordCount
  <1>11. WordCount(11) = 3
    <2>1. Routes[11].words = <<"Get", "Preset", "s">>
      BY RouteNames
    <2> QED  BY <2>1 DEF WordCount
  <1>12. WordCount(12) = 2
    <2>1. Routes[12].words = <<"Get", "Status">>
      BY RouteNames
    <2> QED  BY <2>1 DEF WordCount
  <1>13. WordCount(13) = 3
    <2>1. Routes[13].words = <<"Get", "Node", "s">>
      BY RouteNames
    <2> QED  BY <2>1 DEF WordCount
  <1>14. WordCount(14) = 2
    <2>1. Routes[14].words = <<"Get", "Node">>
      BY RouteNames
    <2> QED  BY <2>1 DEF WordCount
  <1>15. WordCount(15) = 3
    <2>1. Routes[15].words = <<"Get", "Configuration", "s">>
      BY RouteNames
    <2> QED  BY <2>1 DEF WordCount
  <1>16. WordCount(16) = 3
    <2>1. Routes[16].words = <<"Get", "Service", "Capabilities">>
      BY RouteNames
    <2> QED  BY <2>1 DEF WordCount
  <1>17. WordCount(17) = 3
    <2>1. Routes[17].words = <<"Get", "Service", "Capabilities">>
      BY RouteNames
    <2> QED  BY <2>1 DEF WordCount
  <1>18. WordCount(18) = 3
    <2>1. Routes[18].words = <<"Get", "Service", "Capabilities">>
      BY RouteNames
    <2> QED  BY <2>1 DEF WordCount
  <1>19. WordCount(19) = 3
    <2>1. Routes[19].words = <<"Get", "Service", "s">>
      BY RouteNames
    <2> QED  BY <2>1 DEF WordCount
  <1>20. WordCount(20) = 4
    <2>1. Routes[20].words = <<"Get", "Network", "Interface", "s">>
      BY RouteNames
    <2> QED  BY <2>1 DEF WordCount
  <1> QED
    BY <1>1, <1>2, <1>3, <1>4, <1>5, <1>6, <1>7, <1>8, <1>9, <1>10, <1>11, <1>12, <1>13, <1>14, <1>15, <1>16, <1>17, <1>18, <1>19, <1>20, Zenon

\* The first word of the methods of the PTZ service.
LEMMA RouteFirst ==
  /\ Routes[7].words[1] = "Continuous" /\ Routes[8].words[1] = "Stop"
  /\ Routes[9].words[1] = "Set" /\ Routes[10].words[1] = "Goto"
  /\ Routes[11].words[1] = "Get" /\ Routes[12].words[1] = "Get"
  /\ Routes[13].words[1] = "Get" /\ Routes[14].words[1] = "Get"
  /\ Routes[15].words[1] = "Get" /\ Routes[16].words[1] = "Get"
  <1>1. Routes[7].words[1] = "Continuous"
    <2>1. Routes[7].words = <<"Continuous", "Move">>
      BY RouteNames
    <2> QED  BY <2>1
  <1>2. Routes[8].words[1] = "Stop"
    <2>1. Routes[8].words = <<"Stop">>
      BY RouteNames
    <2> QED  BY <2>1
  <1>3. Routes[9].words[1] = "Set"
    <2>1. Routes[9].words = <<"Set", "Preset">>
      BY RouteNames
    <2> QED  BY <2>1
  <1>4. Routes[10].words[1] = "Goto"
    <2>1. Routes[10].words = <<"Goto", "Preset">>
      BY RouteNames
    <2> QED  BY <2>1
  <1>5. Routes[11].words[1] = "Get"
    <2>1. Routes[11].words = <<"Get", "Preset", "s">>
      BY RouteNames
    <2> QED  BY <2>1
  <1>6. Routes[12].words[1] = "Get"
    <2>1. Routes[12].words = <<"Get", "Status">>
      BY RouteNames
    <2> QED  BY <2>1
  <1>7. Routes[13].words[1] = "Get"
    <2>1. Routes[13].words = <<"Get", "Node", "s">>
      BY RouteNames
    <2> QED  BY <2>1
  <1>8. Routes[14].words[1] = "Get"
    <2>1. Routes[14].words = <<"Get", "Node">>
      BY RouteNames
    <2> QED  BY <2>1
  <1>9. Routes[15].words[1] = "Get"
    <2>1. Routes[15].words = <<"Get", "Configuration", "s">>
      BY RouteNames
    <2> QED  BY <2>1
  <1>10. Routes[16].words[1] = "Get"
    <2>1. Routes[16].words = <<"Get", "Service", "Capabilities">>
      BY RouteNames
    <2> QED  BY <2>1
  <1> QED
    BY <1>1, <1>2, <1>3, <1>4, <1>5, <1>6, <1>7, <1>8, <1>9, <1>10, Zenon

\* The second one.
LEMMA RouteSecond ==
  /\ Routes[1].words[2] = "Device" /\ Routes[2].words[2] = "Capabilities"
  /\ Routes[3].words[2] = "Scopes" /\ Routes[4].words[2] = "System"
  /\ Routes[5].words[2] = "Profile" /\ Routes[6].words[2] = "Stream"
  /\ Routes[7].words[2] = "Move" /\ Routes[9].words[2] = "Preset"
  /\ Routes[10].words[2] = "Preset" /\ Routes[11].words[2] = "Preset"
  /\ Routes[12].words[2] = "Status" /\ Routes[13].words[2] = "Node"
  /\ Routes[14].words[2] = "Node" /\ Routes[15].words[2] = "Configuration"
  /\ Routes[16].words[2] = "Service" /\ Routes[17].words[2] = "Service"
  /\ Routes[18].words[2] = "Service" /\ Routes[19].words[2] = "Service"
  /\ Routes[20].words[2] = "Network"
  <1>1. Routes[1].words[2] = "Device"
    <2>1. Routes[1].words = <<"Get", "Device", "Information">>
      BY RouteNames
    <2> QED  BY <2>1
  <1>2. Routes[2].words[2] = "Capabilities"
    <2>1. Routes[2].words = <<"Get", "Capabilities">>
      BY RouteNames
    <2> QED  BY <2>1
  <1>3. Routes[3].words[2] = "Scopes"
    <2>1. Routes[3].words = <<"Get", "Scopes">>
      BY RouteNames
    <2> QED  BY <2>1
  <1>4. Routes[4].words[2] = "System"
    <2>1. Routes[4].words = <<"Get", "System", "Date", "And", "Time">>
      BY RouteNames
    <2> QED  BY <2>1
  <1>5. Routes[5].words[2] = "Profile"
    <2>1. Routes[5].words = <<"Get", "Profile", "s">>
      BY RouteNames
    <2> QED  BY <2>1
  <1>6. Routes[6].words[2] = "Stream"
    <2>1. Routes[6].words = <<"Get", "Stream", "Uri">>
      BY RouteNames
    <2> QED  BY <2>1
  <1>7. Routes[7].words[2] = "Move"
    <2>1. Routes[7].words = <<"Continuous", "Move">>
      BY RouteNames
    <2> QED  BY <2>1
  <1>8. Routes[9].words[2] = "Preset"
    <2>1. Routes[9].words = <<"Set", "Preset">>
      BY RouteNames
    <2> QED  BY <2>1
  <1>9. Routes[10].words[2] = "Preset"
    <2>1. Routes[10].words = <<"Goto", "Preset">>
      BY RouteNames
    <2> QED  BY <2>1
  <1>10. Routes[11].words[2] = "Preset"
    <2>1. Routes[11].words = <<"Get", "Preset", "s">>
      BY RouteNames
    <2> QED  BY <2>1
  <1>11. Routes[12].words[2] = "Status"
    <2>1. Routes[12].words = <<"Get", "Status">>
      BY RouteNames
    <2> QED  BY <2>1
  <1>12. Routes[13].words[2] = "Node"
    <2>1. Routes[13].words = <<"Get", "Node", "s">>
      BY RouteNames
    <2> QED  BY <2>1
  <1>13. Routes[14].words[2] = "Node"
    <2>1. Routes[14].words = <<"Get", "Node">>
      BY RouteNames
    <2> QED  BY <2>1
  <1>14. Routes[15].words[2] = "Configuration"
    <2>1. Routes[15].words = <<"Get", "Configuration", "s">>
      BY RouteNames
    <2> QED  BY <2>1
  <1>15. Routes[16].words[2] = "Service"
    <2>1. Routes[16].words = <<"Get", "Service", "Capabilities">>
      BY RouteNames
    <2> QED  BY <2>1
  <1>16. Routes[17].words[2] = "Service"
    <2>1. Routes[17].words = <<"Get", "Service", "Capabilities">>
      BY RouteNames
    <2> QED  BY <2>1
  <1>17. Routes[18].words[2] = "Service"
    <2>1. Routes[18].words = <<"Get", "Service", "Capabilities">>
      BY RouteNames
    <2> QED  BY <2>1
  <1>18. Routes[19].words[2] = "Service"
    <2>1. Routes[19].words = <<"Get", "Service", "s">>
      BY RouteNames
    <2> QED  BY <2>1
  <1>19. Routes[20].words[2] = "Network"
    <2>1. Routes[20].words = <<"Get", "Network", "Interface", "s">>
      BY RouteNames
    <2> QED  BY <2>1
  <1> QED
    BY <1>1, <1>2, <1>3, <1>4, <1>5, <1>6, <1>7, <1>8, <1>9, <1>10, <1>11, <1>12, <1>13, <1>14, <1>15, <1>16, <1>17, <1>18, <1>19, Zenon

\* The third one, of the methods that differ in it.
LEMMA RouteThird ==
  /\ Routes[18].words[3] = "Capabilities" /\ Routes[19].words[3] = "s"
  <1>1. Routes[18].words[3] = "Capabilities"
    <2>1. Routes[18].words = <<"Get", "Service", "Capabilities">>
      BY RouteNames
    <2> QED  BY <2>1
  <1>2. Routes[19].words[3] = "s"
    <2>1. Routes[19].words = <<"Get", "Service", "s">>
      BY RouteNames
    <2> QED  BY <2>1
  <1> QED
    BY <1>1, <1>2, Zenon

LEMMA OneOfTwenty ==
  ASSUME NEW i \in 1 .. 20
  PROVE  \/ i = 1 \/ i = 2 \/ i = 3 \/ i = 4 \/ i = 5 \/ i = 6 \/ i = 7 \/ i = 8 \/ i = 9
         \/ i = 10 \/ i = 11 \/ i = 12 \/ i = 13 \/ i = 14 \/ i = 15 \/ i = 16
         \/ i = 17 \/ i = 18 \/ i = 19 \/ i = 20
  OBVIOUS

LEMMA RouteWords == \A i \in 1 .. 20 : \E S : Routes[i].words \in Seq(S)
  <1>1. \E S : Routes[1].words \in Seq(S)
    <2>1. Routes[1].words = <<"Get", "Device", "Information">>
      BY RouteNames
    <2>2. <<"Get", "Device", "Information">> \in Seq({"Get", "Device", "Information"})
      OBVIOUS
    <2> QED  BY <2>1, <2>2, Zenon
  <1>2. \E S : Routes[2].words \in Seq(S)
    <2>1. Routes[2].words = <<"Get", "Capabilities">>
      BY RouteNames
    <2>2. <<"Get", "Capabilities">> \in Seq({"Get", "Capabilities"})
      OBVIOUS
    <2> QED  BY <2>1, <2>2, Zenon
  <1>3. \E S : Routes[3].words \in Seq(S)
    <2>1. Routes[3].words = <<"Get", "Scopes">>
      BY RouteNames
    <2>2. <<"Get", "Scopes">> \in Seq({"Get", "Scopes"})
      OBVIOUS
    <2> QED  BY <2>1, <2>2, Zenon
  <1>4. \E S : Routes[4].words \in Seq(S)
    <2>1. Routes[4].words = <<"Get", "System", "Date", "And", "Time">>
      BY RouteNames
    <2>2. <<"Get", "System", "Date", "And", "Time">> \in Seq({"Get", "System", "Date", "And", "Time"})
      OBVIOUS
    <2> QED  BY <2>1, <2>2, Zenon
  <1>5. \E S : Routes[5].words \in Seq(S)
    <2>1. Routes[5].words = <<"Get", "Profile", "s">>
      BY RouteNames
    <2>2. <<"Get", "Profile", "s">> \in Seq({"Get", "Profile", "s"})
      OBVIOUS
    <2> QED  BY <2>1, <2>2, Zenon
  <1>6. \E S : Routes[6].words \in Seq(S)
    <2>1. Routes[6].words = <<"Get", "Stream", "Uri">>
      BY RouteNames
    <2>2. <<"Get", "Stream", "Uri">> \in Seq({"Get", "Stream", "Uri"})
      OBVIOUS
    <2> QED  BY <2>1, <2>2, Zenon
  <1>7. \E S : Routes[7].words \in Seq(S)
    <2>1. Routes[7].words = <<"Continuous", "Move">>
      BY RouteNames
    <2>2. <<"Continuous", "Move">> \in Seq({"Continuous", "Move"})
      OBVIOUS
    <2> QED  BY <2>1, <2>2, Zenon
  <1>8. \E S : Routes[8].words \in Seq(S)
    <2>1. Routes[8].words = <<"Stop">>
      BY RouteNames
    <2>2. <<"Stop">> \in Seq({"Stop"})
      OBVIOUS
    <2> QED  BY <2>1, <2>2, Zenon
  <1>9. \E S : Routes[9].words \in Seq(S)
    <2>1. Routes[9].words = <<"Set", "Preset">>
      BY RouteNames
    <2>2. <<"Set", "Preset">> \in Seq({"Set", "Preset"})
      OBVIOUS
    <2> QED  BY <2>1, <2>2, Zenon
  <1>10. \E S : Routes[10].words \in Seq(S)
    <2>1. Routes[10].words = <<"Goto", "Preset">>
      BY RouteNames
    <2>2. <<"Goto", "Preset">> \in Seq({"Goto", "Preset"})
      OBVIOUS
    <2> QED  BY <2>1, <2>2, Zenon
  <1>11. \E S : Routes[11].words \in Seq(S)
    <2>1. Routes[11].words = <<"Get", "Preset", "s">>
      BY RouteNames
    <2>2. <<"Get", "Preset", "s">> \in Seq({"Get", "Preset", "s"})
      OBVIOUS
    <2> QED  BY <2>1, <2>2, Zenon
  <1>12. \E S : Routes[12].words \in Seq(S)
    <2>1. Routes[12].words = <<"Get", "Status">>
      BY RouteNames
    <2>2. <<"Get", "Status">> \in Seq({"Get", "Status"})
      OBVIOUS
    <2> QED  BY <2>1, <2>2, Zenon
  <1>13. \E S : Routes[13].words \in Seq(S)
    <2>1. Routes[13].words = <<"Get", "Node", "s">>
      BY RouteNames
    <2>2. <<"Get", "Node", "s">> \in Seq({"Get", "Node", "s"})
      OBVIOUS
    <2> QED  BY <2>1, <2>2, Zenon
  <1>14. \E S : Routes[14].words \in Seq(S)
    <2>1. Routes[14].words = <<"Get", "Node">>
      BY RouteNames
    <2>2. <<"Get", "Node">> \in Seq({"Get", "Node"})
      OBVIOUS
    <2> QED  BY <2>1, <2>2, Zenon
  <1>15. \E S : Routes[15].words \in Seq(S)
    <2>1. Routes[15].words = <<"Get", "Configuration", "s">>
      BY RouteNames
    <2>2. <<"Get", "Configuration", "s">> \in Seq({"Get", "Configuration", "s"})
      OBVIOUS
    <2> QED  BY <2>1, <2>2, Zenon
  <1>16. \E S : Routes[16].words \in Seq(S)
    <2>1. Routes[16].words = <<"Get", "Service", "Capabilities">>
      BY RouteNames
    <2>2. <<"Get", "Service", "Capabilities">> \in Seq({"Get", "Service", "Capabilities"})
      OBVIOUS
    <2> QED  BY <2>1, <2>2, Zenon
  <1>17. \E S : Routes[17].words \in Seq(S)
    <2>1. Routes[17].words = <<"Get", "Service", "Capabilities">>
      BY RouteNames
    <2>2. <<"Get", "Service", "Capabilities">> \in Seq({"Get", "Service", "Capabilities"})
      OBVIOUS
    <2> QED  BY <2>1, <2>2, Zenon
  <1>18. \E S : Routes[18].words \in Seq(S)
    <2>1. Routes[18].words = <<"Get", "Service", "Capabilities">>
      BY RouteNames
    <2>2. <<"Get", "Service", "Capabilities">> \in Seq({"Get", "Service", "Capabilities"})
      OBVIOUS
    <2> QED  BY <2>1, <2>2, Zenon
  <1>19. \E S : Routes[19].words \in Seq(S)
    <2>1. Routes[19].words = <<"Get", "Service", "s">>
      BY RouteNames
    <2>2. <<"Get", "Service", "s">> \in Seq({"Get", "Service", "s"})
      OBVIOUS
    <2> QED  BY <2>1, <2>2, Zenon
  <1>20. \E S : Routes[20].words \in Seq(S)
    <2>1. Routes[20].words = <<"Get", "Network", "Interface", "s">>
      BY RouteNames
    <2>2. <<"Get", "Network", "Interface", "s">> \in Seq({"Get", "Network", "Interface", "s"})
      OBVIOUS
    <2> QED  BY <2>1, <2>2, Zenon
  <1> QED
    BY OneOfTwenty, <1>1, <1>2, <1>3, <1>4, <1>5, <1>6, <1>7, <1>8, <1>9, <1>10, <1>11, <1>12, <1>13, <1>14, <1>15, <1>16, <1>17, <1>18, <1>19, <1>20, Zenon

LEMMA RouteFinds ==
  ASSUME NEW i \in 1 .. 20, NEW j \in 1 .. 20, Finds(Routes[i], Routes[j])
  PROVE  /\ Routes[i].svc = Routes[j].svc
         /\ Len(Routes[i].words) <= Len(Routes[j].words)
         /\ \A k \in 1 .. Len(Routes[i].words) : Routes[i].words[k] = Routes[j].words[k]
  <1>1. /\ Routes[i].svc = Routes[j].svc
        /\ IsPrefix(Routes[i].words, Routes[j].words)
    BY DEF Finds
  <1>2. PICK a : a = Routes[i].words
    OBVIOUS
  <1>3. PICK b : b = Routes[j].words
    OBVIOUS
  <1>4. PICK S : a \in Seq(S)
    BY <1>2, RouteWords
  <1>5. PICK T : b \in Seq(T)
    BY <1>3, RouteWords
  <1>6. IsPrefix(a, b)
    BY <1>1, <1>2, <1>3
  <1>7. Len(a) <= Len(b) /\ \A k \in 1 .. Len(a) : a[k] = b[k]
    BY <1>4, <1>5, <1>6, PrefixWords
  <1> QED  BY <1>1, <1>2, <1>3, <1>7

\* No test finds what a later one is for.
LEMMA LaterRoutes ==
  ASSUME NEW i \in 1 .. 20, NEW j \in 1 .. 20, i < j PROVE ~Finds(Routes[i], Routes[j])
  <1> SUFFICES ASSUME Finds(Routes[i], Routes[j]) PROVE FALSE
    OBVIOUS
  <1>1. Routes[i].svc = Routes[j].svc
    BY RouteFinds
  <1>2. WordCount(i) <= WordCount(j)
    BY RouteFinds DEF WordCount
  <1>3. \A k \in 1 .. Len(Routes[i].words) : Routes[i].words[k] = Routes[j].words[k]
    BY RouteFinds
  <1>4. \/ j = 1 \/ j = 2 \/ j = 3 \/ j = 4 \/ j = 5 \/ j = 6 \/ j = 7 \/ j = 8 \/ j = 9
        \/ j = 10 \/ j = 11 \/ j = 12 \/ j = 13 \/ j = 14 \/ j = 15 \/ j = 16
        \/ j = 17 \/ j = 18 \/ j = 19 \/ j = 20
    BY OneOfTwenty
  <1>5. CASE i = 1
    <2>1. \/ j = 2 \/ j = 3 \/ j = 4 \/ j = 18 \/ j = 19 \/ j = 20
      BY <1>1, <1>4, <1>5, RouteService
    <2>2. Routes[1].words[2] = Routes[j].words[2]
      BY <1>3, <1>5, RouteLength DEF WordCount
    <2>3. j # 2 /\ j # 3
      <3>1. WordCount(1) = 3 /\ WordCount(2) = 2 /\ WordCount(3) = 2
        BY RouteLength, Zenon
      <3> QED  BY <3>1, <1>2, <1>5
    <2> QED  BY <1>5, <2>1, <2>2, <2>3, RouteSecond
  <1>6. CASE i = 2
    <2>1. \/ j = 3 \/ j = 4 \/ j = 18 \/ j = 19 \/ j = 20
      BY <1>1, <1>4, <1>6, RouteService
    <2>2. Routes[2].words[2] = Routes[j].words[2]
      BY <1>3, <1>6, RouteLength DEF WordCount
    <2> QED  BY <1>6, <2>1, <2>2, RouteSecond
  <1>7. CASE i = 3
    <2>1. \/ j = 4 \/ j = 18 \/ j = 19 \/ j = 20
      BY <1>1, <1>4, <1>7, RouteService
    <2>2. Routes[3].words[2] = Routes[j].words[2]
      BY <1>3, <1>7, RouteLength DEF WordCount
    <2> QED  BY <1>7, <2>1, <2>2, RouteSecond
  <1>8. CASE i = 4
    <2>1. \/ j = 18 \/ j = 19 \/ j = 20
      BY <1>1, <1>4, <1>8, RouteService
    <2>3. j # 18 /\ j # 19 /\ j # 20
      <3>1. WordCount(4) = 5 /\ WordCount(18) = 3 /\ WordCount(19) = 3 /\ WordCount(20) = 4
        BY RouteLength, Zenon
      <3> QED  BY <3>1, <1>2, <1>8
    <2> QED  BY <1>8, <2>1, <2>3
  <1>9. CASE i = 5
    <2>1. \/ j = 6 \/ j = 17
      BY <1>1, <1>4, <1>9, RouteService
    <2>2. Routes[5].words[2] = Routes[j].words[2]
      BY <1>3, <1>9, RouteLength DEF WordCount
    <2> QED  BY <1>9, <2>1, <2>2, RouteSecond
  <1>10. CASE i = 6
    <2>1. \/ j = 17
      BY <1>1, <1>4, <1>10, RouteService
    <2>2. Routes[6].words[2] = Routes[j].words[2]
      BY <1>3, <1>10, RouteLength DEF WordCount
    <2> QED  BY <1>10, <2>1, <2>2, RouteSecond
  <1>11. CASE i = 7
    <2>1. \/ j = 8 \/ j = 9 \/ j = 10 \/ j = 11 \/ j = 12 \/ j = 13 \/ j = 14
          \/ j = 15 \/ j = 16
      BY <1>1, <1>4, <1>11, RouteService
    <2>2. Routes[7].words[1] = Routes[j].words[1]
      BY <1>3, <1>11, RouteLength DEF WordCount
    <2> QED  BY <1>11, <2>1, <2>2, RouteFirst
  <1>12. CASE i = 8
    <2>1. \/ j = 9 \/ j = 10 \/ j = 11 \/ j = 12 \/ j = 13 \/ j = 14 \/ j = 15
          \/ j = 16
      BY <1>1, <1>4, <1>12, RouteService
    <2>2. Routes[8].words[1] = Routes[j].words[1]
      BY <1>3, <1>12, RouteLength DEF WordCount
    <2> QED  BY <1>12, <2>1, <2>2, RouteFirst
  <1>13. CASE i = 9
    <2>1. \/ j = 10 \/ j = 11 \/ j = 12 \/ j = 13 \/ j = 14 \/ j = 15 \/ j = 16
      BY <1>1, <1>4, <1>13, RouteService
    <2>2. Routes[9].words[1] = Routes[j].words[1]
      BY <1>3, <1>13, RouteLength DEF WordCount
    <2> QED  BY <1>13, <2>1, <2>2, RouteFirst
  <1>14. CASE i = 10
    <2>1. \/ j = 11 \/ j = 12 \/ j = 13 \/ j = 14 \/ j = 15 \/ j = 16
      BY <1>1, <1>4, <1>14, RouteService
    <2>2. Routes[10].words[1] = Routes[j].words[1]
      BY <1>3, <1>14, RouteLength DEF WordCount
    <2> QED  BY <1>14, <2>1, <2>2, RouteFirst
  <1>15. CASE i = 11
    <2>1. \/ j = 12 \/ j = 13 \/ j = 14 \/ j = 15 \/ j = 16
      BY <1>1, <1>4, <1>15, RouteService
    <2>2. Routes[11].words[2] = Routes[j].words[2]
      BY <1>3, <1>15, RouteLength DEF WordCount
    <2>3. j # 12 /\ j # 14
      <3>1. WordCount(11) = 3 /\ WordCount(12) = 2 /\ WordCount(14) = 2
        BY RouteLength, Zenon
      <3> QED  BY <3>1, <1>2, <1>15
    <2> QED  BY <1>15, <2>1, <2>2, <2>3, RouteSecond
  <1>16. CASE i = 12
    <2>1. \/ j = 13 \/ j = 14 \/ j = 15 \/ j = 16
      BY <1>1, <1>4, <1>16, RouteService
    <2>2. Routes[12].words[2] = Routes[j].words[2]
      BY <1>3, <1>16, RouteLength DEF WordCount
    <2> QED  BY <1>16, <2>1, <2>2, RouteSecond
  <1>17. CASE i = 13
    <2>1. \/ j = 14 \/ j = 15 \/ j = 16
      BY <1>1, <1>4, <1>17, RouteService
    <2>2. Routes[13].words[2] = Routes[j].words[2]
      BY <1>3, <1>17, RouteLength DEF WordCount
    <2>3. j # 14
      <3>1. WordCount(13) = 3 /\ WordCount(14) = 2
        BY RouteLength, Zenon
      <3> QED  BY <3>1, <1>2, <1>17
    <2> QED  BY <1>17, <2>1, <2>2, <2>3, RouteSecond
  <1>18. CASE i = 14
    <2>1. \/ j = 15 \/ j = 16
      BY <1>1, <1>4, <1>18, RouteService
    <2>2. Routes[14].words[2] = Routes[j].words[2]
      BY <1>3, <1>18, RouteLength DEF WordCount
    <2> QED  BY <1>18, <2>1, <2>2, RouteSecond
  <1>19. CASE i = 15
    <2>1. \/ j = 16
      BY <1>1, <1>4, <1>19, RouteService
    <2>2. Routes[15].words[2] = Routes[j].words[2]
      BY <1>3, <1>19, RouteLength DEF WordCount
    <2> QED  BY <1>19, <2>1, <2>2, RouteSecond
  <1>20. CASE i = 16
    <2>1. FALSE
      BY <1>1, <1>4, <1>20, RouteService
    <2> QED  BY <2>1
  <1>21. CASE i = 17
    <2>1. FALSE
      BY <1>1, <1>4, <1>21, RouteService
    <2> QED  BY <2>1
  <1>22. CASE i = 18
    <2>1. \/ j = 19 \/ j = 20
      BY <1>1, <1>4, <1>22, RouteService
    <2>2. Routes[18].words[2] = Routes[j].words[2] /\ Routes[18].words[3] = Routes[j].words[3]
      BY <1>3, <1>22, RouteLength DEF WordCount
    <2> QED  BY <1>22, <2>1, <2>2, RouteSecond, RouteThird
  <1>23. CASE i = 19
    <2>1. \/ j = 20
      BY <1>1, <1>4, <1>23, RouteService
    <2>2. Routes[19].words[2] = Routes[j].words[2]
      BY <1>3, <1>23, RouteLength DEF WordCount
    <2> QED  BY <1>23, <2>1, <2>2, RouteSecond
  <1> QED
    BY OneOfTwenty, <1>5, <1>6, <1>7, <1>8, <1>9, <1>10, <1>11, <1>12, <1>13, <1>14, <1>15, <1>16, <1>17, <1>18, <1>19, <1>20, <1>21, <1>22, <1>23
-----------------------------------------------------------------------------
(* Handlers and envelopes *)

\* The test for a method finds it, and none before does.
LEMMA RouteOfRoute ==
  ASSUME NEW k \in 1 .. 20  PROVE Route(Routes[k]) = Routes[k]
  <1> DEFINE Hits == {i \in DOMAIN Routes : Finds(Routes[i], Routes[k])}
             first == CHOOSE i \in Hits : \A j \in Hits : i <= j
  <1>1. DOMAIN Routes = 1 .. 20
    BY RouteList
  <1>2. Finds(Routes[k], Routes[k])
    BY RouteWords, PrefixItself DEF Finds
  <1>3. k \in Hits
    BY <1>1, <1>2
  <1>4. \A j \in Hits : k <= j
    <2> SUFFICES ASSUME NEW j \in Hits, ~(k <= j)  PROVE FALSE
      OBVIOUS
    <2>1. j \in 1 .. 20 /\ j < k /\ Finds(Routes[j], Routes[k])
      BY <1>1
    <2> QED  BY <2>1, LaterRoutes
  <1>5. Route(Routes[k]) = IF Hits = {} THEN NoAction ELSE Routes[first]
    BY DEF Route
  <1>6. Hits \subseteq 1 .. 20
    BY <1>1
  <1> HIDE DEF Hits
  <1>7. first \in Hits /\ \A j \in Hits : first <= j
    BY <1>3, <1>4
  <1>8. first = k
    <2>1. first <= k /\ k <= first
      BY <1>3, <1>4, <1>7
    <2>2. first \in 1 .. 20
      BY <1>6, <1>7
    <2> HIDE DEF first
    <2> QED  BY <2>1, <2>2
  <1> HIDE DEF first
  <1> QED  BY <1>3, <1>5, <1>8

LEMMA RouteOfOther ==
  ASSUME NEW a, \A m \in Range(Routes) : ~Finds(m, a)
  PROVE  Route(a) = NoAction
  <1>1. {i \in DOMAIN Routes : Finds(Routes[i], a)} = {}
    BY DEF Range
  <1> QED  BY <1>1 DEF Route

\* The handler of a request is that of its method, when it has one.
LEMMA RouteRight ==
  ASSUME TypeOK
  PROVE  Route(req.action) = IF req.action \in Range(Routes) THEN req.action ELSE NoAction
  <1>1. CASE req.action \in Range(Routes)
    <2>1. PICK k \in 1 .. 20 : req.action = Routes[k]
      BY <1>1, RouteList DEF Range
    <2> QED  BY <1>1, <2>1, RouteOfRoute
  <1>2. CASE req.action \notin Range(Routes)
    <2>1. \A m \in Range(Routes) : ~Finds(m, req.action)
      <3>1. CASE req \in Requests
        BY <1>2, <3>1, MethodAssumption
      <3>2. CASE req = NoRequest
        <4>1. req.action.svc = "none"
          BY <3>2 DEF NoRequest, NoAction, Method
        <4>2. \A k \in 1 .. 20 : Routes[k].svc # "none"
          BY RouteService
        <4> QED  BY <4>1, <4>2, RouteList DEF Finds, Range
      <3> QED  BY <3>1, <3>2 DEF TypeOK, OnvifTypeOK
    <2> QED  BY <1>2, <2>1, RouteOfOther
  <1> QED  BY <1>1, <1>2

\* What was done with the latest request is what its method and what was read of it
\* call for, and nothing has been done with one that is still being read.
DidAsRouted ==
    /\ pc # "select" => did = Nothing
    /\ did # Nothing =>
         IF n >= req.hdr /\ Route(req.action) # NoAction
         THEN /\ did.handler = Route(req.action)
              /\ did.orders = Orders(Route(req.action), n - req.hdr)
         ELSE did.handler = NoAction /\ did.orders = {}

LEMMA DidAsRoutedNext ==
  ASSUME TypeOK, DidAsRouted, [Next]_vars
  PROVE  DidAsRouted'
  <1> USE Numbers
  <1>1. CASE UNCHANGED <<req, n, did>> /\ (pc' = "select" => pc = "select" \/ did = Nothing)
                                       /\ (pc' # "select" => did = Nothing)
    BY <1>1 DEF DidAsRouted, Orders, Order
  <1>2. CASE Serve
    <2>1. PICK m : m = Route(req.action)
      OBVIOUS
    <2>2. PICK e : e = Orders(m, n - req.hdr)
      OBVIOUS
    <2>3. did' = [handler |-> m, orders |-> e, ip |-> g_ip'] /\ pc' = "select"
            /\ req' = req /\ n' = n /\ n >= req.hdr /\ m # NoAction
      BY <1>2, <2>1, <2>2, Zenon DEF Serve, Done, client, reading
    <2>4. Orders(m, n - req.hdr)' = e
      BY <2>2, <2>3 DEF Orders
    <2> QED  BY <2>1, <2>3, <2>4 DEF DidAsRouted
  <1>3. CASE Fault
    BY <1>3 DEF Fault, Done, client, reading, DidAsRouted
  <1>4. CASE ReadStep
    <2>1. pc # "select" /\ UNCHANGED did
      BY <1>4 DEF ReadStep, ReadSome, ReadEnd
    <2> QED  BY <2>1 DEF DidAsRouted
  <1>5. CASE \E r \in Requests : Accept(r)
    BY <1>5 DEF Accept, DidAsRouted
  <1>6. CASE Arrive
    BY <1>6 DEF Arrive, DidAsRouted
  <1>7. CASE UNCHANGED <<pc, req, n, did>>
    BY <1>1, <1>7 DEF DidAsRouted
  <1>8. CASE Next
    BY <1>2, <1>3, <1>4, <1>5, <1>6, <1>7, <1>8, Steps
       DEF Handle, onvifvars, client, reading, ProcessStep, CapFires, Lease
  <1> QED  BY <1>7, <1>8 DEF vars, onvifvars, client, reading

LEMMA DidAsRoutedAlways == Spec => []DidAsRouted
  <1>1. Init => DidAsRouted
    BY DEF Init, OnvifInit, DidAsRouted
  <1>2. TypeOK /\ DidAsRouted /\ [Next]_vars => DidAsRouted'
    BY DidAsRoutedNext
  <1> QED  BY <1>1, <1>2, TypeCorrect, PTL DEF Spec

\* Whatever clients ask, in whatever segments: the handler that is called is that of
\* the method that was asked, though the tests are searches for a name's beginning.
THEOREM RightHandlerTheorem == Spec => []RightHandler
  <1>1. TypeOK /\ DidAsRouted => RightHandler
    BY RouteRight DEF DidAsRouted, RightHandler
  <1> QED  BY <1>1, DidAsRoutedAlways, TypeCorrect, PTL

\* The longer of two components has the greater square.
LEMMA Squares ==
  ASSUME NEW a \in Nat, NEW b \in Nat, a <= b  PROVE a * a <= b * b
  <1>1. a * a <= a * b
    OBVIOUS
  <1>2. a * b <= b * b
    OBVIOUS
  <1> QED  BY <1>1, <1>2

LEMMA LongestDirection ==
  ASSUME NEW x \in Int, NEW y \in Int, NEW d, d = Direction(x, y)
  PROVE  /\ x = 0 /\ y = 0 => d = 0
         /\ ~(x = 0 /\ y = 0) =>
              d \in 1 .. 4 /\ \A e \in 1 .. 4 : Along(d, x, y) >= Along(e, x, y)
  <1>1. CASE x = 0 /\ y = 0
    BY <1>1 DEF Direction
  <1>2. CASE x * x > y * y
    <2>1. d = IF x > 0 THEN 4 ELSE 3
      BY <1>2 DEF Direction, DirValue
    <2>2. /\ x > 0 => x >= y /\ x >= -y /\ x >= -x
          /\ x <= 0 => -x >= y /\ -x >= -y /\ -x >= x
      <3> DEFINE a == IF x > 0 THEN x ELSE -x
                 b == IF y > 0 THEN y ELSE -y
      <3>1. a \in Nat /\ b \in Nat /\ a * a = x * x /\ b * b = y * y
        OBVIOUS
      <3>2. ~(a <= b)
        BY <1>2, <3>1, Squares
      <3> QED  BY <3>2
    <2> QED  BY <2>1, <2>2, <1>2 DEF Along
  <1>3. CASE ~(x * x > y * y) /\ ~(x = 0 /\ y = 0)
    <2>1. d = IF y > 0 THEN 2 ELSE 1
      BY <1>3 DEF Direction, DirValue
    <2>2. /\ y > 0 => y >= x /\ y >= -x /\ y >= -y
          /\ y <= 0 => -y >= x /\ -y >= -x /\ -y >= y
      <3> DEFINE a == IF x > 0 THEN x ELSE -x
                 b == IF y > 0 THEN y ELSE -y
      <3>1. a \in Nat /\ b \in Nat /\ a * a = x * x /\ b * b = y * y
        OBVIOUS
      <3>2. ~(b + 1 <= a)
        <4>1. SUFFICES ASSUME b + 1 <= a PROVE FALSE
          OBVIOUS
        <4>2. (b + 1) * (b + 1) <= a * a
          BY <3>1, <4>1, Squares
        <4>3. (b + 1) * (b + 1) = b * b + 2 * b + 1
          BY <3>1
        <4> QED  BY <1>3, <3>1, <4>2, <4>3
      <3> QED  BY <3>1, <3>2
    <2> QED  BY <2>1, <2>2, <1>3 DEF Along
  <1> QED  BY <1>1, <1>2, <1>3

\* Whatever velocities and tokens clients ask for: the envelope says the direction in
\* which the velocity is greatest, a stop, or the preset of the token.
THEOREM OrdersAsAskedTheorem == Spec => []OrdersAsAsked
  <1>1. TypeOK /\ DidAsRouted => OrdersAsAsked
    <2> SUFFICES ASSUME TypeOK, DidAsRouted, n = Size(req), NEW o \in did.orders
                 PROVE  CASE did.handler = Move ->
                               IF req.x = 0 /\ req.y = 0 THEN o.op = "stop"
                               ELSE /\ o.op = "move" /\ o.arg \in 1 .. 4
                                    /\ \A d \in 1 .. 4 :
                                         Along(o.arg, req.x, req.y) >= Along(d, req.x, req.y)
                          [] did.handler = Stop       -> o.op = "stop"
                          [] did.handler = SetPreset  -> o.op = "preset"
                          [] did.handler = GotoPreset ->
                               o.op = "preset" /\ (req.token \in 1 .. 4 => o.arg = req.token)
      BY Zenon DEF OrdersAsAsked
    <2>1. did # Nothing
      BY DEF Nothing
    <2>2. /\ o \in Orders(did.handler, n - req.hdr)
      BY <2>1 DEF DidAsRouted
    <2>3. n - req.hdr = req.body
      BY Numbers DEF Size
    <2>4. /\ req.x \in Int /\ req.y \in Int /\ req.token \in Nat /\ req.body \in Nat
          /\ req.body < 1 => req.x = 0 /\ req.token = 1
          /\ req.body < 2 => req.y = 0
      <3>1. CASE req \in Requests
        BY <3>1, OnvifAssumption, BodyAssumption
      <3>2. CASE req = NoRequest
        BY <3>2 DEF NoRequest
      <3> QED  BY <3>1, <3>2 DEF TypeOK, OnvifTypeOK
    <2>5. Move # Stop /\ SetPreset # Stop /\ GotoPreset # Stop /\ Move # SetPreset
            /\ Move # GotoPreset /\ SetPreset # GotoPreset
      BY DEF Move, Stop, SetPreset, GotoPreset, Method
    <2>6. did.handler \in {Move, Stop, SetPreset, GotoPreset}
      BY <2>2 DEF Orders
    <2>7. CASE did.handler = Move
      <3>1. PICK d : d = Direction(req.x, req.y)
        OBVIOUS
      <3>2. (IF req.body >= 1 THEN req.x ELSE 0) = req.x
              /\ (IF req.body >= 2 THEN req.y ELSE 0) = req.y
        BY <2>4
      <3>3. o = Order(IF d = 0 THEN "stop" ELSE "move", d)
        <4>1. PICK x, y : /\ x = IF req.body >= 1 THEN req.x ELSE 0
                          /\ y = IF req.body >= 2 THEN req.y ELSE 0
          OBVIOUS
        <4>2. Orders(did.handler, req.body)
                = LET e == Direction(x, y) IN {Order(IF e = 0 THEN "stop" ELSE "move", e)}
          BY <2>5, <2>7, <4>1 DEF Orders
        <4>3. d = Direction(x, y)
          BY <3>1, <3>2, <4>1
        <4> QED  BY <2>2, <2>3, <4>2, <4>3
      <3>4. o.op = (IF d = 0 THEN "stop" ELSE "move") /\ o.arg = d
        BY <3>3 DEF Order
      <3>5. /\ req.x = 0 /\ req.y = 0 => d = 0
            /\ ~(req.x = 0 /\ req.y = 0) =>
                 d \in 1 .. 4 /\ \A e \in 1 .. 4 : Along(d, req.x, req.y) >= Along(e, req.x, req.y)
        BY <2>4, <3>1, LongestDirection
      <3>6. IF req.x = 0 /\ req.y = 0 THEN o.op = "stop"
            ELSE /\ o.op = "move" /\ o.arg \in 1 .. 4
                 /\ \A e \in 1 .. 4 :
                      Along(o.arg, req.x, req.y) >= Along(e, req.x, req.y)
        BY <3>4, <3>5
      <3> QED  BY <2>5, <2>7, <3>6
    <2>8. CASE did.handler = Stop
      <3>1. o = Order("stop", 0)
        BY <2>2, <2>5, <2>8 DEF Orders
      <3> QED  BY <2>5, <2>8, <3>1 DEF Order
    <2>9. CASE did.handler = SetPreset
      <3>1. o = Order("preset", 0)
        BY <2>2, <2>5, <2>9 DEF Orders
      <3> QED  BY <2>5, <2>9, <3>1 DEF Order
    <2>10. CASE did.handler = GotoPreset
      <3>1. o = Order("preset", PresetIndex(req.token))
        BY <2>2, <2>3, <2>4, <2>5, <2>10 DEF Orders
      <3> QED  BY <2>5, <2>10, <3>1 DEF Order, PresetIndex
    <2> QED  BY <2>6, <2>7, <2>8, <2>9, <2>10
  <1> QED  BY <1>1, DidAsRoutedAlways, TypeCorrect, PTL
=============================================================================
