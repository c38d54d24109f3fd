---------------------------- MODULE MCPtzControl ----------------------------
(***************************************************************************)
(* Instances of PtzControl for TLC.                                        *)
(***************************************************************************)
EXTENDS PtzControl

MCRequest(m, x, y, t, cl, hdr, body) ==
    [action |-> m, x |-> x, y |-> y, token |-> t, cl |-> cl,
     hdr |-> hdr, body |-> body]

\* A move and a stop that come in one piece.
MCBrief == {MCRequest(Move, 1, 0, 1, TRUE, 1, 1), MCRequest(Stop, 0, 0, 1, TRUE, 1, 0)}

\* Velocities along and between the axes, a body without its length, one that
\* does not fit, and a header that does not.
MCMoves ==
    {MCRequest(Move, v[1], v[2], 1, TRUE, 2, 2) :
        v \in {<<0, 0>>, <<-2, 1>>, <<2, -1>>, <<-1, 2>>, <<1, -2>>, <<0, -1>>, <<1, 0>>}}
      \union {MCRequest(Move, 1, -2, 1, FALSE, 1, 2), MCRequest(Move, 0, 1, 1, TRUE, 1, 4),
              MCRequest(Move, 0, 0, 1, TRUE, 5, 0)}

\* Methods of the same name in other services, and names that begin alike and
\* have no handler.
MCMethods ==
    Range(DeviceQueries \o MediaQueries \o PtzQueries \o ServiceQueries)
      \union {Stop, SetPreset, Method("ptz", <<"Get", "Configuration">>),
              Method("ptz", <<"Get", "Preset", "Tours">>),
              Method("media", <<"Get", "Profile">>), NoAction}

MCNone == {}

MCRequests ==
    MCMoves
      \union {MCRequest(m, 0, 0, 1, TRUE, 1, 0) : m \in MCMethods}
      \union {MCRequest(GotoPreset, 0, 0, t, TRUE, 1, 1) : t \in {0, 4, 5}}
=============================================================================
