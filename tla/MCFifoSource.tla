---------------------------- MODULE MCFifoSource ----------------------------
(***************************************************************************)
(* Instances of FifoSource for TLC.                                        *)
(***************************************************************************)
EXTENDS FifoSource

MCNalLen == [k \in Kinds |-> IF k \in {"idr", "p"} THEN 2 ELSE 1]

\* The records that carry a GOP, 0x0401 and 0x0400.
MCGopRecords == {<<"sps", "pps", "idr">>, <<"p">>}

\* The same with 0x0422, an SPS alone, and with units the gate has to look
\* at: a degenerate PPS, an IDR outside a chain, a delimiter, an SEI.
MCRecords == MCGopRecords \cup {<<"sps">>}
               \cup {<<"aud", "badpps", "idr", "sei">>}
=============================================================================
