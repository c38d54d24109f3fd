------------------------------ MODULE MCSpsCodec ------------------------------
(***************************************************************************)
(* An instance of SpsCodec for TLC.                                        *)
(***************************************************************************)
EXTENDS SpsCodec

MCBase == [profile |-> 77, constraint |-> 0, level |-> 40, sps_id |-> 0,
           chroma |-> 1, lists |-> <<>>, log2frm |-> 4, poc_type |-> 0, poc_lsb |-> 5,
           max_ref |-> 1, gaps |-> 0, w |-> 119, h |-> 67, fmbo |-> 1,
           mb_adaptive |-> 0, direct8x8 |-> 1, crop |-> <<>>,
           vui |-> <<0, 1>>, junk |-> <<>>]

\* Sizes of the camera's streams, the smallest and largest ones, and those whose
\* code has the most zeros.
MCSizes == {<<119, 67>>, <<39, 21>>, <<0, 0>>, <<300, 300>>, <<301, 10>>, <<255, 255>>}

\* A VUI with long runs of zeros, and what the app glues to an SPS.
MCVuis == {<<0, 1>>, <<1>> \o [i \in 1 .. 60 |-> 0] \o <<1, 1>>}
MCJunks == {<<>>, <<0, 0, 0, 7, 255, 1>>}

MCFlat(n) == [i \in 1 .. n |-> IF i = 1 THEN 8 ELSE 0]
MCLists == {<<>>, [m \in 1 .. 8 |-> <<>>],
            [m \in 1 .. 8 |-> IF m = 1 THEN MCFlat(16) ELSE IF m = 8 THEN MCFlat(64) ELSE <<>>],
            [m \in 1 .. 8 |-> IF m = 2 THEN <<-8>> ELSE <<>>]}

MCSent ==
    {[MCBase EXCEPT !.w = z[1], !.h = z[2], !.fmbo = b, !.mb_adaptive = m, !.poc_type = p,
                    !.crop = c, !.vui = v, !.junk = j] :
        z \in MCSizes, b \in {0, 1}, m \in {0, 1}, p \in 0 .. 2,
        c \in {<<>>, <<0, 0, 0, 4>>, <<255, 255, 0, 1>>}, v \in MCVuis, j \in MCJunks}
    \union
    {[MCBase EXCEPT !.profile = q, !.chroma = k, !.lists = l, !.sps_id = s, !.log2frm = f,
                    !.max_ref = r, !.gaps = g, !.constraint = 192] :
        q \in {66, 100}, k \in {1, 2}, l \in MCLists, s \in {0, 31}, f \in {0, 12},
        r \in {0, 1, 16}, g \in {0, 1}}
    \union
    {[MCBase EXCEPT !.profile = 244, !.chroma = 3,
                    !.lists = [m \in 1 .. 12 |-> IF m \in x THEN MCFlat(IF m <= 6 THEN 16 ELSE 64)
                                                            ELSE <<>>]] :
        x \in {{}, {3, 12}}}

MCPpss == {<<104>> \o b \o [i \in 1 .. z |-> 0] :
             b \in {<<>>, <<206, 60, 128>>, <<1>>, <<0, 0, 1>>, <<238, 0, 128>>},
             z \in 0 .. 3}

ASSUME PpssAreRead == PpssRead
ASSUME SpssAreRead == SpssRead
=============================================================================
