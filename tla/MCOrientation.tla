---------------------------- MODULE MCOrientation ----------------------------
(* Orientation for TLC, with the eight F's of the comment in fixOrientation as   *)
(* images besides the numbered ones.                                          *)
EXTENDS Orientation

\* A row of the comment per line; a 1 is an "88".
Glyph == <<
    << <<1,1,1>>,
       <<1,0,0>>,
       <<1,1,0>>,
       <<1,0,0>>,
       <<1,0,0>> >>,

    << <<1,1,1>>,
       <<0,0,1>>,
       <<0,1,1>>,
       <<0,0,1>>,
       <<0,0,1>> >>,

    << <<0,0,1>>,
       <<0,0,1>>,
       <<0,1,1>>,
       <<0,0,1>>,
       <<1,1,1>> >>,

    << <<1,0,0>>,
       <<1,0,0>>,
       <<1,1,0>>,
       <<1,0,0>>,
       <<1,1,1>> >>,

    << <<1,1,1,1,1>>,
       <<1,0,1,0,0>>,
       <<1,0,0,0,0>> >>,

    << <<1,0,0,0,0>>,
       <<1,0,1,0,0>>,
       <<1,1,1,1,1>> >>,

    << <<0,0,0,0,1>>,
       <<0,0,1,0,1>>,
       <<1,1,1,1,1>> >>,

    << <<1,1,1,1,1>>,
       <<0,0,1,0,1>>,
       <<0,0,0,0,1>> >> >>

GlyphImage(v) ==
    LET w == Len(Glyph[v][1])
        h == Len(Glyph[v])
    IN  Image(w, h, [p \in Grid(w, h) |-> Glyph[v][p[2] + 1][p[1] + 1]])

GlyphInit ==
    \E v \in 1..8 :
        /\ img = GlyphImage(v)
        /\ pose = Pose!Diagram[v]
        /\ scene = GlyphImage(1)
        /\ calls = Calls[v]

MCSpec == (Init \/ GlyphInit) /\ [][Next]_vars
=============================================================================
