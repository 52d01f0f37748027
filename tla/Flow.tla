-------------------------------- MODULE Flow --------------------------------
(***************************************************************************)
(* Structured control flow, without code: which statement of a program may *)
(* follow which.  A point is the place of a simple statement or a          *)
(* condition; an exit is a point with its outcome, and an edge leads from  *)
(* an exit to the point that comes next.  A program is described from left *)
(* to right, as the code generator compiles it: ends are the exits that    *)
(* lead to whatever comes next.                                            *)
(***************************************************************************)
EXTENDS Integers, Sequences, SequencesExt

Exit(p, outcome) == <<p, outcome>>
Leaves(p) == {Exit(p, "any")}

EmptyFlow(start) == [points |-> {}, edges |-> {}, ends |-> Leaves(start), ifs |-> <<>>, whiles |-> <<>>]

Lead(f, exits, p) == [f EXCEPT !.edges = @ \cup (exits \X {p})]

\* The next simple statement or condition.
Point(f, p) == [Lead(f, f.ends, p) EXCEPT !.points = @ \cup {p}, !.ends = Leaves(p)]
DeadEnd(f, p) == [Point(f, p) EXCEPT !.ends = {}]

\* kept: the exits of a branch that join the ends of the other one.
OpenIf(f, p) == [Point(f, p) EXCEPT !.ends = {Exit(p, "true")},
                                    !.ifs = Append(@, {Exit(p, "false")})]
ElseIf(f) == [f EXCEPT !.ends = Last(f.ifs), !.ifs = Append(Front(@), f.ends)]
CloseIf(f) == [f EXCEPT !.ends = @ \cup Last(f.ifs), !.ifs = Front(@)]

OpenWhile(f, p) ==
    [Point(f, p) EXCEPT !.ends = {Exit(p, "true")},
                        !.whiles = Append(@, [cond |-> p, breaks |-> {}, skips |-> {}])]
BreakOut(f, p) == [DeadEnd(f, p) EXCEPT !.whiles[Len(f.whiles)].breaks = @ \cup Leaves(p)]
SkipOn(f, p)   == [DeadEnd(f, p) EXCEPT !.whiles[Len(f.whiles)].skips = @ \cup Leaves(p)]

\* increments: the point of the increment, or no point.
CloseWhile(f, increments) ==
    LET loop == Last(f.whiles)
        back == [f EXCEPT !.ends = @ \cup loop.skips]
        turn == IF increments = {} THEN back ELSE Point(back, CHOOSE p \in increments : TRUE)
    IN  [Lead(turn, turn.ends, loop.cond) EXCEPT
            !.ends = {Exit(loop.cond, "false")} \cup loop.breaks,
            !.whiles = Front(@)]
=============================================================================
