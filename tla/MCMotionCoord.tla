--------------------------- MODULE MCMotionCoord ---------------------------
(* MotionCoord for TLC: a step has three parts, so that remainders of both  *)
(* signs add up to a step in two and in three moves.                        *)
EXTENDS MotionCoord

SmallValues == {-2, 0, 1, 5}
Jogs == [a \in Axis |-> IF a = "E" THEN {4} ELSE {-3, 3}]
Ratios == {0, 50}

\* Bounds: the head stays near the origin, and the axes, which have no state in
\* common, leave it one at a time (but for one command).
AtOrigin(a) == LatestCoord[a] = 0 /\ head[a] = 0
Near ==
    /\ \A a \in Axis : LatestCoord[a] \in -2 .. 5 /\ head[a] \in -2 .. 5
    /\ \E b \in Axis : \A a \in Axis \ {b} : AtOrigin(a)
=============================================================================
