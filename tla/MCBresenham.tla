---------------------------- MODULE MCBresenham ----------------------------
(* Bresenham on small lines, for TLC. *)
EXTENDS Bresenham

CONSTANT StepBound    \* most steps of an axis

\* A line with the same phase boundaries on every axis.
Shape(steps, dir, u, d) ==
    [Steps |-> steps, Dir |-> dir, UniformStartStep |-> [i \in Axis |-> u],
     DecelStartStep |-> [i \in Axis |-> d]]

\* Every shape of a line: all step counts, all boundaries (also out of order
\* and beyond the end, as left over in a slot), one direction.
AllShapes ==
    {Shape(s, AllForward, u, d) : s \in [Axis -> 0 .. StepBound],
                                  u \in 0 .. StepBound, d \in 0 .. StepBound}

\* A few lines in both directions, to run several of them in a row.
BothWays ==
    {Shape(s, dir, 1, 2) : s \in {<<2, 1>>, <<0, 3>>, <<0, 0>>},
                           dir \in {<<1, -1>>, <<-1, -1>>}}

AllLines == AllShapes \cup BothWays

\* A behaviour executes one line of any shape, or several lines in both
\* directions.
Several == /\ line \in BothWays \cup {NoLine}
           /\ \A k \in 1 .. Len(queue) : queue[k] \in BothWays

MCNext == \/ Calc
          \/ StepperInterrupt
          \/ \E l \in AllLines : planned = 0 /\ PlanLine(l)
          \/ \E l \in BothWays : planned > 0 /\ Several /\ PlanLine(l)
          \/ StopBetweenCalls
MCSpec == /\ Init /\ [][MCNext]_vars
          /\ WF_vars(Calc) /\ WF_vars(StepperInterrupt)
=============================================================================
