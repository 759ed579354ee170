------------------------------- MODULE Homing -------------------------------
(***************************************************************************)
(* AutoMoveHome of CrMotion and MoveHomeX, MoveHomeY, MoveHomeZ            *)
(* (CrMotion/StepperApi.cpp) with the end stops (CrMotion/CrEndStop.c):    *)
(* two probes of the switch of each axis by a thread that polls while the  *)
(* lines it planned are executed behind its back.                          *)
(*                                                                         *)
(* The line ring, Calc and the FIFO are a queue of lines executed step by  *)
(* step, which a quick stop empties.  The Triggered flag of an end stop is *)
(* left out, since every read of the status overwrites it, and option O of *)
(* G28, which skips everything, as well.                                   *)
(***************************************************************************)
EXTENDS Integers, Sequences, Functions

CONSTANTS
    Axes,       \* the axes, among "X", "Y" and "Z"
    EndStops,   \* the states the end stops of a machine may be in
    Far,        \* the end of the travel
    Blocked,    \* how far beyond the edge of the switch the frame is
    MaxSize,    \* X_AXIS_MAX_SIZE and so on: length of the first approach
    Offset,     \* HOME_X_OFFSET and so on: length of the second
    Raise,      \* G28 R: lift of Z
    Lag,        \* bound: steps made between two actions of the homing thread
    QueueLen,   \* lines the ring takes
    Jogs        \* moves outside a homing, as pairs of axis and steps

ASSUME AxesAssumption == {"X", "Z"} \subseteq Axes /\ Axes \subseteq {"X", "Y", "Z"}
ASSUME EndStopsAssumption == EndStops \subseteq [Axes -> {"works", "dead", "absent"}]
ASSUME SizesAssumption ==
    /\ {MaxSize, Offset, Raise, Lag, QueueLen} \subseteq Nat \ {0}
    /\ Blocked \in Nat /\ Far \in Nat /\ Offset + Lag <= Far
ASSUME JogsAssumption == Jogs \subseteq Axes \X (Int \ {0})

VARIABLES
    endStop,        \* whether the switch closes, and whether there is one
    pos,            \* distance of the axes from the edge of their switches
    queue,          \* lines planned and not yet executed
    Enable,         \* Limit[a].Enable
    todo,           \* axes of the mark still to be homed
    axis,           \* the axis being homed
    pc,             \* where the homing thread is
    lag,            \* steps since its last action
    HomeSetFlag

vars == <<endStop, pos, queue, Enable, todo, axis, pc, lag, HomeSetFlag>>

Init ==
    /\ endStop \in EndStops
    /\ pos \in [Axes -> {0, Far}]
    /\ queue = << >>
    /\ Enable = [a \in Axes |-> FALSE]
    /\ todo = {}
    /\ axis = "X"
    /\ pc = "idle"
    /\ lag = 0
    /\ HomeSetFlag = {}

\* CRENDSTOP_GET_TRAGSTATUS succeeds and says closed.  (The trigger level of an
\* end stop that was opened is always set, in the constructor of CrMotion.)
Closed(a) == Enable[a] /\ endStop[a] = "works" /\ pos[a] <= 0

\* Mutant of HasSlot: the ring is never full.
AlwaysSlot == TRUE
\* PlanLine returns -1 while the ring is full, and is called again.
HasSlot == Len(queue) < QueueLen
PlanLine(a, d) ==
    /\ HasSlot
    /\ queue' = Append(queue, [axis |-> a, steps |-> d, begun |-> FALSE])

\* The two answers of IsMotionComplete.  TRUE is also returned while the last
\* line is on its way from the ring to Calc: it reads the FIFO, the line and the
\* ring one after the other (PlanLineBuff).
MaySayComplete == Len(queue) = 0 \/ (Len(queue) = 1 /\ ~queue[1].begun)
MaySayMoving == queue # << >>

(***************************************************************************)
(* AutoMoveHome: lift Z if asked to, then home the axes of the mark.       *)
(***************************************************************************)
AutoMoveHome(mark, lift) ==
    /\ pc = "idle"
    /\ todo' = mark
    /\ pc' = IF lift THEN "lift" ELSE "next"
    /\ lag' = 0
    /\ UNCHANGED <<endStop, pos, queue, Enable, axis, HomeSetFlag>>

PlanLift ==
    /\ pc = "lift"
    /\ PlanLine("Z", Raise)
    /\ pc' = "next"
    /\ lag' = 0
    /\ UNCHANGED <<endStop, pos, Enable, todo, axis, HomeSetFlag>>

Rank == [X |-> 1, Y |-> 2, Z |-> 3]

NextHome ==
    /\ pc = "next"
    /\ lag' = 0
    /\ \/ /\ todo = {}
          /\ pc' = "idle"
          /\ UNCHANGED <<axis, todo>>
       \/ /\ \E a \in todo : /\ \A b \in todo : Rank[a] <= Rank[b]
                             /\ axis' = a
                             /\ todo' = todo \ {a}
          /\ pc' = "enable"
    /\ UNCHANGED <<endStop, pos, queue, Enable, HomeSetFlag>>

(***************************************************************************)
(* MoveHomeX, MoveHomeY, MoveHomeZ: the first probe.                       *)
(***************************************************************************)
EnableEndStop ==
    /\ pc = "enable"
    /\ \/ /\ endStop[axis] # "absent"
          /\ Enable' = [Enable EXCEPT ![axis] = TRUE]
          /\ pc' = "closed?"
       \/ /\ endStop[axis] = "absent"
          /\ Enable' = Enable
          /\ pc' = "next"
    /\ lag' = 0
    /\ UNCHANGED <<endStop, pos, queue, todo, axis, HomeSetFlag>>

\* An axis at its switch is not moved toward it.
ReadStatus ==
    /\ pc = "closed?"
    /\ pc' = IF Closed(axis) THEN "first" ELSE "approach"
    /\ lag' = 0
    /\ UNCHANGED <<endStop, pos, queue, Enable, todo, axis, HomeSetFlag>>

PlanApproach ==
    /\ pc = "approach"
    /\ PlanLine(axis, -MaxSize)
    /\ pc' = "wait1"
    /\ lag' = 0
    /\ UNCHANGED <<endStop, pos, Enable, todo, axis, HomeSetFlag>>

\* The ring is full: sleep and call PlanLine again.
PlanRetry ==
    /\ pc \in {"lift", "approach", "backoff", "again"}
    /\ ~HasSlot
    /\ lag' = 0
    /\ UNCHANGED <<endStop, pos, queue, Enable, todo, axis, pc, HomeSetFlag>>

WaitApproach ==
    /\ pc = "wait1"
    /\ \/ (MaySayComplete \/ Closed(axis)) /\ pc' = "first"
       \/ MaySayMoving /\ ~Closed(axis) /\ pc' = "wait1"
    /\ lag' = 0
    /\ UNCHANGED <<endStop, pos, queue, Enable, todo, axis, HomeSetFlag>>

\* Mutant of FirstFound: the approach is taken for a success.
FirstAlways == TRUE
FirstFound == Closed(axis)

\* Mutant of AfterFailure: probe again until the switch is found.
ProbeAgain == "closed?"
AfterFailure == "next"

\* A probe that failed leaves the end stop enabled and the line in the ring.
FirstProbe ==
    /\ pc = "first"
    /\ pc' = IF FirstFound THEN "stop" ELSE AfterFailure
    /\ lag' = 0
    /\ UNCHANGED <<endStop, pos, queue, Enable, todo, axis, HomeSetFlag>>

\* The ring is cleared, the current line discarded, SteppersStopQuick called.
StopSteppers ==
    /\ pc = "stop"
    /\ queue' = << >>
    /\ Enable' = [Enable EXCEPT ![axis] = FALSE]
    /\ pc' = "backoff"
    /\ lag' = 0
    /\ UNCHANGED <<endStop, pos, todo, axis, HomeSetFlag>>

(***************************************************************************)
(* The second probe: away from the switch and back again.  Nothing stops   *)
(* the second approach when the switch closes.                             *)
(***************************************************************************)
PlanBackOff ==
    /\ pc = "backoff"
    /\ PlanLine(axis, Offset)
    /\ pc' = "wait2"
    /\ lag' = 0
    /\ UNCHANGED <<endStop, pos, Enable, todo, axis, HomeSetFlag>>

WaitBackOff ==
    /\ pc = "wait2"
    /\ \/ MaySayComplete /\ pc' = "again"
       \/ MaySayMoving /\ pc' = "wait2"
    /\ lag' = 0
    /\ UNCHANGED <<endStop, pos, queue, Enable, todo, axis, HomeSetFlag>>

PlanAgain ==
    /\ pc = "again"
    /\ PlanLine(axis, -Offset)
    /\ Enable' = [Enable EXCEPT ![axis] = TRUE]
    /\ pc' = "wait3"
    /\ lag' = 0
    /\ UNCHANGED <<endStop, pos, todo, axis, HomeSetFlag>>

\* MoveHomeZ reads the end stop of X here.
Polled(a) == IF a = "Z" THEN "X" ELSE a

WaitAgain ==
    /\ pc = "wait3"
    /\ \/ (MaySayComplete \/ Closed(Polled(axis))) /\ pc' = "set"
       \/ MaySayMoving /\ ~Closed(Polled(axis)) /\ pc' = "wait3"
    /\ lag' = 0
    /\ UNCHANGED <<endStop, pos, queue, Enable, todo, axis, HomeSetFlag>>

SetHome ==
    /\ pc = "set"
    /\ HomeSetFlag' = HomeSetFlag \cup {axis}
    /\ Enable' = [Enable EXCEPT ![axis] = FALSE]
    /\ pc' = "next"
    /\ lag' = 0
    /\ UNCHANGED <<endStop, pos, queue, todo, axis>>

MoveHome == \/ PlanLift \/ NextHome \/ EnableEndStop \/ ReadStatus \/ PlanApproach
            \/ PlanRetry \/ WaitApproach \/ FirstProbe \/ StopSteppers \/ PlanBackOff
            \/ WaitBackOff \/ PlanAgain \/ WaitAgain \/ SetHome

(***************************************************************************)
(* The rest of the pipeline executes the lines; while a thread is homing,  *)
(* it makes at most Lag steps before that thread runs again (SAFE_DELAY_MS *)
(* against the step rate).  The frame holds an axis at both ends.          *)
(***************************************************************************)
Toward(d) == IF d > 0 THEN 1 ELSE -1

Step ==
    LET l == Head(queue)
        d == Toward(l.steps)
    IN  /\ queue # << >>
        /\ pc = "idle" \/ lag < Lag
        /\ pos' = [pos EXCEPT ![l.axis] = IF @ + d \in -Blocked .. Far THEN @ + d ELSE @]
        /\ queue' = IF l.steps = d THEN Tail(queue)
                    ELSE [queue EXCEPT ![1].steps = @ - d, ![1].begun = TRUE]
        /\ lag' = IF pc = "idle" THEN 0 ELSE lag + 1
        /\ UNCHANGED <<endStop, Enable, todo, axis, pc, HomeSetFlag>>

\* A move outside a homing; the next homing does not wait for it.
Jog(a, d) ==
    /\ pc = "idle"
    /\ PlanLine(a, d)
    /\ UNCHANGED <<endStop, pos, Enable, todo, axis, pc, lag, HomeSetFlag>>

Next ==
    \/ \E mark \in SUBSET Axes \ {{}}, lift \in BOOLEAN : AutoMoveHome(mark, lift)
    \/ MoveHome
    \/ Step
    \/ \E j \in Jogs : Jog(j[1], j[2])

Spec == Init /\ [][Next]_vars

\* The homing thread is scheduled and the pipeline executes what it is given.
FairSpec == Spec /\ WF_vars(MoveHome) /\ WF_vars(Step)

-----------------------------------------------------------------------------
\* Every variable has its type: PlanLine never puts more lines into the ring
\* than it holds, also where homing ignores that it was full.
TypeOK ==
    /\ endStop \in EndStops
    /\ pos \in [Axes -> -Blocked .. Far]
    /\ queue \in Seq([axis : Axes, steps : Int \ {0}, begun : BOOLEAN])
    /\ Len(queue) <= QueueLen
    /\ Enable \in [Axes -> BOOLEAN]
    /\ todo \subseteq Axes
    /\ axis \in Axes
    /\ pc \in {"idle", "lift", "next", "enable", "closed?", "approach", "wait1", "first",
               "stop", "backoff", "wait2", "again", "wait3", "set"}
    /\ lag \in 0 .. Lag
    /\ HomeSetFlag \subseteq Axes

\* Where axis a will be when everything planned is executed.
Ends(a) == pos[a] + SumFunction([k \in DOMAIN queue |->
                                   IF queue[k].axis = a THEN queue[k].steps ELSE 0])

\* An axis that MoveHomeX, MoveHomeY or MoveHomeZ reports as homed comes to
\* rest at its switch, not further from it than it moved while the stop took
\* effect: also when IsMotionComplete answered too early in the second probe,
\* when the switch of another axis was polled, or when moves planned before
\* were still being executed.
EndsAtSwitch == pc = "set" => Ends(axis) \in -Blocked .. Lag

\* Every G28 ends, whether the switches close or not.
HomingEnds == (pc # "idle") ~> (pc = "idle")
=============================================================================
