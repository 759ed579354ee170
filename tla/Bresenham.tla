----------------------------- MODULE Bresenham -----------------------------
(***************************************************************************)
(* The tick calculation: CrMotion::CalcTicksThread calls Bresenham::Calc   *)
(* again and again; each call produces at most MotionNum ticks, one per    *)
(* step of the longest axis of the current line, and writes them to        *)
(* AxisFifo, from which StepperInterrupt executes them.                    *)
(*                                                                         *)
(* Kept: the status machine STOP / ACCELERATE / UNIFORM / DECELERATE, the  *)
(* error accumulators of all axes, the static and the call-local variables *)
(* with the lifetime the code gives them, the direction pins.  Abstracted: *)
(* a rate is only "computed in this call or not" (StepInterval is 0 until  *)
(* a case computes it, positive afterwards); the line ring is a sequence   *)
(* taken from atomically (PlanLineBuff looks inside).                      *)
(***************************************************************************)
EXTENDS Integers, Sequences

CONSTANTS
    AxisNum,      \* number of axes; axis 1 is X
    Lines,        \* the lines the planner may queue
    MotionNum,    \* ticks per call of Calc (MOTION_PERIOD_NUM)
    FifoLen,      \* length of AxisFifo
    QueueLen,     \* BUFF_MAX_SIZE - 1
    MaxLines      \* bound: lines planned in a behaviour

Axis == 1 .. AxisNum
Dirs == {1, -1}                      \* FORWARD, BACKWARD

ASSUME AxisNumAssumption == AxisNum \in Nat \ {0}
ASSUME MotionNumAssumption == MotionNum \in Nat \ {0}

\* A planned line: steps and direction per axis, and the two step numbers
\* CalculateForLine stores on the longest axis.  Those of the other axes, and
\* all of them in a line taken before TrapezoidCalculate reached it, are left
\* over from the line that had the slot before, so any values are possible.
LineType == [Steps : [Axis -> Nat], Dir : [Axis -> Dirs],
             UniformStartStep : [Axis -> Nat], DecelStartStep : [Axis -> Nat]]

ASSUME LinesAssumption == Lines \subseteq LineType

VARIABLES
    queue,            \* LineBuff: the lines planned and not yet taken
    line,             \* Substance.Line
    Usable,           \* Substance.Line.Usable
    LongestAxis,      \* Substance.LongestAxis
    NewDeltaErr,      \* Substance.NewDeltaErr
    NewDevision,      \* Substance.NewDevision
    StepsCount,       \* Substance.StepsCount
    Status, AxisStepsCnt, MotionDir,        \* statics of Calc
    pc, LoopIndex, MaxSteps, StepInterval,  \* locals of Calc
    tick,             \* MotionPeriod, the tick being written
    fifo,             \* AxisFifo
    isrDir,           \* static MotionDir of StepperInterrupt
    dirPin,           \* level of the direction pins, as a direction
    Pos,              \* the stored stepper positions (CRSTEPPER_SET_POS)
    moved,            \* where the motors really are, in steps
    planned           \* how many lines were planned

lineVars == <<line, Usable, LongestAxis, NewDeltaErr, NewDevision, StepsCount,
              Status, AxisStepsCnt, MotionDir>>
callVars == <<pc, LoopIndex, MaxSteps, StepInterval, tick>>
isrVars == <<isrDir, dirPin, Pos, moved>>
vars == <<queue, line, Usable, LongestAxis, NewDeltaErr, NewDevision, StepsCount,
          Status, AxisStepsCnt, MotionDir, pc, LoopIndex, MaxSteps, StepInterval,
          tick, fifo, isrDir, dirPin, Pos, moved, planned>>

ZeroOnAxes == [i \in Axis |-> 0]
AllForward == [i \in Axis |-> 1]
AllBackward == [i \in Axis |-> -1]         \* MotionDir = 0
NoDir == [i \in Axis |-> 0]                \* 0xFF00, a value no tick carries
NoLine == [Steps |-> ZeroOnAxes, Dir |-> AllBackward,
           UniformStartStep |-> ZeroOnAxes, DecelStartStep |-> ZeroOnAxes]
NoTick == [Period |-> 0, Dir |-> AllBackward, Move |-> {}]

Init ==
    /\ queue = << >>
    /\ line = NoLine
    /\ Usable = FALSE
    /\ LongestAxis = 1
    /\ NewDeltaErr = ZeroOnAxes
    /\ NewDevision = 0
    /\ StepsCount = 0
    /\ Status = "STOP"
    /\ AxisStepsCnt = ZeroOnAxes
    /\ MotionDir = AllBackward
    /\ pc = "idle" /\ LoopIndex = 0 /\ MaxSteps = 0 /\ StepInterval = 0
    /\ tick = NoTick
    /\ fifo = << >>
    /\ isrDir = NoDir
    /\ dirPin = AllForward
    /\ Pos = ZeroOnAxes
    /\ moved = ZeroOnAxes
    /\ planned = 0

(***************************************************************************)
(* The planner queues a line; a full queue makes it wait.                  *)
(***************************************************************************)
PlanLine(l) ==
    /\ planned < MaxLines
    /\ Len(queue) < QueueLen
    /\ queue' = Append(queue, l)
    /\ planned' = planned + 1
    /\ UNCHANGED <<lineVars, callVars, fifo, isrVars>>

(***************************************************************************)
(* A call of Calc.  The locals start afresh, the statics do not.           *)
(***************************************************************************)
Call ==
    /\ pc = "idle"
    /\ pc' = "loop"
    /\ LoopIndex' = 0
    /\ MaxSteps' = 0
    /\ StepInterval' = 0
    /\ UNCHANGED <<queue, lineVars, tick, fifo, isrVars, planned>>

\* Mutants of LoopGoesOn: one tick too many; the current line is forgotten.
LoopGoesOnOver == ~ (queue = << >> /\ ~Usable) /\ LoopIndex <= MotionNum
LoopForgetsLine == queue # << >> /\ LoopIndex # MotionNum
LoopGoesOn == ~ (queue = << >> /\ ~Usable) /\ LoopIndex # MotionNum

Return ==
    /\ pc = "loop"
    /\ ~LoopGoesOn
    /\ pc' = "idle"
    /\ UNCHANGED <<queue, lineVars, LoopIndex, MaxSteps, StepInterval, tick, fifo,
                   isrVars, planned>>

(***************************************************************************)
(* Taking the next line.  The search for the longest axis starts from the  *)
(* value the local MaxSteps has, not from 0.                               *)
(***************************************************************************)
IsFirstLongest(l, i) ==
    /\ \A j \in Axis : l.Steps[j] <= l.Steps[i]
    /\ \A j \in Axis : j < i => l.Steps[j] < l.Steps[i]

FirstLongest(l) == CHOOSE i \in Axis : IsFirstLongest(l, i)
MostSteps(l) == l.Steps[FirstLongest(l)]

\* Mutant of LongestAbove: the axis found is not stored.
LongestAboveX(l, m) == 1
LongestAbove(l, m) == IF MostSteps(l) > m THEN FirstLongest(l) ELSE 1
NewMaxSteps(l, m) == IF MostSteps(l) > m THEN MostSteps(l) ELSE m

TakeLine ==
    /\ pc = "loop"
    /\ LoopGoesOn
    /\ ~Usable
    /\ LET l == Head(queue) IN
         /\ line' = l
         /\ LongestAxis' = LongestAbove(l, MaxSteps)
         /\ MaxSteps' = NewMaxSteps(l, MaxSteps)
         /\ NewDeltaErr' = [i \in Axis |-> -MaxSteps']
         /\ NewDevision' = 2 * MaxSteps'
         /\ MotionDir' = l.Dir
         /\ Usable' = (l.Steps[LongestAxis'] > 0)
    /\ queue' = Tail(queue)
    /\ AxisStepsCnt' = ZeroOnAxes
    /\ StepsCount' = 0
    /\ Status' = "ACCELERATE"
    /\ UNCHANGED <<pc, LoopIndex, StepInterval, tick, fifo, isrVars, planned>>

(***************************************************************************)
(* One pass through the switch.                                            *)
(***************************************************************************)
TotalSteps == line.Steps[LongestAxis]
UniformAt == line.UniformStartStep[LongestAxis]
DecelAt == line.DecelStartStep[LongestAxis]

\* A step number 0 stands for "no such phase".
Reached(at, n) == at # 0 /\ n >= at

\* The status after step n in the ACCELERATE and in the UNIFORM case.
AfterAccelerate(n) ==
    IF n >= TotalSteps THEN "STOP"
    ELSE IF Reached(DecelAt, n) THEN "DECELERATE"
    ELSE IF Reached(UniformAt, n) THEN "UNIFORM" ELSE "ACCELERATE"

AfterUniform(n) ==
    IF Reached(DecelAt, n) THEN "DECELERATE"
    ELSE IF n >= TotalSteps THEN "STOP" ELSE "UNIFORM"

\* case STOP: the line is finished, and so is this call.
LineEnds ==
    /\ pc = "loop" /\ LoopGoesOn /\ Usable
    /\ Status = "STOP"
    /\ Usable' = FALSE
    /\ StepsCount' = 0
    /\ MotionDir' = AllBackward
    /\ pc' = "idle"
    /\ UNCHANGED <<queue, line, LongestAxis, NewDeltaErr, NewDevision, Status,
                   AxisStepsCnt, LoopIndex, MaxSteps, StepInterval, tick, fifo,
                   isrVars, planned>>

\* BresenhamCalc on every axis, and the tick that results.
StepNeeded(i) == NewDeltaErr[i] + 2 * line.Steps[i] >= 0

\* Mutant of Moves: without the limit on the steps of each axis.
MovesWithoutLimit == {i \in Axis : StepNeeded(i)}
Moves == {i \in Axis : StepNeeded(i) /\ AxisStepsCnt[i] < line.Steps[i]}

MakeTick ==
    /\ NewDeltaErr' = [i \in Axis |-> NewDeltaErr[i] + 2 * line.Steps[i]
                                        - (IF StepNeeded(i) THEN NewDevision ELSE 0)]
    /\ AxisStepsCnt' = [i \in Axis |-> AxisStepsCnt[i] + (IF i \in Moves THEN 1 ELSE 0)]
    /\ tick' = [Period |-> StepInterval', Dir |-> MotionDir, Move |-> Moves]
    /\ pc' = "write"
    /\ UNCHANGED <<queue, line, Usable, LongestAxis, NewDevision, MotionDir,
                   LoopIndex, MaxSteps, fifo, isrVars, planned>>

\* A step in one of the three moving cases: the rate is computed and the
\* step counted.
CountStep(next) ==
    /\ StepInterval' = 1
    /\ StepsCount' = StepsCount + 1
    /\ Status' = next
    /\ MakeTick

Accelerate ==
    /\ pc = "loop" /\ LoopGoesOn /\ Usable
    /\ Status = "ACCELERATE"
    /\ CountStep(AfterAccelerate(StepsCount + 1))

Uniform ==
    /\ pc = "loop" /\ LoopGoesOn /\ Usable
    /\ Status = "UNIFORM"
    /\ CountStep(AfterUniform(StepsCount + 1))

Decelerate ==
    /\ pc = "loop" /\ LoopGoesOn /\ Usable
    /\ Status = "DECELERATE"
    /\ StepsCount < TotalSteps
    /\ CountStep("DECELERATE")

\* The DECELERATE case leaves the switch at once when all steps are counted:
\* one more tick is made, with whatever StepInterval holds.
DecelerateDone ==
    /\ pc = "loop" /\ LoopGoesOn /\ Usable
    /\ Status = "DECELERATE"
    /\ StepsCount >= TotalSteps
    /\ Status' = "STOP"
    /\ UNCHANGED <<StepInterval, StepsCount>>
    /\ MakeTick

\* The do-while around CommonWriteFifo: it sleeps while the FIFO is full.
WriteTick ==
    /\ pc = "write"
    /\ Len(fifo) < FifoLen
    /\ fifo' = Append(fifo, tick)
    /\ tick' = NoTick
    /\ LoopIndex' = LoopIndex + 1
    /\ pc' = "loop"
    /\ UNCHANGED <<queue, lineVars, MaxSteps, StepInterval, isrVars, planned>>

Calc == \/ Call \/ Return \/ TakeLine \/ LineEnds
        \/ Accelerate \/ Uniform \/ Decelerate \/ DecelerateDone \/ WriteTick

(***************************************************************************)
(* StepperInterrupt.  SetStepperDir writes the pins and the stored         *)
(* positions, and is called only when the direction word changes.          *)
(***************************************************************************)
\* Mutant of DirChanges: the pins are never written.
DirChangesNever(t) == FALSE
DirChanges(t) == isrDir # t.Dir

StepperInterrupt ==
    /\ fifo # << >>
    /\ LET t == Head(fifo) IN
         /\ isrDir' = IF DirChanges(t) THEN t.Dir ELSE isrDir
         /\ dirPin' = IF DirChanges(t) THEN t.Dir ELSE dirPin
         /\ Pos' = [i \in Axis |-> Pos[i] + (IF DirChanges(t) THEN t.Dir[i] ELSE 0)]
         /\ moved' = [i \in Axis |-> moved[i] + (IF i \in t.Move THEN dirPin'[i] ELSE 0)]
    /\ fifo' = Tail(fifo)
    /\ UNCHANGED <<queue, lineVars, callVars, planned>>

(***************************************************************************)
(* SteppersStopQuick by another thread, here in one step: the ring is      *)
(* cleared, the current line discarded, the FIFO reset.  The statics of    *)
(* Calc stay as they are.                                                  *)
(***************************************************************************)
SteppersStopQuick ==
    /\ queue' = << >>
    /\ Usable' = FALSE
    /\ fifo' = << >>
    /\ UNCHANGED <<line, LongestAxis, NewDeltaErr, NewDevision, StepsCount, Status,
                   AxisStepsCnt, MotionDir, callVars, isrVars, planned>>

\* A quick stop that comes between two calls of Calc.  (One that comes while
\* Calc sleeps in front of a full FIFO leaves its local MaxSteps, and
\* LongestAxisFound is lost.)
StopBetweenCalls == pc = "idle" /\ SteppersStopQuick

Next == Calc \/ StepperInterrupt \/ \E l \in Lines : PlanLine(l)

Spec == Init /\ [][Next]_vars

\* With stops between calls.
StopSpec == Init /\ [][Next \/ StopBetweenCalls]_vars

\* With stops at any moment.
AnyStopSpec == Init /\ [][Next \/ SteppersStopQuick]_vars

\* The calculation thread is scheduled and the step timer keeps firing.
FairSpec == Spec /\ WF_vars(Calc) /\ WF_vars(StepperInterrupt)

-----------------------------------------------------------------------------
TickType == [Period : {0, 1}, Dir : [Axis -> Dirs], Move : SUBSET Axis]

\* Every variable has its type: a call of Calc makes at most MotionNum ticks,
\* and what it counts never falls below 0.
TypeOK ==
    /\ queue \in Seq(Lines)
    /\ line \in LineType
    /\ Usable \in BOOLEAN
    /\ LongestAxis \in Axis
    /\ NewDeltaErr \in [Axis -> Int]
    /\ NewDevision \in Nat
    /\ StepsCount \in Nat
    /\ Status \in {"STOP", "ACCELERATE", "UNIFORM", "DECELERATE"}
    /\ AxisStepsCnt \in [Axis -> Nat]
    /\ MotionDir \in [Axis -> Dirs]
    /\ pc \in {"idle", "loop", "write"}
    /\ LoopIndex \in 0 .. MotionNum
    /\ MaxSteps \in Nat
    /\ StepInterval \in {0, 1}
    /\ tick \in TickType
    /\ fifo \in Seq(TickType)
    /\ isrDir \in [Axis -> Dirs] \cup {NoDir}
    /\ dirPin \in [Axis -> Dirs]
    /\ Pos \in [Axis -> Int]
    /\ moved \in [Axis -> Int]
    /\ planned \in Nat

\* When Calc declares a line finished, every axis has been given exactly the
\* steps the planner asked for: the rounding of the error accumulators over
\* the whole line loses and adds none, in whatever order the phases came.
LineDoneExact ==
    Usable /\ Status = "STOP" => AxisStepsCnt = line.Steps

\* A tick made with StepInterval still 0 (a line whose last counted step used
\* up the MotionNum ticks of a call) never pulses a motor: the timer period 0
\* it programs cannot make two steps follow each other at once.
ZeroPeriodNeverMoves ==
    /\ tick.Period = 0 => tick.Move = {}
    /\ \A k \in 1 .. Len(fifo) : fifo[k].Period = 0 => fifo[k].Move = {}

\* Everything planned is executed: the queue, the current line and the FIFO
\* all run dry although Calc sleeps whenever the FIFO is full.
MotionDrains == [] <> (queue = << >> /\ ~Usable /\ fifo = << >>)

\* The sum of a sequence of integers.
Sum(s) == LET upto[k \in 0 .. Len(s)] == IF k = 0 THEN 0 ELSE upto[k - 1] + s[k]
          IN  upto[Len(s)]

\* The signed steps of axis i still to come: in queued lines, in the current
\* line, in the tick being written and in the FIFO.
TickSteps(t, i) == IF i \in t.Move THEN t.Dir[i] ELSE 0
LineSteps(l, i) == l.Dir[i] * l.Steps[i]
Queued(i) == [k \in 1 .. Len(queue) |-> LineSteps(queue[k], i)]
Buffered(i) == [k \in 1 .. Len(fifo) |-> TickSteps(fifo[k], i)]
ToCome(i) == Sum(Queued(i))
               + (IF Usable THEN line.Dir[i] * (line.Steps[i] - AxisStepsCnt[i]) ELSE 0)
               + TickSteps(tick, i)
               + Sum(Buffered(i))

\* No step is lost, added or made in the wrong direction anywhere between
\* PlanLine and the motor: the position of every motor plus what is still to
\* come changes only when a line is planned, by exactly that line, or when a
\* quick stop discards everything.
StepsConserved ==
    [][\A i \in Axis :
         \/ moved'[i] + ToCome(i)' = moved[i] + ToCome(i)
         \/ /\ planned' = planned + 1
            /\ moved'[i] + ToCome(i)' = moved[i] + ToCome(i)
                                          + LineSteps(queue'[Len(queue')], i)
         \/ StopBetweenCalls]_vars

\* "Find the longest axis" (Bresenham.cpp:630): after a line was taken,
\* LongestAxis is an axis with the most steps.
LongestAxisFound == \A i \in Axis : line.Steps[i] <= TotalSteps
=============================================================================
