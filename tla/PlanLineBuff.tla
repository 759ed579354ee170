---------------------------- MODULE PlanLineBuff ----------------------------
(***************************************************************************)
(* LineBuff, the ring of planned lines (CrMotion/CrMotionPlanner.cpp), and *)
(* the three parties that share it without a lock: a command thread that   *)
(* plans lines, recalculates the queued ones, asks whether the motion is   *)
(* complete or stops it; the calculation thread, which takes lines out and *)
(* turns them into ticks; the step interrupt, which consumes the ticks.    *)
(* The two threads interleave at every access to a shared variable.        *)
(*                                                                         *)
(* Abstracted: a line is its number, its speeds and phase boundaries are   *)
(* left out (Bresenham executes lines with any boundaries); a line is      *)
(* executed in Ticks ticks; AxisFifo is a count (StepFifo models it).      *)
(***************************************************************************)
EXTENDS Integers, Sequences

CONSTANTS
    BuffMaxSize,  \* BUFF_MAX_SIZE, a power of two
    Ticks,        \* ticks per line
    FifoLen,      \* length of AxisFifo
    MaxLines,     \* bound: lines planned in a behaviour
    MaxStops      \* bound: quick stops in a behaviour

ASSUME BuffMaxSizeAssumption == BuffMaxSize \in Nat \ {0, 1}
ASSUME LengthsAssumption == Ticks \in Nat /\ FifoLen \in Nat /\ MaxLines \in Nat

VARIABLES
    LineBuff,             \* contents of the slots
    Usable,               \* their Usable flags
    LineBuffHead, LineBuffTail,
    cmd,                  \* where the command thread is
    at, tailSeen,         \* locals of TrapezoidCalculate
    finished,             \* IsMotionComplete has just returned TRUE
    calc,                 \* where the calculation thread is
    Line, LineUsable,     \* Substance.Line
    ticksLeft,            \* ticks of the current line still to be written
    fifo,                 \* ticks in AxisFifo
    taken,                \* the line GetNextPlanLine returned last, as a batch
    planned,              \* how many lines were planned
    stopped,              \* how many of them before the last finished stop
    stops                 \* how many stops were begun

ringVars == <<LineBuff, Usable, LineBuffHead, LineBuffTail>>
cmdVars == <<cmd, at, tailSeen, finished, planned, stopped, stops>>
calcVars == <<calc, Line, LineUsable, ticksLeft, taken>>
vars == <<LineBuff, Usable, LineBuffHead, LineBuffTail, cmd, at, tailSeen, finished,
          calc, Line, LineUsable, ticksLeft, fifo, taken, planned, stopped, stops>>

Slots == 0 .. BuffMaxSize - 1
Blank == 0

\* Mutant of NextPlanLineIndex: without the mask.
NextWithoutMask(i) == i + 1
NextPlanLineIndex(i) == (i + 1) % BuffMaxSize
GetPlanLineBuffNum == (LineBuffTail + BuffMaxSize - LineBuffHead) % BuffMaxSize
IsPlanLineBuffEmpty == LineBuffHead = LineBuffTail

\* Mutant of IsPlanLineBuffFull: the ring is filled to the last slot.
FullAtLastSlot == FALSE
IsPlanLineBuffFull == LineBuffHead = NextPlanLineIndex(LineBuffTail)

Init ==
    /\ LineBuff = [s \in Slots |-> Blank]
    /\ Usable = [s \in Slots |-> FALSE]
    /\ LineBuffHead = 0 /\ LineBuffTail = 0
    /\ cmd = "idle" /\ at = 0 /\ tailSeen = 0 /\ finished = FALSE
    /\ calc = "idle" /\ Line = Blank /\ LineUsable = FALSE /\ ticksLeft = 0
    /\ fifo = 0
    /\ taken = << >>
    /\ planned = 0 /\ stopped = 0 /\ stops = 0

(***************************************************************************)
(* PlanLine.  A full ring makes it return -1; its callers try again.       *)
(***************************************************************************)
StuffLineBuff ==
    /\ cmd = "idle"
    /\ planned < MaxLines
    /\ ~IsPlanLineBuffFull
    /\ LineBuff' = [LineBuff EXCEPT ![LineBuffTail] = planned + 1]
    /\ finished' = FALSE
    /\ cmd' = "usable"
    /\ UNCHANGED <<Usable, LineBuffHead, LineBuffTail, at, tailSeen, calcVars, fifo,
                   planned, stopped, stops>>

SetUsable ==
    /\ cmd = "usable"
    /\ Usable' = [Usable EXCEPT ![LineBuffTail] = TRUE]
    /\ cmd' = "tail"
    /\ UNCHANGED <<LineBuff, LineBuffHead, LineBuffTail, at, tailSeen, finished,
                   calcVars, fifo, planned, stopped, stops>>

OffsetTail ==
    /\ cmd = "tail"
    /\ LineBuffTail' = NextPlanLineIndex(LineBuffTail)
    /\ planned' = planned + 1
    /\ cmd' = "recalc"
    /\ UNCHANGED <<LineBuff, Usable, LineBuffHead, at, tailSeen, finished, calcVars,
                   fifo, stopped, stops>>

(***************************************************************************)
(* TrapezoidCalculate, over the slots from the head it reads to the tail.  *)
(***************************************************************************)
TrapezoidCalculate ==
    /\ cmd = "recalc"
    /\ at' = LineBuffHead
    /\ tailSeen' = LineBuffTail
    /\ cmd' = "slot"
    /\ UNCHANGED <<ringVars, finished, calcVars, fifo, planned, stopped, stops>>

\* The slot is not usable (taken meanwhile): go on; or the loop is over.
SkipSlot ==
    /\ cmd = "slot"
    /\ at # tailSeen => ~Usable[at]
    /\ IF at = tailSeen THEN cmd' = "idle" /\ at' = at
                        ELSE cmd' = "slot" /\ at' = NextPlanLineIndex(at)
    /\ UNCHANGED <<ringVars, tailSeen, finished, calcVars, fifo, planned, stopped, stops>>

LockSlot ==
    /\ cmd = "slot"
    /\ at # tailSeen
    /\ Usable[at]
    /\ cmd' = "lock"
    /\ UNCHANGED <<ringVars, at, tailSeen, finished, calcVars, fifo, planned, stopped,
                   stops>>

ClearUsable ==
    /\ cmd = "lock"
    /\ Usable' = [Usable EXCEPT ![at] = FALSE]
    /\ cmd' = "unlock"
    /\ UNCHANGED <<LineBuff, LineBuffHead, LineBuffTail, at, tailSeen, finished,
                   calcVars, fifo, planned, stopped, stops>>

\* Mutant of UsableAgain: the flag is not given back.
UsableLost == FALSE
UsableAgain == TRUE

\* CalculateForLine, and the flag is set again.
UnlockSlot ==
    /\ cmd = "unlock"
    /\ Usable' = [Usable EXCEPT ![at] = UsableAgain]
    /\ at' = NextPlanLineIndex(at)
    /\ cmd' = "slot"
    /\ UNCHANGED <<LineBuff, LineBuffHead, LineBuffTail, tailSeen, finished, calcVars,
                   fifo, planned, stopped, stops>>

PlanLine == \/ StuffLineBuff \/ SetUsable \/ OffsetTail \/ TrapezoidCalculate
            \/ SkipSlot \/ LockSlot \/ ClearUsable \/ UnlockSlot

(***************************************************************************)
(* IsMotionComplete: three reads, of the FIFO, of the current line and of  *)
(* the ring, in this order.  The callers poll until it returns TRUE.       *)
(***************************************************************************)
ReadFifo ==
    /\ cmd = "idle"
    /\ ~finished
    /\ cmd' = IF fifo = 0 THEN "line?" ELSE "idle"
    /\ UNCHANGED <<ringVars, at, tailSeen, finished, calcVars, fifo, planned, stopped,
                   stops>>

ReadCurrentLine ==
    /\ cmd = "line?"
    /\ cmd' = IF LineUsable THEN "idle" ELSE "ring?"
    /\ UNCHANGED <<ringVars, at, tailSeen, finished, calcVars, fifo, planned, stopped,
                   stops>>

ReadRing ==
    /\ cmd = "ring?"
    /\ finished' = IsPlanLineBuffEmpty
    /\ cmd' = "idle"
    /\ UNCHANGED <<ringVars, at, tailSeen, calcVars, fifo, planned, stopped, stops>>

IsMotionComplete == ReadFifo \/ ReadCurrentLine \/ ReadRing

(***************************************************************************)
(* SteppersStopQuick: PlanLineBuffClear, DiscardCurrentLine, the FIFO.     *)
(***************************************************************************)
StopBegin ==
    /\ cmd = "idle"
    /\ stops < MaxStops
    /\ stops' = stops + 1
    /\ finished' = FALSE
    /\ cmd' = "clear"
    /\ UNCHANGED <<ringVars, at, tailSeen, calcVars, fifo, planned, stopped>>

ClearSlot ==
    /\ cmd = "clear"
    /\ IF IsPlanLineBuffEmpty
         THEN cmd' = "discard" /\ Usable' = Usable
         ELSE cmd' = "advance" /\ Usable' = [Usable EXCEPT ![LineBuffHead] = FALSE]
    /\ UNCHANGED <<LineBuff, LineBuffHead, LineBuffTail, at, tailSeen, finished,
                   calcVars, fifo, planned, stopped, stops>>

ClearAdvance ==
    /\ cmd = "advance"
    /\ LineBuffHead' = NextPlanLineIndex(LineBuffHead)
    /\ cmd' = "clear"
    /\ UNCHANGED <<LineBuff, Usable, LineBuffTail, at, tailSeen, finished, calcVars,
                   fifo, planned, stopped, stops>>

DiscardCurrentLine ==
    /\ cmd = "discard"
    /\ LineUsable' = FALSE
    /\ cmd' = "reset"
    /\ UNCHANGED <<ringVars, at, tailSeen, finished, calc, Line, ticksLeft, taken, fifo,
                   planned, stopped, stops>>

ResetFifo ==
    /\ cmd = "reset"
    /\ fifo' = 0
    /\ stopped' = planned
    /\ cmd' = "idle"
    /\ UNCHANGED <<ringVars, at, tailSeen, finished, calcVars, planned, stops>>

SteppersStopQuick == StopBegin \/ ClearSlot \/ ClearAdvance \/ DiscardCurrentLine
                       \/ ResetFifo

(***************************************************************************)
(* The calculation thread: Calc with GetNextPlanLine.                      *)
(***************************************************************************)
\* The condition of its loop; with nothing to do the thread sleeps and polls.
CalcLoop ==
    /\ calc = "idle"
    /\ calc' = IF LineUsable THEN "tick"
               ELSE IF IsPlanLineBuffEmpty THEN "idle" ELSE "empty?"
    /\ UNCHANGED <<ringVars, cmdVars, Line, LineUsable, ticksLeft, taken, fifo>>

\* GetNextPlanLine returns 0 when the ring is empty or its head not usable.
TakeEmptyCheck ==
    /\ calc = "empty?"
    /\ calc' = IF IsPlanLineBuffEmpty THEN "idle" ELSE "usable?"
    /\ UNCHANGED <<ringVars, cmdVars, Line, LineUsable, ticksLeft, taken, fifo>>

TakeUsableCheck ==
    /\ calc = "usable?"
    /\ calc' = IF Usable[LineBuffHead] THEN "claim" ELSE "idle"
    /\ UNCHANGED <<ringVars, cmdVars, Line, LineUsable, ticksLeft, taken, fifo>>

TakeClaim ==
    /\ calc = "claim"
    /\ Usable' = [Usable EXCEPT ![LineBuffHead] = FALSE]
    /\ calc' = "copy"
    /\ UNCHANGED <<LineBuff, LineBuffHead, LineBuffTail, cmdVars, Line, LineUsable,
                   ticksLeft, taken, fifo>>

TakeCopy ==
    /\ calc = "copy"
    /\ Line' = LineBuff[LineBuffHead]
    /\ LineUsable' = TRUE
    /\ calc' = "advance"
    /\ UNCHANGED <<ringVars, cmdVars, ticksLeft, taken, fifo>>

\* Mutant of HeadAfterTake: the head stays.
HeadStays == LineBuffHead
HeadAfterTake == NextPlanLineIndex(LineBuffHead)

TakeAdvance ==
    /\ calc = "advance"
    /\ LineBuffHead' = HeadAfterTake
    /\ taken' = <<Line>>
    /\ ticksLeft' = Ticks
    /\ LineUsable' = TRUE
    /\ calc' = "tick"
    /\ UNCHANGED <<LineBuff, Usable, LineBuffTail, cmdVars, Line, fifo>>

\* The switch of Calc: one tick into the FIFO (waiting while it is full), or
\* case STOP.
EmitTick ==
    /\ calc = "tick"
    /\ ticksLeft > 0
    /\ fifo < FifoLen
    /\ fifo' = fifo + 1
    /\ ticksLeft' = ticksLeft - 1
    /\ calc' = IF LineUsable THEN "tick" ELSE "idle"
    /\ UNCHANGED <<ringVars, cmdVars, Line, LineUsable, taken>>

LineEnds ==
    /\ calc = "tick"
    /\ ticksLeft = 0
    /\ LineUsable' = FALSE
    /\ calc' = "idle"
    /\ UNCHANGED <<ringVars, cmdVars, Line, ticksLeft, taken, fifo>>

GetNextPlanLine == \/ TakeEmptyCheck \/ TakeUsableCheck \/ TakeClaim \/ TakeCopy
                   \/ TakeAdvance
Calc == CalcLoop \/ GetNextPlanLine \/ EmitTick \/ LineEnds

StepperInterrupt ==
    /\ fifo > 0
    /\ fifo' = fifo - 1
    /\ UNCHANGED <<ringVars, cmdVars, calcVars>>

Next == PlanLine \/ IsMotionComplete \/ Calc \/ StepperInterrupt
StopNext == Next \/ SteppersStopQuick

Spec == Init /\ [][Next]_vars
StopSpec == Init /\ [][StopNext]_vars

(***************************************************************************)
(* Stops on the G-code thread (G28, M410, M524...).  It has a lower        *)
(* priority than the calculation thread, and GetNextPlanLine does not      *)
(* sleep: no such stop takes a step inside it.  A homing from the menu is  *)
(* on the main thread, of equal priority, and its stop may (StopSpec).     *)
(***************************************************************************)
Taking == calc \in {"empty?", "usable?", "claim", "copy", "advance"}
GcodeStopNext == Next \/ (~Taking /\ SteppersStopQuick)
GcodeStopSpec == Init /\ [][GcodeStopNext]_vars

\* Both threads are scheduled, and the step timer keeps firing.
FairSpec == Spec /\ WF_vars(PlanLine \/ IsMotionComplete)
                 /\ WF_vars(Calc) /\ WF_vars(StepperInterrupt)

-----------------------------------------------------------------------------
\* Every variable has its type: NextPlanLineIndex keeps head and tail inside
\* LineBuff.
TypeOK ==
    /\ LineBuff \in [Slots -> Nat]
    /\ Usable \in [Slots -> BOOLEAN]
    /\ LineBuffHead \in Slots /\ LineBuffTail \in Slots
    /\ cmd \in {"idle", "usable", "tail", "recalc", "slot", "lock", "unlock",
                "line?", "ring?", "clear", "advance", "discard", "reset"}
    /\ at \in Slots /\ tailSeen \in Slots
    /\ finished \in BOOLEAN
    /\ calc \in {"idle", "empty?", "usable?", "claim", "copy", "advance", "tick"}
    /\ Line \in Nat /\ LineUsable \in BOOLEAN
    /\ ticksLeft \in 0 .. Ticks
    /\ fifo \in 0 .. FifoLen
    /\ taken \in Seq(Nat)
    /\ planned \in Nat /\ stopped \in Nat /\ stops \in Nat

\* The lines in the ring, oldest first.
Pending == [k \in 1 .. GetPlanLineBuffNum |->
              LineBuff[(LineBuffHead + k - 1) % BuffMaxSize]]

\* The ring hands the lines over like the bounded stream of TickStream: each
\* once, in the order planned, at most BuffMaxSize - 1 at a time, however the
\* unlocked steps of PlanLine and GetNextPlanLine interleave.
LQ == INSTANCE TickStream WITH Capacity <- BuffMaxSize - 1, stream <- Pending,
                               received <- taken,
                               Batches <- {<<n>> : n \in 1 .. MaxLines}
ImplementsLineStream == LQ!Spec

\* GetNextPlanLine copies the slot it checked: between its tests and its
\* copy, the head slot holds the next line in turn.
CopiesNextLine ==
    calc \in {"claim", "copy", "advance"} =>
      /\ ~IsPlanLineBuffEmpty
      /\ calc = "advance" => Line = LineBuff[LineBuffHead]

\* A caller that polls IsMotionComplete is released: the ring runs empty
\* although the command thread withdraws the Usable flag of queued lines again
\* and again, and everything taken from it is executed.
PollingEnds == [] <> finished

\* "Clears all the buffered lines" (CrMotionPlanner.cpp:810): after a stop, the
\* ring holds no more than the lines planned since.
StopEmptiesRing ==
    cmd = "idle" /\ calc = "idle" => GetPlanLineBuffNum <= planned - stopped

\* GetNextPlanLine never returns a line planned before the last finished stop,
\* nor one it returned before, nor one overtaken by a newer one.
OnlyNewLinesTaken ==
    [][TakeAdvance => Line > stopped /\ \A j \in DOMAIN taken : Line > taken[j]]_vars
=============================================================================
