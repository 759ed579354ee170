----------------------------- MODULE MotionCoord -----------------------------
(***************************************************************************)
(* Where the firmware believes the head will be: LatestCoord of CrMotion   *)
(* (CrModel/CrMotion.cpp), against where the planned lines really take it. *)
(*                                                                         *)
(* A coordinate is an integer number of 1/K steps (one mm is one step).    *)
(* "X" stands for X and Y; X and E move by the rounded distance, E after   *)
(* the flow ratio was applied, Z by the truncated one, whose remainders    *)
(* CorrectTargetCoordinate collects in Deltamm.  A command is one step:    *)
(* the ring is modelled in PlanLineBuff, the search for the end stops is   *)
(* left out (homing succeeds).                                             *)
(***************************************************************************)
EXTENDS Integers

CONSTANTS
    K,          \* fractions of a step
    Values,     \* coordinates a G-code may carry
    JogDis,     \* distances of the move menu, per axis
    FlowRatios, \* percentages M221 may set
    MinEChange, \* MIN_E_CHANGE, 0.01 mm or 0.93 steps of E
    InchMm,     \* mm per inch
    ParkX, RaiseZ, RetractE   \* 2 mm, 2 mm and 5 mm in the code

Axis == {"X", "Z", "E"}
Unit == {"Millimeter", "Inch"}

ASSUME KAssumption == K \in Nat \ {0}
ASSUME ValuesAssumption == Values \subseteq Int
ASSUME FlowAssumption == FlowRatios \subseteq Int
ASSUME DistancesAssumption == {MinEChange, RaiseZ} \subseteq Int

VARIABLES
    LatestCoord,    \* the coordinate put into the queue last
    PauseCoord,
    Deltamm,        \* remainder of Z, in 1/K steps
    OldTargetZ,     \* static OldTarget.Z of CorrectTargetCoordinate
    MotionUnit,
    FlowRatio,      \* Feedrate.FlowRatio, percent
    homed,          \* HomeSetFlag
    paused,         \* M25 was executed and M24 not yet
    head,           \* where the head is when all planned lines are executed
    \* History variables of the properties:
    eOff,           \* an E distance was planned that LatestCoord does not follow
    zSet,           \* Z was set by G28, G92 or the menu since the last move of Z
    zOff            \* LatestCoord.Z was put off and Z has not been homed since

config == <<MotionUnit, FlowRatio>>
vars == <<LatestCoord, PauseCoord, Deltamm, OldTargetZ, config, homed, paused, head,
          eOff, zSet, zOff>>

Zero == [a \in Axis |-> 0]

Init ==
    /\ LatestCoord = Zero
    /\ PauseCoord = Zero
    /\ Deltamm = 0
    /\ OldTargetZ = 0
    /\ MotionUnit = "Millimeter"
    /\ FlowRatio = 0
    /\ homed = {}
    /\ paused = FALSE
    /\ head = Zero
    /\ eOff = FALSE /\ zSet = FALSE /\ zOff = FALSE

(***************************************************************************)
(* PlanLine: the distance each axis is moved for a difference u.           *)
(***************************************************************************)
\* Toward zero, as floor of the absolute value does.
Truncated(u) == IF u >= 0 THEN u - (u % K) ELSE u + ((-u) % K)

\* ROUND and the cast to S32: half away from zero.
Rounded(u) == IF u >= 0 THEN Truncated(u + K \div 2) ELSE Truncated(u - K \div 2)

Abs(u) == IF u >= 0 THEN u ELSE -u

\* The share of an E distance that is planned; a ratio of 0 or less is not
\* applied, and 100 percent change nothing.
FlowApplies == FlowRatio > 0 /\ FlowRatio # 100
Flowed(u) ==
    LET steps == (2 * Abs(u) * FlowRatio + 100 * K) \div (200 * K)
    IN  IF u >= 0 THEN steps * K ELSE -steps * K

Moved(a, u) ==
    IF a = "Z" THEN Truncated(u)
    ELSE IF a = "E" /\ FlowApplies THEN Flowed(u)
    ELSE Rounded(u)

\* PlanLine drops an E distance below MIN_E_CHANGE, PlanRetract does not.
Long(u) == IF Abs(u) < MinEChange THEN 0 ELSE u
Distance(a, from, to, plan) ==
    IF a = "E" /\ plan = "PlanLine" THEN Long(to[a] - from[a]) ELSE to[a] - from[a]
HeadAfter(from, to, plan) ==
    [a \in Axis |-> head[a] + Moved(a, Distance(a, from, to, plan))]

\* 10, 1, 0.1 and 0.025 mm are whole steps of Z (400 per mm), the first three
\* of X (80 per mm); of E (93 per mm) 0.1 mm is not.
ASSUME JogAssumption ==
    /\ \A d \in JogDis["X"] : d \in Int /\ Rounded(d) = d
    /\ \A d \in JogDis["Z"] : d \in Int /\ Truncated(d) = d
    /\ \A d \in JogDis["E"] : d \in Int /\ Abs(d) >= MinEChange

(***************************************************************************)
(* CorrectTargetCoordinate.                                                *)
(***************************************************************************)
Remainder(from, to) == (from["Z"] - to["Z"]) - Truncated(from["Z"] - to["Z"])

\* Mutant of CarryOf: the remainder is carried over only below -1.
CarryOneSided(d) == IF d <= -K THEN -K ELSE 0
CarryOf(d) == IF d >= K THEN K ELSE IF d <= -K THEN -K ELSE 0

\* Mutant of CorrectedZ: the step carried over is not added.
CorrectedZUncarried(from, to) ==
    IF from["Z"] # to["Z"] THEN to["Z"] ELSE OldTargetZ
CorrectedZ(from, to) ==
    IF from["Z"] # to["Z"]
      THEN to["Z"] + CarryOf(Deltamm + Remainder(from, to))
      ELSE OldTargetZ

\* Mutant of Corrected: the target itself is stored.
CorrectedNot(from, to) == [to EXCEPT !["Z"] = CorrectedZ(from, to)]
Corrected(from, to) ==
    [a \in Axis |-> IF a = "Z" THEN CorrectedZ(from, to)
                    ELSE from[a] + Rounded(Distance(a, from, to, "PlanLine"))]

\* Mutant of OldTargetAfter: the target is remembered without the carry.
OldTargetUncorrected(from, to) ==
    IF from["Z"] # to["Z"] THEN to["Z"] ELSE OldTargetZ
OldTargetAfter(from, to) ==
    IF from["Z"] # to["Z"] THEN CorrectedZ(from, to) ELSE OldTargetZ

DeltammAfter(from, to) ==
    LET d == Deltamm + Remainder(from, to)
    IN  IF from["Z"] # to["Z"] THEN d - CarryOf(d) ELSE Deltamm

(***************************************************************************)
(* PutMotionCoord, with the coordinates of a G1 that names some axes: the  *)
(* others are filled in from LatestCoord.  A G1 that names E only is a     *)
(* retract.                                                                *)
(***************************************************************************)
InMm(c) == IF MotionUnit = "Inch" THEN [a \in Axis |-> InchMm * c[a]] ELSE c

PutMotionCoord(named, v) ==
    LET from == InMm(LatestCoord)
        to == InMm([a \in Axis |-> IF a \in named THEN v ELSE LatestCoord[a]])
        plan == IF named = {"E"} THEN "PlanRetract" ELSE "PlanLine"
        short == plan = "PlanRetract" /\ Abs(to["E"] - from["E"]) < MinEChange
    IN  /\ head' = HeadAfter(from, to, plan)
        /\ LatestCoord' = Corrected(from, to)
        /\ Deltamm' = DeltammAfter(from, to)
        /\ OldTargetZ' = OldTargetAfter(from, to)
        /\ eOff' = (eOff \/ (from["E"] # to["E"] /\ (FlowApplies \/ short)))
        /\ zSet' = (zSet /\ from["Z"] = to["Z"])
        /\ zOff' = (zOff \/ (zSet /\ from["Z"] = to["Z"]))
        /\ UNCHANGED <<PauseCoord, config, homed, paused>>

(***************************************************************************)
(* SetLatestCoord (G92): the same place gets another name.                 *)
(***************************************************************************)
SetLatestCoord(a, v) ==
    LET named == [LatestCoord EXCEPT ![a] = v]
    IN  /\ LatestCoord' = named
        /\ head' = [head EXCEPT ![a] = @ + InMm(named)[a] - InMm(LatestCoord)[a]]
        /\ zSet' = (zSet \/ a = "Z")
        /\ UNCHANGED <<PauseCoord, Deltamm, OldTargetZ, config, homed, paused, eOff, zOff>>

(***************************************************************************)
(* HandleStepperMoveMsg: a move from the menu, not corrected.              *)
(***************************************************************************)
HandleStepperMoveMsg(a, d) ==
    LET to == [LatestCoord EXCEPT ![a] = @ + d]
    IN  /\ head' = HeadAfter(LatestCoord, to, "PlanLine")
        /\ LatestCoord' = to
        /\ eOff' = (eOff \/ (a = "E" /\ (FlowApplies \/ Rounded(d) # d)))
        /\ zSet' = (zSet \/ a = "Z")
        /\ UNCHANGED <<PauseCoord, Deltamm, OldTargetZ, config, homed, paused, zOff>>

(***************************************************************************)
(* G28 with its options: GcodeG28Exec computes the mark, AutoMoveHome      *)
(* raises Z if asked to and homes the axes of the mark.  The remainder of  *)
(* Z is dropped also when Z is not homed.                                  *)
(***************************************************************************)
HomeMark(opts) == IF opts \cap {"X", "Z"} = {} THEN {"X", "Z"} ELSE opts

AutoMoveHome(mark) ==
    /\ Deltamm' = 0
    /\ IF "O" \in mark /\ homed = {"X", "Z"}
         THEN /\ zOff' = (zOff \/ Deltamm # 0)
              /\ UNCHANGED <<LatestCoord, homed, head, zSet>>
         ELSE /\ homed' = homed \cup (mark \cap {"X", "Z"})
              /\ LatestCoord' = [a \in Axis |-> IF a \in mark THEN 0 ELSE LatestCoord[a]]
              /\ head' = [a \in Axis |-> IF a \in mark THEN 0
                                         ELSE IF a = "Z" /\ "R" \in mark
                                                THEN head[a] + Truncated(RaiseZ)
                                         ELSE head[a]]
              /\ zSet' = (zSet \/ "Z" \in mark)
              /\ zOff' = ("Z" \notin mark /\ (zOff \/ Deltamm # 0 \/ "R" \in mark))
    /\ UNCHANGED <<PauseCoord, OldTargetZ, config, paused, eOff>>

GcodeG28Exec(opts) == AutoMoveHome(HomeMark(opts))

(***************************************************************************)
(* M221: the flow ratio of the lines planned from here on.                 *)
(***************************************************************************)
GcodeM221Exec(ratio) ==
    /\ FlowRatio' = ratio
    /\ UNCHANGED <<LatestCoord, PauseCoord, Deltamm, OldTargetZ, MotionUnit, homed,
                   paused, head, eOff, zSet, zOff>>

(***************************************************************************)
(* SetMotionUnitType (G20, G21); to inches only where this is exact.       *)
(***************************************************************************)
SetMotionUnitType(unit) ==
    /\ MotionUnit # unit
    /\ \/ /\ unit = "Inch"
          /\ \A a \in Axis : LatestCoord[a] % InchMm = 0 /\ PauseCoord[a] % InchMm = 0
          /\ LatestCoord' = [a \in Axis |-> LatestCoord[a] \div InchMm]
          /\ PauseCoord' = [a \in Axis |-> PauseCoord[a] \div InchMm]
       \/ /\ unit = "Millimeter"
          /\ LatestCoord' = [a \in Axis |-> LatestCoord[a] * InchMm]
          /\ PauseCoord' = [a \in Axis |-> PauseCoord[a] * InchMm]
    /\ MotionUnit' = unit
    /\ UNCHANGED <<Deltamm, OldTargetZ, FlowRatio, homed, paused, head, eOff, zSet, zOff>>

(***************************************************************************)
(* MotionPause (M25) and MotionResume (M24).  Every line is planned from   *)
(* the same CurCoordinate, so the lines add up.                            *)
(***************************************************************************)
MotionPause ==
    /\ ~paused
    /\ head' = [head EXCEPT !["E"] = @ + Moved("E", -RetractE),
                            !["Z"] = @ + Truncated(RaiseZ),
                            !["X"] = @ + Rounded(ParkX - LatestCoord["X"])]
    /\ PauseCoord' = LatestCoord
    /\ paused' = TRUE
    /\ UNCHANGED <<LatestCoord, Deltamm, OldTargetZ, config, homed, eOff, zSet, zOff>>

MotionResume ==
    /\ paused
    /\ head' = HeadAfter(PauseCoord, LatestCoord, "PlanRetract")
    /\ paused' = FALSE
    /\ UNCHANGED <<LatestCoord, PauseCoord, Deltamm, OldTargetZ, config, homed, eOff, zSet, zOff>>

(***************************************************************************)
(* Spec: every command.  PrintSpec: all but inches and pauses.             *)
(***************************************************************************)
PrintNext ==
    \/ \E named \in SUBSET Axis \ {{}}, v \in Values : PutMotionCoord(named, v)
    \/ \E a \in Axis, v \in Values : SetLatestCoord(a, v)
    \/ \E a \in Axis : \E d \in JogDis[a] : HandleStepperMoveMsg(a, d)
    \/ \E opts \in SUBSET {"O", "R", "X", "Z"} : GcodeG28Exec(opts)
    \/ \E ratio \in FlowRatios : GcodeM221Exec(ratio)

Next ==
    \/ PrintNext
    \/ \E u \in Unit : SetMotionUnitType(u)
    \/ MotionPause
    \/ MotionResume

Spec == Init /\ [][Next]_vars
PrintSpec == Init /\ [][PrintNext]_vars

-----------------------------------------------------------------------------
\* Every variable has its type: CorrectTargetCoordinate keeps the remainder
\* Deltamm below a step.
TypeOK ==
    /\ LatestCoord \in [Axis -> Int]
    /\ PauseCoord \in [Axis -> Int]
    /\ Deltamm \in -(K - 1) .. (K - 1)
    /\ OldTargetZ \in Int
    /\ MotionUnit \in Unit
    /\ FlowRatio \in Int
    /\ homed \subseteq {"X", "Z"}
    /\ paused \in BOOLEAN
    /\ head \in [Axis -> Int]
    /\ eOff \in BOOLEAN /\ zSet \in BOOLEAN /\ zOff \in BOOLEAN

\* LatestCoord, "the coordinate put into the queue last" (CrMotion.h:220), is
\* where the planned lines take the head, however many moves are added up:
\* exactly for X; exactly for E as long as every E distance was planned as it
\* is, that is, at a flow ratio of 100 percent, in whole steps by the menu and
\* not as a retract below MIN_E_CHANGE; to less than a step for Z, from a
\* homing of Z on until a command puts it off: a move without Z after Z was
\* set otherwise than by a move, a G28 that drops the remainder of Z without
\* homing Z, or the lift of G28 R.
LatestTracksHead ==
    LET c == InMm(LatestCoord)
    IN  /\ head["X"] = c["X"]
        /\ eOff \/ head["E"] = c["E"]
        /\ zOff \/ (-K < head["Z"] - c["Z"] /\ head["Z"] - c["Z"] < K)

\* Unless Z was put off, Deltamm is the whole difference between the two; it
\* is less than a step in any case.
RemainderIsDifference ==
    /\ zOff \/ head["Z"] - LatestCoord["Z"] = Deltamm
    /\ -K < Deltamm /\ Deltamm < K

\* A move that does not name Z never moves Z, and leaves LatestCoord.Z alone
\* unless Z was set by G28, G92 or the menu since the last move of Z, in which
\* case PutMotionCoord stores the Z of that move.
ZKeptByOtherMoves ==
    [][\/ /\ head'["Z"] = head["Z"]
          /\ LatestCoord'["Z"] = IF zSet THEN OldTargetZ ELSE LatestCoord["Z"]
       \/ \A named \in SUBSET {"X", "E"} \ {{}}, v \in Values :
             ~PutMotionCoord(named, v)]_vars

\* "At First X,Y Resume", "Then, Z Axis Resume", "extrude E Axis"
\* (CrMotion.cpp:1301, 1311, 1320): MotionResume brings the head back to
\* where the print goes on, LatestCoord.
ResumeReturns == [][MotionResume => LatestTracksHead']_vars
=============================================================================
