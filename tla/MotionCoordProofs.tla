-------------------------- MODULE MotionCoordProofs --------------------------
(***************************************************************************)
(* LatestCoord follows the head through moves, G92, menu moves, homings    *)
(* and changes of the flow ratio, except where a history variable says     *)
(* that it was put off, for every resolution K and every set of            *)
(* coordinates.                                                            *)
(***************************************************************************)
EXTENDS MotionCoord, TLAPS

\* The inductive invariant.  RemainderIsDifference bounds the error of Z
\* only if OldTargetZ, which an X move copies into LatestCoord, is the Z
\* that is there already, unless Z was set otherwise.
ExactAxes ==
    /\ head["X"] = LatestCoord["X"]
    /\ eOff \/ head["E"] = LatestCoord["E"]
OldTargetCurrent == zSet \/ OldTargetZ = LatestCoord["Z"]
PrintInv ==
    /\ TypeOK
    /\ MotionUnit = "Millimeter"
    /\ ExactAxes
    /\ RemainderIsDifference
    /\ OldTargetCurrent

-----------------------------------------------------------------------------
LEMMA ModRange == \A u \in Nat : u % K \in 0 .. (K - 1)
  BY KAssumption

LEMMA ZeroMod == 0 % K = 0
  BY KAssumption

\* Truncation is odd and drops less than a step.
LEMMA TruncatedFacts ==
    ASSUME NEW u \in Int
    PROVE  /\ Truncated(u) \in Int
           /\ Truncated(-u) = -Truncated(u)
           /\ -K < u - Truncated(u) /\ u - Truncated(u) < K
  <1>1. CASE u > 0
    <2>1. u % K \in 0 .. (K - 1)
      BY <1>1, ModRange
    <2>2. Truncated(u) = u - (u % K) /\ Truncated(-u) = -u + (u % K)
      BY <1>1 DEF Truncated
    <2> QED  BY <2>1, <2>2, KAssumption
  <1>2. CASE u < 0
    <2>1. (-u) % K \in 0 .. (K - 1)
      BY <1>2, ModRange
    <2>2. Truncated(u) = u + ((-u) % K) /\ Truncated(-u) = -u - ((-u) % K)
      BY <1>2 DEF Truncated
    <2> QED  BY <2>1, <2>2, KAssumption
  <1>3. CASE u = 0
    <2>1. Truncated(0) = 0
      BY ZeroMod DEF Truncated
    <2> QED  BY <1>3, <2>1, KAssumption
  <1> QED  BY <1>1, <1>2, <1>3

LEMMA TruncatedZero == Truncated(0) = 0
  BY ZeroMod DEF Truncated

LEMMA RoundedInt == \A u \in Int : Rounded(u) \in Int
  <1>1. K \div 2 \in Int
    BY KAssumption
  <1> QED  BY <1>1, TruncatedFacts DEF Rounded

LEMMA RoundedZero == Rounded(0) = 0
  <1>1. K \div 2 \in 0 .. (K - 1) \/ (K = 1 /\ K \div 2 = 0)
    BY KAssumption
  <1>2. K \div 2 \in 0 .. (K - 1)
    BY <1>1, KAssumption
  <1>3. (K \div 2) % K = K \div 2
    BY <1>2, KAssumption
  <1> QED  BY <1>2, <1>3, KAssumption DEF Rounded, Truncated

\* Whatever the flow ratio, a planned distance is a number of parts of steps.
LEMMA MovedInt ==
    ASSUME FlowRatio \in Int, NEW a \in Axis, NEW u \in Int
    PROVE  Moved(a, u) \in Int
  <1> DEFINE n == 2 * Abs(u) * FlowRatio + 100 * K
             steps == n \div (200 * K)
  <1>1. Abs(u) \in Int
    BY DEF Abs
  <1>2. n \in Int /\ 200 * K \in Nat \ {0}
    BY <1>1, KAssumption
  <1> HIDE DEF n
  <1>3. steps \in Int
    BY <1>2
  <1> HIDE DEF steps
  <1>4. steps * K \in Int /\ -steps * K \in Int
    BY <1>3, KAssumption
  <1>5. Flowed(u) = IF u >= 0 THEN steps * K ELSE -steps * K
    BY DEF Flowed, n, steps
  <1> QED  BY <1>4, <1>5, RoundedInt, TruncatedFacts DEF Moved

LEMMA MovedNothing == FlowRatio \in Int => Moved("E", 0) = 0
  <1> SUFFICES ASSUME FlowRatio \in Int PROVE Moved("E", 0) = 0
    OBVIOUS
  <1>1. CASE FlowApplies
    <2>1. 2 * Abs(0) * FlowRatio + 100 * K = 100 * K
      BY KAssumption DEF Abs
    <2>2. (100 * K) \div (200 * K) = 0
      BY KAssumption
    <2>3. (2 * Abs(0) * FlowRatio + 100 * K) \div (200 * K) = 0
      BY <2>1, <2>2
    <2> QED  BY <1>1, <2>3, KAssumption DEF Moved, Flowed
  <1>2. CASE ~FlowApplies
    BY <1>2, RoundedZero DEF Moved
  <1> QED  BY <1>1, <1>2

LEMMA LongInt == \A u \in Int : Long(u) \in Int
  BY DEF Long

\* Carrying leaves less than a step of anything below two steps.
LEMMA CarryFacts ==
    ASSUME NEW d \in Int, -(2 * K) < d, d < 2 * K
    PROVE  /\ CarryOf(d) \in Int
           /\ -K < d - CarryOf(d) /\ d - CarryOf(d) < K
  BY KAssumption DEF CarryOf

-----------------------------------------------------------------------------
LEMMA InitHolds == Init => PrintInv
  <1> SUFFICES ASSUME Init PROVE PrintInv
    OBVIOUS
  <1>1. Zero \in [Axis -> Int] /\ Zero["X"] = 0 /\ Zero["Z"] = 0 /\ Zero["E"] = 0
    BY DEF Zero, Axis
  <1>2. 0 \in -(K - 1) .. (K - 1) /\ -K < 0 /\ 0 < K
    BY KAssumption
  <1>3. TypeOK
    <2>1. /\ paused \in BOOLEAN /\ homed \subseteq {"X", "Z"} /\ MotionUnit \in Unit
          /\ eOff \in BOOLEAN /\ zSet \in BOOLEAN /\ zOff \in BOOLEAN
      BY Zenon DEF Init, Unit
    <2>2. /\ LatestCoord \in [Axis -> Int] /\ PauseCoord \in [Axis -> Int]
          /\ head \in [Axis -> Int]
      BY <1>1, Zenon DEF Init
    <2>3. OldTargetZ \in Int /\ Deltamm \in -(K - 1) .. (K - 1) /\ FlowRatio \in Int
      BY <1>2 DEF Init
    <2> QED  BY <2>1, <2>2, <2>3, Zenon DEF TypeOK
  <1>4. ExactAxes /\ OldTargetCurrent /\ RemainderIsDifference
    BY <1>1, <1>2 DEF Init, ExactAxes, OldTargetCurrent, RemainderIsDifference
  <1> QED  BY <1>3, <1>4 DEF Init, PrintInv

\* What a move does, named axis by axis: from here on the step only has to
\* be added up.
LEMMA MoveEffect ==
    ASSUME PrintInv, NEW named \in SUBSET Axis, NEW v \in Values, PutMotionCoord(named, v)
    PROVE  /\ PrintInv'
           /\ "Z" \notin named =>
                /\ head'["Z"] = head["Z"]
                /\ LatestCoord'["Z"] = IF zSet THEN OldTargetZ ELSE LatestCoord["Z"]
  <1> DEFINE from == LatestCoord
             to == [a \in Axis |-> IF a \in named THEN v ELSE LatestCoord[a]]
             u == to["Z"] - from["Z"]
             plan == IF named = {"E"} THEN "PlanRetract" ELSE "PlanLine"
             ue == to["E"] - from["E"]
             de == Distance("E", from, to, plan)
             strays == from["E"] # to["E"] /\ (FlowApplies \/ (plan = "PlanRetract" /\ Abs(ue) < MinEChange))
  <1>1. v \in Int
    BY ValuesAssumption
  <1>2. /\ from \in [Axis -> Int] /\ to \in [Axis -> Int] /\ head \in [Axis -> Int]
        /\ FlowRatio \in Int
    BY <1>1 DEF PrintInv, TypeOK
  <1>3. /\ head' = HeadAfter(from, to, plan)
        /\ LatestCoord' = Corrected(from, to)
        /\ Deltamm' = DeltammAfter(from, to)
        /\ OldTargetZ' = OldTargetAfter(from, to)
        /\ eOff' = (eOff \/ strays)
        /\ zSet' = (zSet /\ from["Z"] = to["Z"])
        /\ zOff' = (zOff \/ (zSet /\ from["Z"] = to["Z"]))
        /\ UNCHANGED <<PauseCoord, config, homed, paused>>
    BY DEF PutMotionCoord, InMm, PrintInv
  <1>13. "Z" \notin named => from["Z"] = to["Z"]
    BY <1>2 DEF Axis
  <1> HIDE DEF from, to
  <1>4. /\ u \in Int /\ ue \in Int /\ de \in Int
        /\ to["X"] - from["X"] \in Int
        /\ Long(ue) \in Int
    BY <1>2, LongInt DEF Axis, Distance
  <1>41. /\ Rounded(to["X"] - from["X"]) \in Int
         /\ Rounded(Long(ue)) \in Int
         /\ Moved("E", de) \in Int
    BY <1>2, <1>4, RoundedInt, MovedInt DEF Axis
  <1>5. Truncated(u) \in Int /\ -K < u - Truncated(u) /\ u - Truncated(u) < K
    BY <1>4, TruncatedFacts
  <1>6. Remainder(from, to) = Truncated(u) - u
    <2>1. from["Z"] - to["Z"] = -u
      BY <1>2 DEF Axis
    <2>2. Truncated(-u) = -Truncated(u)
      BY <1>4, TruncatedFacts
    <2> HIDE DEF u
    <2> QED  BY <1>4, <1>5, <2>1, <2>2 DEF Remainder
  <1>7. /\ head' = [a \in Axis |-> head[a] + Moved(a, Distance(a, from, to, plan))]
        /\ LatestCoord' = [a \in Axis |-> IF a = "Z" THEN CorrectedZ(from, to)
                                          ELSE from[a] + Rounded(Distance(a, from, to, "PlanLine"))]
    BY <1>3 DEF HeadAfter, Corrected
  <1>8. /\ head'["X"] = head["X"] + Rounded(to["X"] - from["X"])
        /\ head'["E"] = head["E"] + Moved("E", de)
        /\ head'["Z"] = head["Z"] + Truncated(u)
    BY <1>7 DEF Axis, Moved, Distance
  <1>9. /\ LatestCoord'["X"] = from["X"] + Rounded(to["X"] - from["X"])
        /\ LatestCoord'["E"] = from["E"] + Rounded(Long(ue))
        /\ LatestCoord'["Z"] = CorrectedZ(from, to)
    BY <1>7 DEF Axis, Distance
  <1>10. ExactAxes'
    <2>1. head'["X"] = LatestCoord'["X"]
      BY <1>8, <1>9 DEF ExactAxes, PrintInv, from
    <2>2. ASSUME ~strays PROVE Moved("E", de) = Rounded(Long(ue))
      <3>1. CASE from["E"] = to["E"]
        <4>1. ue = 0
          BY <1>2, <3>1 DEF Axis
        <4>2. de = 0 /\ Long(ue) = 0
          BY <4>1 DEF Distance, Long
        <4>3. Moved("E", 0) = 0
          BY <1>2, MovedNothing
        <4> QED  BY <4>2, <4>3, RoundedZero
      <3>2. CASE from["E"] # to["E"]
        <4>1. ~FlowApplies /\ (plan # "PlanRetract" \/ ~(Abs(ue) < MinEChange))
          BY <2>2, <3>2
        <4>2. de = Long(ue)
          BY <4>1 DEF Distance, Long
        <4> QED  BY <4>1, <4>2 DEF Moved
      <3> QED  BY <3>1, <3>2
    <2>3. eOff' \/ head'["E"] = LatestCoord'["E"]
      <3>1. CASE strays
        BY <1>3, <3>1
      <3>2. CASE ~strays
        <4>1. eOff \/ head["E"] = from["E"]
          BY DEF PrintInv, ExactAxes, from
        <4>2. CASE eOff
          BY <1>3, <4>2
        <4>3. CASE head["E"] = from["E"]
          BY <1>8, <1>9, <2>2, <3>2, <4>3
        <4> QED  BY <4>1, <4>2, <4>3
      <3> QED  BY <3>1, <3>2
    <2> QED  BY <2>1, <2>3 DEF ExactAxes
  <1> HIDE DEF strays, de, ue
  <1>11. /\ RemainderIsDifference'
         /\ OldTargetCurrent'
         /\ CorrectedZ(from, to) \in Int
         /\ OldTargetZ' \in Int
         /\ Deltamm' \in Int
         /\ from["Z"] = to["Z"] =>
              /\ head'["Z"] = head["Z"]
              /\ LatestCoord'["Z"] = IF zSet THEN OldTargetZ ELSE from["Z"]
    <2>0. /\ from["Z"] \in Int /\ to["Z"] \in Int /\ head["Z"] \in Int
          /\ Deltamm \in Int /\ OldTargetZ \in Int
          /\ -K < Deltamm /\ Deltamm < K
      BY <1>2, KAssumption DEF Axis, PrintInv, TypeOK, RemainderIsDifference
    <2>00. /\ zOff \/ head["Z"] - from["Z"] = Deltamm
           /\ zSet \/ OldTargetZ = from["Z"]
      BY DEF PrintInv, RemainderIsDifference, OldTargetCurrent, from
    <2>1. CASE from["Z"] # to["Z"]
      <3> DEFINE d == Deltamm + Remainder(from, to)
      <3>1. d \in Int /\ -(2 * K) < d /\ d < 2 * K /\ d = Deltamm + Truncated(u) - u
        BY <1>4, <1>5, <1>6, <2>0, KAssumption
      <3>2. /\ CarryOf(d) \in Int
            /\ -K < d - CarryOf(d) /\ d - CarryOf(d) < K
        BY <3>1, CarryFacts
      <3>3. /\ CorrectedZ(from, to) = to["Z"] + CarryOf(d)
            /\ Deltamm' = d - CarryOf(d)
            /\ OldTargetZ' = CorrectedZ(from, to)
        BY <1>3, <2>1 DEF CorrectedZ, DeltammAfter, OldTargetAfter
      <3> HIDE DEF d
      <3>4. head["Z"] - from["Z"] = Deltamm => head'["Z"] - LatestCoord'["Z"] = Deltamm'
        BY <1>4, <1>5, <1>8, <1>9, <2>0, <3>1, <3>2, <3>3
      <3>5. zOff' \/ head'["Z"] - LatestCoord'["Z"] = Deltamm'
        BY <1>3, <2>00, <3>4
      <3>6. /\ CorrectedZ(from, to) \in Int /\ Deltamm' \in Int
            /\ -K < Deltamm' /\ Deltamm' < K
        BY <2>0, <3>1, <3>2, <3>3
      <3>7. OldTargetZ' = LatestCoord'["Z"]
        BY <1>9, <3>3
      <3> QED  BY <2>1, <3>3, <3>5, <3>6, <3>7 DEF RemainderIsDifference, OldTargetCurrent
    <2>2. CASE from["Z"] = to["Z"]
      <3>1. u = 0
        BY <2>0, <2>2
      <3>2. Truncated(u) = 0
        BY <3>1, TruncatedZero
      <3>3. /\ CorrectedZ(from, to) = OldTargetZ
            /\ Deltamm' = Deltamm
            /\ OldTargetZ' = OldTargetZ
        BY <1>3, <2>2 DEF CorrectedZ, DeltammAfter, OldTargetAfter
      <3>4. head'["Z"] = head["Z"] /\ LatestCoord'["Z"] = OldTargetZ
        BY <1>8, <1>9, <2>0, <3>2, <3>3
      <3>5. zOff' \/ head'["Z"] - LatestCoord'["Z"] = Deltamm'
        BY <1>3, <2>2, <2>00, <3>3, <3>4
      <3>6. RemainderIsDifference'
        BY <2>0, <3>3, <3>5 DEF RemainderIsDifference
      <3>7. OldTargetCurrent'
        BY <3>3, <3>4 DEF OldTargetCurrent
      <3>8. LatestCoord'["Z"] = IF zSet THEN OldTargetZ ELSE from["Z"]
        BY <2>00, <3>4
      <3> QED  BY <2>0, <3>3, <3>4, <3>6, <3>7, <3>8
    <2> QED  BY <2>1, <2>2
  <1>12. TypeOK'
    <2>1. head' \in [Axis -> Int]
      <3>1. \A a \in Axis : Distance(a, from, to, plan) \in Int
        BY <1>2, LongInt DEF Distance
      <3>2. \A a \in Axis : head[a] + Moved(a, Distance(a, from, to, plan)) \in Int
        BY <1>2, <3>1, MovedInt
      <3> QED  BY <1>7, <3>2
    <2>2. LatestCoord' \in [Axis -> Int]
      <3>1. \A a \in Axis : Distance(a, from, to, "PlanLine") \in Int
        BY <1>2, LongInt DEF Distance
      <3>2. \A a \in Axis : (IF a = "Z" THEN CorrectedZ(from, to)
                             ELSE from[a] + Rounded(Distance(a, from, to, "PlanLine"))) \in Int
        <4>1. \A a \in Axis : /\ from[a] \in Int
                              /\ Rounded(Distance(a, from, to, "PlanLine")) \in Int
          BY <1>2, <3>1, RoundedInt
        <4> QED  BY <1>11, <4>1
      <3> QED  BY <1>7, <3>2
    <2>3. OldTargetZ' \in Int /\ Deltamm' \in -(K - 1) .. (K - 1)
      BY <1>11, KAssumption DEF RemainderIsDifference
    <2>4. eOff' \in BOOLEAN /\ zSet' \in BOOLEAN /\ zOff' \in BOOLEAN
      BY <1>3, Zenon
    <2>5. /\ PauseCoord' \in [Axis -> Int] /\ MotionUnit' \in Unit /\ FlowRatio' \in Int
          /\ homed' \subseteq {"X", "Z"} /\ paused' \in BOOLEAN
      BY <1>3 DEF PrintInv, TypeOK, config
    <2> QED  BY <2>1, <2>2, <2>3, <2>4, <2>5 DEF TypeOK
  <1>14. MotionUnit' = "Millimeter"
    BY <1>3 DEF PrintInv, config
  <1>15. PrintInv'
    BY <1>10, <1>11, <1>12, <1>14 DEF PrintInv
  <1> QED  BY <1>11, <1>13, <1>15 DEF from

LEMMA RenameKeeps ==
    ASSUME PrintInv, NEW b \in Axis, NEW v \in Values, SetLatestCoord(b, v)
    PROVE  PrintInv'
  <1>1. v \in Int
    BY ValuesAssumption
  <1>2. /\ LatestCoord' = [LatestCoord EXCEPT ![b] = v]
        /\ head' = [head EXCEPT ![b] = @ + v - LatestCoord[b]]
        /\ zSet' = (zSet \/ b = "Z")
        /\ UNCHANGED <<PauseCoord, Deltamm, OldTargetZ, config, homed, paused, eOff, zOff>>
    BY DEF SetLatestCoord, InMm, PrintInv, TypeOK
  <1>3. LatestCoord \in [Axis -> Int] /\ head \in [Axis -> Int] /\ Deltamm \in Int
    BY KAssumption DEF PrintInv, TypeOK
  <1>4. /\ head' \in [Axis -> Int] /\ LatestCoord' \in [Axis -> Int]
        /\ \A a \in Axis : head'[a] - LatestCoord'[a] = head[a] - LatestCoord[a]
    BY <1>1, <1>2, <1>3
  <1>5. zSet' \in BOOLEAN
    BY <1>2, Zenon
  <1>6. TypeOK' /\ MotionUnit' = "Millimeter"
    BY <1>2, <1>4, <1>5 DEF PrintInv, TypeOK, config
  <1>7. ExactAxes'
    BY <1>2, <1>3, <1>4 DEF PrintInv, ExactAxes, Axis
  <1>8. RemainderIsDifference'
    BY <1>2, <1>3, <1>4 DEF PrintInv, RemainderIsDifference, Axis
  <1>9. OldTargetCurrent'
    BY <1>2, <1>3 DEF PrintInv, OldTargetCurrent, Axis
  <1> QED  BY <1>6, <1>7, <1>8, <1>9 DEF PrintInv

LEMMA JogKeeps ==
    ASSUME PrintInv, NEW b \in Axis, NEW d \in JogDis[b], HandleStepperMoveMsg(b, d)
    PROVE  PrintInv'
  <1> DEFINE to == [LatestCoord EXCEPT ![b] = @ + d]
             strays == b = "E" /\ (FlowApplies \/ Rounded(d) # d)
  <1>1. /\ d \in Int
        /\ b = "X" => Rounded(d) = d
        /\ b = "Z" => Truncated(d) = d
        /\ b = "E" => Long(d) = d
    <2>1. CASE b = "X"
      BY <2>1, JogAssumption
    <2>2. CASE b = "Z"
      BY <2>2, JogAssumption
    <2>3. CASE b = "E"
      BY <2>3, JogAssumption, DistancesAssumption DEF Abs, Long
    <2> QED  BY <2>1, <2>2, <2>3 DEF Axis
  <1>2. /\ head' = [a \in Axis |-> head[a] + Moved(a, Distance(a, LatestCoord, to, "PlanLine"))]
        /\ LatestCoord' = to
        /\ eOff' = (eOff \/ strays)
        /\ zSet' = (zSet \/ b = "Z")
        /\ UNCHANGED <<PauseCoord, Deltamm, OldTargetZ, config, homed, paused, zOff>>
    BY DEF HandleStepperMoveMsg, HeadAfter
  <1>3. /\ LatestCoord \in [Axis -> Int] /\ head \in [Axis -> Int] /\ Deltamm \in Int
        /\ FlowRatio \in Int
    BY KAssumption DEF PrintInv, TypeOK
  <1>4. to \in [Axis -> Int] /\ to[b] - LatestCoord[b] = d
    BY <1>1, <1>3
  <1>5. \A a \in Axis : a # b => to[a] = LatestCoord[a] /\ to[a] - LatestCoord[a] = 0
    BY <1>3
  <1> HIDE DEF to
  <1>6. \A a \in Axis : Distance(a, LatestCoord, to, "PlanLine") \in Int
    BY <1>3, <1>4, LongInt DEF Distance
  <1>7. head' \in [Axis -> Int]
    <2>1. \A a \in Axis : Moved(a, Distance(a, LatestCoord, to, "PlanLine")) \in Int
      BY <1>3, <1>6, MovedInt
    <2>2. \A a \in Axis : head[a] + Moved(a, Distance(a, LatestCoord, to, "PlanLine")) \in Int
      BY <1>3, <2>1
    <2> QED  BY <1>2, <2>2
  <1>8. /\ head'["X"] = head["X"] + Rounded(to["X"] - LatestCoord["X"])
        /\ head'["Z"] = head["Z"] + Truncated(to["Z"] - LatestCoord["Z"])
        /\ head'["E"] = head["E"] + Moved("E", Long(to["E"] - LatestCoord["E"]))
    BY <1>2 DEF Axis, Moved, Distance
  <1>9. head'["X"] = head["X"] + to["X"] - LatestCoord["X"]
    <2>1. CASE b = "X"
      BY <1>1, <1>3, <1>4, <1>8, <2>1 DEF Axis
    <2>2. CASE b # "X"
      BY <1>3, <1>4, <1>5, <1>8, <2>2, RoundedZero DEF Axis
    <2> QED  BY <2>1, <2>2
  <1>10. head'["Z"] = head["Z"] + to["Z"] - LatestCoord["Z"]
    <2>1. CASE b = "Z"
      BY <1>1, <1>3, <1>4, <1>8, <2>1 DEF Axis
    <2>2. CASE b # "Z"
      BY <1>3, <1>4, <1>5, <1>8, <2>2, TruncatedZero DEF Axis
    <2> QED  BY <2>1, <2>2
  <1>11. strays \/ head'["E"] = head["E"] + to["E"] - LatestCoord["E"]
    <2>1. CASE b = "E"
      <3>1. strays \/ Moved("E", d) = d
        BY <2>1 DEF Moved
      <3>2. head'["E"] = head["E"] + Moved("E", d)
        BY <1>1, <1>4, <1>8, <2>1
      <3> QED  BY <1>1, <1>3, <1>4, <2>1, <3>1, <3>2 DEF Axis
    <2>2. CASE b # "E"
      <3>1. Long(to["E"] - LatestCoord["E"]) = 0
        BY <1>5, <2>2 DEF Long, Axis
      <3>2. head'["E"] = head["E"]
        BY <1>3, <1>8, <3>1, MovedNothing DEF Axis
      <3> QED  BY <1>3, <1>5, <2>2, <3>2 DEF Axis
    <2> QED  BY <2>1, <2>2
  <1> HIDE DEF strays
  <1>12. eOff' \in BOOLEAN /\ zSet' \in BOOLEAN
    BY <1>2, Zenon
  <1>13. TypeOK' /\ MotionUnit' = "Millimeter"
    BY <1>2, <1>4, <1>7, <1>12 DEF PrintInv, TypeOK, config
  <1>14. ExactAxes'
    <2>1. head'["X"] = LatestCoord'["X"]
      <3>1. head["X"] = LatestCoord["X"] /\ LatestCoord["X"] \in Int /\ to["X"] \in Int
        BY <1>3, <1>4 DEF PrintInv, ExactAxes, Axis
      <3> QED  BY <1>2, <1>9, <3>1
    <2>2. CASE eOff \/ strays
      BY <1>2, <2>1, <2>2 DEF ExactAxes
    <2>3. CASE ~eOff /\ ~strays
      <3>1. head["E"] = LatestCoord["E"] /\ LatestCoord["E"] \in Int /\ to["E"] \in Int
        BY <1>3, <1>4, <2>3 DEF PrintInv, ExactAxes, Axis
      <3>2. head'["E"] = LatestCoord'["E"]
        BY <1>2, <1>11, <2>3, <3>1
      <3> QED  BY <2>1, <3>2 DEF ExactAxes
    <2> QED  BY <2>2, <2>3
  <1>15. RemainderIsDifference'
    <2>1. head["Z"] \in Int /\ LatestCoord["Z"] \in Int /\ to["Z"] \in Int
      BY <1>3, <1>4 DEF Axis
    <2>2. head'["Z"] - LatestCoord'["Z"] = head["Z"] - LatestCoord["Z"]
      BY <1>2, <1>10, <2>1
    <2> QED  BY <1>2, <2>2 DEF PrintInv, RemainderIsDifference
  <1>16. OldTargetCurrent'
    BY <1>2, <1>5 DEF PrintInv, OldTargetCurrent, Axis
  <1> QED  BY <1>13, <1>14, <1>15, <1>16 DEF PrintInv

LEMMA HomeKeeps ==
    ASSUME PrintInv, NEW mark \in SUBSET {"O", "R", "X", "Z"}, AutoMoveHome(mark)
    PROVE  PrintInv'
  <1>1. /\ LatestCoord \in [Axis -> Int] /\ head \in [Axis -> Int] /\ Deltamm \in Int
        /\ homed \subseteq {"X", "Z"} /\ PauseCoord \in [Axis -> Int]
        /\ OldTargetZ \in Int /\ MotionUnit = "Millimeter" /\ FlowRatio \in Int
    BY KAssumption DEF PrintInv, TypeOK
  <1>2. 0 \in -(K - 1) .. (K - 1) /\ -K < 0 /\ 0 < K /\ Truncated(RaiseZ) \in Int
    BY KAssumption, DistancesAssumption, TruncatedFacts
  <1>3. /\ Deltamm' = 0
        /\ UNCHANGED <<PauseCoord, OldTargetZ, MotionUnit, FlowRatio, paused, eOff>>
    BY DEF AutoMoveHome, config
  <1>4. CASE "O" \in mark /\ homed = {"X", "Z"}
    <2>1. zOff' = (zOff \/ Deltamm # 0) /\ UNCHANGED <<LatestCoord, homed, head, zSet>>
      BY <1>4 DEF AutoMoveHome
    <2>2. zOff' \in BOOLEAN
      BY <2>1, Zenon
    <2>3. TypeOK'
      BY <1>2, <1>3, <2>1, <2>2 DEF PrintInv, TypeOK
    <2>4. RemainderIsDifference'
      BY <1>2, <1>3, <2>1 DEF PrintInv, RemainderIsDifference
    <2> QED  BY <1>3, <2>1, <2>3, <2>4 DEF PrintInv, ExactAxes, OldTargetCurrent
  <1>5. CASE ~("O" \in mark /\ homed = {"X", "Z"})
    <2>1. /\ homed' = homed \cup (mark \cap {"X", "Z"})
          /\ LatestCoord' = [a \in Axis |-> IF a \in mark THEN 0 ELSE LatestCoord[a]]
          /\ head' = [a \in Axis |-> IF a \in mark THEN 0
                                     ELSE IF a = "Z" /\ "R" \in mark
                                            THEN head[a] + Truncated(RaiseZ)
                                     ELSE head[a]]
          /\ zSet' = (zSet \/ "Z" \in mark)
          /\ zOff' = ("Z" \notin mark /\ (zOff \/ Deltamm # 0 \/ "R" \in mark))
      BY <1>5 DEF AutoMoveHome
    <2>2. zOff' \in BOOLEAN /\ zSet' \in BOOLEAN
      BY <2>1, Zenon
    <2>3. LatestCoord' \in [Axis -> Int] /\ head' \in [Axis -> Int]
      BY <1>1, <1>2, <2>1
    <2>4. TypeOK'
      <3>1. homed' \subseteq {"X", "Z"}
        BY <1>1, <2>1
      <3> QED  BY <1>2, <1>3, <2>2, <2>3, <3>1 DEF PrintInv, TypeOK
    <2>5. ExactAxes'
      BY <1>1, <1>3, <2>1 DEF PrintInv, ExactAxes, Axis
    <2>6. OldTargetCurrent'
      BY <1>3, <2>1 DEF PrintInv, OldTargetCurrent, Axis
    <2>7. RemainderIsDifference'
      <3>1. CASE "Z" \in mark
        BY <1>2, <1>3, <2>1, <3>1 DEF RemainderIsDifference, Axis
      <3>2. CASE "Z" \notin mark
        BY <1>1, <1>2, <1>3, <2>1, <3>2 DEF PrintInv, RemainderIsDifference, Axis
      <3> QED  BY <3>1, <3>2
    <2> QED  BY <1>1, <1>3, <2>4, <2>5, <2>6, <2>7 DEF PrintInv
  <1> QED  BY <1>4, <1>5

LEMMA FlowKeeps ==
    ASSUME PrintInv, NEW ratio \in FlowRatios, GcodeM221Exec(ratio)
    PROVE  PrintInv'
  BY FlowAssumption DEF GcodeM221Exec, PrintInv, TypeOK, ExactAxes, RemainderIsDifference,
     OldTargetCurrent

LEMMA PrintStep == PrintInv /\ [PrintNext]_vars => PrintInv'
  <1> SUFFICES ASSUME PrintInv, [PrintNext]_vars PROVE PrintInv'
    OBVIOUS
  <1>1. ASSUME NEW named \in SUBSET Axis \ {{}}, NEW v \in Values, PutMotionCoord(named, v)
        PROVE  PrintInv'
    BY <1>1, MoveEffect
  <1>2. ASSUME NEW b \in Axis, NEW v \in Values, SetLatestCoord(b, v) PROVE PrintInv'
    BY <1>2, RenameKeeps
  <1>3. ASSUME NEW b \in Axis, NEW d \in JogDis[b], HandleStepperMoveMsg(b, d) PROVE PrintInv'
    BY <1>3, JogKeeps
  <1>4. ASSUME NEW opts \in SUBSET {"O", "R", "X", "Z"}, GcodeG28Exec(opts) PROVE PrintInv'
    <2>1. HomeMark(opts) \in SUBSET {"O", "R", "X", "Z"}
      BY DEF HomeMark
    <2> QED  BY <1>4, <2>1, HomeKeeps DEF GcodeG28Exec
  <1>5. ASSUME NEW ratio \in FlowRatios, GcodeM221Exec(ratio) PROVE PrintInv'
    BY <1>5, FlowKeeps
  <1>6. CASE UNCHANGED vars
    BY <1>6 DEF vars, config, PrintInv, TypeOK, ExactAxes, RemainderIsDifference,
       OldTargetCurrent
  <1> QED  BY <1>1, <1>2, <1>3, <1>4, <1>5, <1>6 DEF PrintNext

LEMMA PrintInvHolds == PrintSpec => []PrintInv
  BY InitHolds, PrintStep, PTL DEF PrintSpec

-----------------------------------------------------------------------------
\* The coordinates PutMotionCoord, G92, the menu moves and the homings leave
\* behind keep their types, Deltamm among them: it never reaches a whole step.
THEOREM TypeCorrect == PrintSpec => []TypeOK
  <1>1. PrintInv => TypeOK
    BY DEF PrintInv
  <1> QED  BY <1>1, PrintInvHolds, PTL

\* Deltamm of CorrectTargetCoordinate is less than one step, and it is the
\* whole difference between the planned lines and LatestCoord until a command
\* puts LatestCoord.Z off, and again after the next homing of Z.
THEOREM RemainderExact == PrintSpec => []RemainderIsDifference
  <1>1. PrintInv => RemainderIsDifference
    BY DEF PrintInv
  <1> QED  BY <1>1, PrintInvHolds, PTL

\* Rounding errors of the moves never add up: LatestCoord stays with the head,
\* exactly in X, exactly in E while E distances are planned as they are, and
\* to less than a step in Z unless a command put LatestCoord.Z off.
THEOREM LatestTracks == PrintSpec => []LatestTracksHead
  <1>1. PrintInv => LatestTracksHead
    BY KAssumption DEF PrintInv, ExactAxes, RemainderIsDifference, LatestTracksHead, InMm,
       TypeOK, Axis
  <1> QED  BY <1>1, PrintInvHolds, PTL

\* A move that names X or E never moves Z.  It leaves LatestCoord.Z alone
\* although PutMotionCoord writes OldTargetZ over it, but for the case that Z
\* was set by G28, G92 or the menu since the last move of Z.
THEOREM ZKept == PrintSpec => ZKeptByOtherMoves
  <1> DEFINE Kept ==
        \/ /\ head'["Z"] = head["Z"]
           /\ LatestCoord'["Z"] = IF zSet THEN OldTargetZ ELSE LatestCoord["Z"]
        \/ \A named \in SUBSET {"X", "E"} \ {{}}, v \in Values :
              ~PutMotionCoord(named, v)
  <1>1. PrintInv => [Kept]_vars
    <2> SUFFICES ASSUME PrintInv,
                        NEW named \in SUBSET {"X", "E"} \ {{}}, NEW v \in Values,
                        PutMotionCoord(named, v)
                 PROVE  /\ head'["Z"] = head["Z"]
                        /\ LatestCoord'["Z"] = IF zSet THEN OldTargetZ ELSE LatestCoord["Z"]
      OBVIOUS
    <2>1. named \in SUBSET Axis /\ "Z" \notin named
      BY DEF Axis
    <2> QED  BY <2>1, MoveEffect
  <1> HIDE DEF Kept
  <1>2. [][Kept]_vars => ZKeptByOtherMoves
    BY DEF Kept, ZKeptByOtherMoves
  <1> QED  BY <1>1, <1>2, PrintInvHolds, PTL
=============================================================================
