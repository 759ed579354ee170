---------------------------- MODULE HomingProofs ----------------------------
(***************************************************************************)
(* Proofs about Homing, for all lengths of the travel and of the moves,    *)
(* any ring, any mixture of working, dead and absent end stops and any     *)
(* moves before the homing.                                                *)
(***************************************************************************)
EXTENDS Homing, TLAPS

-----------------------------------------------------------------------------
(***************************************************************************)
(* The second probe.  Once the steppers have been stopped the ring holds   *)
(* nothing but its two lines, and the axis comes to rest where it was      *)
(* stopped: neither end of the frame is in the way of either line.         *)
(***************************************************************************)
Rest == -Blocked .. Lag
Away(l) == l.axis = axis /\ l.steps > 0
Back(l) == l.axis = axis /\ l.steps < 0

AtStop == pc = "stop" => pos[axis] <= lag
AtBackOff == pc = "backoff" => queue = << >> /\ pos[axis] \in Rest
BackingOff ==
    pc \in {"wait2", "again"} =>
      \/ queue = << >> /\ pos[axis] - Offset \in Rest
      \/ /\ Len(queue) = 1 /\ Away(queue[1])
         /\ (pos[axis] + queue[1].steps) - Offset \in Rest
Returning ==
    pc \in {"wait3", "set"} =>
      \/ queue = << >> /\ pos[axis] \in Rest
      \/ /\ Len(queue) = 1 /\ Back(queue[1])
         /\ pos[axis] + queue[1].steps \in Rest
      \/ /\ Len(queue) = 2 /\ Away(queue[1])
         /\ queue[2].axis = axis /\ queue[2].steps = -Offset
         /\ (pos[axis] + queue[1].steps) - Offset \in Rest

HomeInv == TypeOK /\ AtStop /\ AtBackOff /\ BackingOff /\ Returning

-----------------------------------------------------------------------------
(***************************************************************************)
(* The sum of a function over at most two indices.                         *)
(***************************************************************************)
Chosen(s) == CHOOSE x \in s : TRUE
SumBody(f, T, g) == [s \in SUBSET T |-> IF s = {} THEN 0
                                     ELSE f[Chosen(s)] + g[s \ {Chosen(s)}]]

LEMMA ChosenIn == ASSUME NEW s, s # {} PROVE Chosen(s) \in s
BY DEF Chosen

LEMMA SumUnfold ==
    ASSUME NEW T, NEW f
    PROVE  SumFunctionOnSet(f, T) = (CHOOSE g : g = SumBody(f, T, g))[T]
BY DEF SumFunctionOnSet, FoldFunctionOnSet, MapThenFoldSet, SumBody, Chosen

Part(f, s, k) == IF k \in s THEN f[k] ELSE 0

LEMMA SumOfTwo ==
    ASSUME NEW T \in SUBSET {1, 2}, NEW f, \A k \in T : f[k] \in Int
    PROVE  SumFunctionOnSet(f, T) = Part(f, T, 1) + Part(f, T, 2)
<1> DEFINE w == [s \in SUBSET T |-> Part(f, s, 1) + Part(f, s, 2)]
<1>1. w = SumBody(f, T, w)
  <2>1. ASSUME NEW s \in SUBSET T
        PROVE  w[s] = IF s = {} THEN 0 ELSE f[Chosen(s)] + w[s \ {Chosen(s)}]
    <3>1. CASE s = {}
      BY <3>1 DEF Part
    <3>2. CASE s # {}
      <4>1. Chosen(s) \in s /\ Chosen(s) \in {1, 2} /\ s \ {Chosen(s)} \in SUBSET T
        BY <3>2, ChosenIn
      <4>2. w[s \ {Chosen(s)}] = Part(f, s \ {Chosen(s)}, 1) + Part(f, s \ {Chosen(s)}, 2)
        BY <4>1
      <4>3. \A k \in {1, 2} : Part(f, s, k) \in Int
        BY DEF Part
      <4>4. CASE Chosen(s) = 1
        <5>1. Part(f, s, 1) = f[1] /\ Part(f, s \ {1}, 1) = 0 /\ Part(f, s \ {1}, 2) = Part(f, s, 2)
          BY <4>1, <4>4 DEF Part
        <5> QED
          BY <3>2, <4>1, <4>2, <4>3, <4>4, <5>1
      <4>5. CASE Chosen(s) = 2
        <5>1. Part(f, s, 2) = f[2] /\ Part(f, s \ {2}, 2) = 0 /\ Part(f, s \ {2}, 1) = Part(f, s, 1)
          BY <4>1, <4>5 DEF Part
        <5> QED
          BY <3>2, <4>1, <4>2, <4>3, <4>5, <5>1
      <4> QED
        BY <4>1, <4>4, <4>5
    <3> QED
      BY <3>1, <3>2
  <2> HIDE DEF w
  <2>2. w = [s \in SUBSET T |-> w[s]]
    BY DEF w
  <2> QED
    BY <2>1, <2>2 DEF SumBody
<1> DEFINE g == CHOOSE h : h = SumBody(f, T, h)
<1>2. g = SumBody(f, T, g)
  <2> HIDE DEF w
  <2> QED
    BY <1>1
<1> HIDE DEF g, w
<1>3. ASSUME NEW s \in SUBSET T
      PROVE  g[s] = IF s = {} THEN 0 ELSE f[Chosen(s)] + g[s \ {Chosen(s)}]
  BY <1>2 DEF SumBody
<1>4. g[{}] = 0
  BY <1>3
<1>5. ASSUME NEW x \in T PROVE g[{x}] = f[x]
  <2>1. Chosen({x}) = x /\ {x} \ {x} = {} /\ {x} \in SUBSET T /\ {x} # {}
    BY ChosenIn
  <2>2. g[{x}] = f[x] + g[{}]
    BY <1>3, <2>1
  <2> QED
    BY <1>4, <2>2
<1>6. g[T] = Part(f, T, 1) + Part(f, T, 2)
  <2>1. T = {} \/ T = {1} \/ T = {2} \/ T = {1, 2}
    OBVIOUS
  <2>2. CASE T = {}
    BY <1>4, <2>2 DEF Part
  <2>3. CASE T = {1}
    <3>1. g[{1}] = f[1] /\ f[1] \in Int
      BY <1>5, <2>3
    <3> QED
      BY <2>3, <3>1 DEF Part
  <2>4. CASE T = {2}
    <3>1. g[{2}] = f[2] /\ f[2] \in Int
      BY <1>5, <2>4
    <3> QED
      BY <2>4, <3>1 DEF Part
  <2>5. CASE T = {1, 2}
    <3>1. Chosen(T) \in {1, 2} /\ T # {} /\ T \in SUBSET T
      BY <2>5, ChosenIn
    <3>2. g[T] = f[Chosen(T)] + g[T \ {Chosen(T)}]
      BY <1>3, <3>1
    <3>3. g[{1}] = f[1] /\ g[{2}] = f[2] /\ f[1] \in Int /\ f[2] \in Int
      BY <1>5, <2>5
    <3>4. Part(f, T, 1) = f[1] /\ Part(f, T, 2) = f[2]
      BY <2>5 DEF Part
    <3>5. T \ {1} = {2} /\ T \ {2} = {1}
      BY <2>5
    <3>6. CASE Chosen(T) = 1
      <4>1. g[T] = f[1] + g[{2}]
        BY <3>2, <3>5, <3>6
      <4> QED
        BY <3>3, <3>4, <4>1
    <3>7. CASE Chosen(T) = 2
      <4>1. g[T] = f[2] + g[{1}]
        BY <3>2, <3>5, <3>7
      <4> QED
        BY <3>3, <3>4, <4>1
    <3> QED
      BY <3>1, <3>6, <3>7
  <2> QED
    BY <2>1, <2>2, <2>3, <2>4, <2>5
<1> QED
  BY <1>6, SumUnfold DEF g

-----------------------------------------------------------------------------
(***************************************************************************)
(* Types.                                                                  *)
(***************************************************************************)
LineOf == [axis : Axes, steps : Int \ {0}, begun : BOOLEAN]

LEMMA Sizes ==
    /\ MaxSize \in Nat /\ MaxSize > 0 /\ Offset \in Nat /\ Offset > 0
    /\ Raise \in Nat /\ Raise > 0 /\ Lag \in Nat /\ Lag > 0
    /\ QueueLen \in Nat /\ QueueLen > 0
    /\ Blocked \in Nat /\ Far \in Nat /\ Offset + Lag <= Far
BY SizesAssumption

LEMMA PlanLineTypes ==
    ASSUME TypeOK, NEW a \in Axes, NEW d \in Int \ {0}, PlanLine(a, d)
    PROVE  /\ queue' \in Seq(LineOf) /\ Len(queue') <= QueueLen
           /\ Len(queue') = Len(queue) + 1 /\ Len(queue) \in Nat
           /\ \A i \in 1 .. Len(queue) : queue'[i] = queue[i]
           /\ queue'[Len(queue) + 1].axis = a /\ queue'[Len(queue) + 1].steps = d
<1> DEFINE l == [axis |-> a, steps |-> d, begun |-> FALSE]
<1>1. l \in LineOf /\ l.axis = a /\ l.steps = d
  BY DEF LineOf
<1>2. queue \in Seq(LineOf) /\ Len(queue) \in Nat
  BY DEF TypeOK, LineOf
<1>3. queue' = Append(queue, l) /\ Len(queue) < QueueLen
  BY DEF PlanLine, HasSlot
<1> HIDE DEF l
<1> QED
  BY <1>1, <1>2, <1>3, Sizes

LEMMA LineMoved ==
    ASSUME NEW r \in LineOf, NEW e \in Int, r.steps # e
    PROVE  LET m == [r EXCEPT !.steps = @ - e, !.begun = TRUE]
           IN  m \in LineOf /\ m.axis = r.axis /\ m.steps = r.steps - e
<1> DEFINE u == [r EXCEPT !.steps = r.steps - e]
           m == [u EXCEPT !.begun = TRUE]
<1>1. r.axis \in Axes /\ r.steps - e \in Int \ {0} /\ r.begun \in BOOLEAN
  BY DEF LineOf
<1>2. u \in LineOf /\ u.axis = r.axis /\ u.steps = r.steps - e
  BY <1>1 DEF LineOf
<1>3. m \in LineOf /\ m.axis = r.axis /\ m.steps = r.steps - e
  <2> HIDE DEF u
  <2> QED
    BY <1>2 DEF LineOf
<1> QED
  BY <1>3, Zenon

LEMMA StepFacts ==
    ASSUME TypeOK, Step
    PROVE  /\ queue # << >> /\ Len(queue) > 0 /\ queue[1] \in LineOf
           /\ queue' \in Seq(LineOf) /\ Len(queue') <= Len(queue)
           /\ pos' \in [Axes -> -Blocked .. Far]
           /\ \A a \in Axes : a # queue[1].axis => pos'[a] = pos[a]
           /\ LET l == queue[1]
                  d == Toward(l.steps)
              IN  /\ pos'[l.axis] = IF pos[l.axis] + d \in -Blocked .. Far
                                      THEN pos[l.axis] + d ELSE pos[l.axis]
                  /\ \/ /\ l.steps = d /\ Len(queue') = Len(queue) - 1
                        /\ \A i \in 1 .. Len(queue') : queue'[i] = queue[i + 1]
                     \/ /\ l.steps # d /\ Len(queue') = Len(queue)
                        /\ queue'[1].axis = l.axis /\ queue'[1].steps = l.steps - d
                        /\ \A i \in 2 .. Len(queue) : queue'[i] = queue[i]
<1> DEFINE l == queue[1]
           d == Toward(l.steps)
<1>1. queue \in Seq(LineOf) /\ queue # << >> /\ Len(queue) \in Nat
  BY DEF TypeOK, LineOf, Step
<1>2. Len(queue) > 0 /\ l \in LineOf /\ Head(queue) = l
  BY <1>1
<1>3. l.axis \in Axes /\ l.steps \in Int /\ l.steps # 0 /\ l.begun \in BOOLEAN
  BY <1>2 DEF LineOf
<1>4. d \in {1, -1}
  BY DEF Toward
<1>5. pos' = [pos EXCEPT ![l.axis] = IF @ + d \in -Blocked .. Far THEN @ + d ELSE @]
  BY <1>2 DEF Step
<1>6. queue' = IF l.steps = d THEN Tail(queue)
               ELSE [queue EXCEPT ![1].steps = @ - d, ![1].begun = TRUE]
  BY <1>2 DEF Step
<1> HIDE DEF d
<1>7. /\ pos' \in [Axes -> -Blocked .. Far]
      /\ \A a \in Axes : a # l.axis => pos'[a] = pos[a]
      /\ pos'[l.axis] = IF pos[l.axis] + d \in -Blocked .. Far
                          THEN pos[l.axis] + d ELSE pos[l.axis]
  BY <1>3, <1>4, <1>5, Sizes DEF TypeOK
<1>8. CASE l.steps = d
  <2>1. queue' = Tail(queue)
    BY <1>6, <1>8
  <2>2. /\ queue' \in Seq(LineOf) /\ Len(queue') = Len(queue) - 1
        /\ \A i \in 1 .. Len(queue') : queue'[i] = queue[i + 1]
    BY <1>1, <2>1
  <2> QED
    BY <1>1, <1>2, <1>7, <1>8, <2>2 DEF d
<1>9. CASE l.steps # d
  <2> DEFINE m == [l EXCEPT !.steps = @ - d, !.begun = TRUE]
  <2>1. queue' = [queue EXCEPT ![1] = m]
    BY <1>2, <1>6, <1>9 DEF LineOf
  <2>2. m \in LineOf /\ m.axis = l.axis /\ m.steps = l.steps - d
    <3>1. d \in Int
      BY <1>4
    <3> QED
      BY <1>2, <1>9, <3>1, LineMoved, Zenon
  <2> HIDE DEF m
  <2>3. /\ queue' \in Seq(LineOf) /\ Len(queue') = Len(queue) /\ queue'[1] = m
        /\ \A i \in 2 .. Len(queue) : queue'[i] = queue[i]
    BY <1>1, <1>2, <2>1, <2>2
  <2> QED
    BY <1>1, <1>2, <1>7, <1>9, <2>2, <2>3 DEF d
<1> QED
  BY <1>8, <1>9

LEMMA TypeInit == Init => TypeOK
<1> SUFFICES ASSUME Init PROVE TypeOK
  OBVIOUS
<1>1. pos \in [Axes -> -Blocked .. Far] /\ lag \in 0 .. Lag /\ Len(queue) <= QueueLen
  BY Sizes DEF Init
<1>2. queue \in Seq(LineOf)
  BY DEF Init
<1> QED
  BY <1>1, <1>2, AxesAssumption DEF Init, TypeOK, LineOf

LEMMA TypeNext == ASSUME TypeOK, [Next]_vars PROVE TypeOK'
<1> USE DEF TypeOK
<1>1. ASSUME NEW mark \in SUBSET Axes \ {{}}, NEW lift \in BOOLEAN, AutoMoveHome(mark, lift)
      PROVE  TypeOK'
  BY <1>1, Sizes DEF AutoMoveHome
<1>2. CASE PlanLift
  <2>1. "Z" \in Axes /\ Raise \in Int \ {0}
    BY AxesAssumption, Sizes
  <2>2. PlanLine("Z", Raise)
    BY <1>2 DEF PlanLift
  <2>3. queue' \in Seq(LineOf) /\ Len(queue') <= QueueLen
    BY <2>1, <2>2, PlanLineTypes
  <2> QED
    BY <1>2, <2>3, Sizes DEF PlanLift, LineOf
<1>3. CASE NextHome
  BY <1>3, Sizes DEF NextHome
<1>4. CASE EnableEndStop
  <2>1. pc' \in {"closed?", "next"} /\ lag' \in 0 .. Lag
    BY <1>4, Sizes DEF EnableEndStop
  <2>2. Enable' \in [Axes -> BOOLEAN]
    <3>1. Enable' = Enable \/ Enable' = [Enable EXCEPT ![axis] = TRUE]
      BY <1>4 DEF EnableEndStop
    <3> QED
      BY <3>1
  <2> QED
    BY <1>4, <2>1, <2>2 DEF EnableEndStop
<1>5. CASE ReadStatus
  BY <1>5, Sizes DEF ReadStatus
<1>6. CASE PlanApproach
  <2>1. -MaxSize \in Int \ {0}
    BY Sizes
  <2>2. PlanLine(axis, -MaxSize)
    BY <1>6 DEF PlanApproach
  <2>3. queue' \in Seq(LineOf) /\ Len(queue') <= QueueLen
    BY <2>1, <2>2, PlanLineTypes
  <2> QED
    BY <1>6, <2>3, Sizes DEF PlanApproach, LineOf
<1>7. CASE PlanRetry
  BY <1>7, Sizes DEF PlanRetry
<1>8. CASE WaitApproach
  BY <1>8, Sizes DEF WaitApproach
<1>9. CASE FirstProbe
  BY <1>9, Sizes DEF FirstProbe, AfterFailure
<1>10. CASE StopSteppers
  BY <1>10, Sizes DEF StopSteppers
<1>11. CASE PlanBackOff
  <2>1. Offset \in Int \ {0}
    BY Sizes
  <2>2. PlanLine(axis, Offset)
    BY <1>11 DEF PlanBackOff
  <2>3. queue' \in Seq(LineOf) /\ Len(queue') <= QueueLen
    BY <2>1, <2>2, PlanLineTypes
  <2> QED
    BY <1>11, <2>3, Sizes DEF PlanBackOff, LineOf
<1>12. CASE WaitBackOff
  BY <1>12, Sizes DEF WaitBackOff
<1>13. CASE PlanAgain
  <2>1. -Offset \in Int \ {0}
    BY Sizes
  <2>2. PlanLine(axis, -Offset)
    BY <1>13 DEF PlanAgain
  <2>3. queue' \in Seq(LineOf) /\ Len(queue') <= QueueLen
    BY <2>1, <2>2, PlanLineTypes
  <2> QED
    BY <1>13, <2>3, Sizes DEF PlanAgain, LineOf
<1>14. CASE WaitAgain
  BY <1>14, Sizes DEF WaitAgain
<1>15. CASE SetHome
  BY <1>15, Sizes DEF SetHome
<1>16. CASE Step
  <2>1. lag' \in 0 .. Lag
    BY <1>16, Sizes, SMTT(30) DEF Step
  <2>2. /\ queue' \in Seq(LineOf) /\ Len(queue') <= QueueLen
        /\ pos' \in [Axes -> -Blocked .. Far]
    <3>1. queue' \in Seq(LineOf) /\ Len(queue') <= Len(queue) /\ Len(queue) \in Nat
          /\ pos' \in [Axes -> -Blocked .. Far]
      BY <1>16, StepFacts
    <3> QED
      BY <3>1, Sizes
  <2> QED
    BY <1>16, <2>1, <2>2 DEF Step, LineOf
<1>17. ASSUME NEW j \in Jogs, Jog(j[1], j[2]) PROVE TypeOK'
  <2>1. j[1] \in Axes /\ j[2] \in Int \ {0}
    BY JogsAssumption
  <2> QED
    BY <1>17, <2>1, PlanLineTypes DEF Jog, LineOf
<1>18. CASE UNCHANGED vars
  BY <1>18 DEF vars
<1> HIDE DEF TypeOK
<1> QED
  BY <1>1, <1>2, <1>3, <1>4, <1>5, <1>6, <1>7, <1>8, <1>9, <1>10, <1>11, <1>12, <1>13,
     <1>14, <1>15, <1>16, <1>17, <1>18 DEF Next, MoveHome

\* Every variable has its type: no line is planned into a full ring, and no
\* axis leaves the frame.
THEOREM TypeCorrect == Spec => []TypeOK
BY TypeInit, TypeNext, PTL DEF Spec

-----------------------------------------------------------------------------
(***************************************************************************)
(* The second probe.                                                       *)
(***************************************************************************)
\* Nothing of the second probe is under way outside its own steps.
Elsewhere == pc \notin {"stop", "backoff", "wait2", "again", "wait3", "set"}

LEMMA HomeElsewhere == ASSUME TypeOK', Elsewhere' PROVE HomeInv'
BY DEF Elsewhere, HomeInv, AtStop, AtBackOff, BackingOff, Returning

\* While a line of the second probe is executed, the axis ends where it did.
LEMMA StepAtEnds ==
    ASSUME TypeOK, Step, queue[1].axis = axis,
           pos[axis] + queue[1].steps \in -Blocked .. Far
    PROVE  /\ Len(queue') = Len(queue) - 1 =>
                /\ pos'[axis] = pos[axis] + queue[1].steps
                /\ \A i \in 1 .. Len(queue') : queue'[i] = queue[i + 1]
           /\ Len(queue') = Len(queue) =>
                /\ queue'[1].axis = axis
                /\ pos'[axis] + queue'[1].steps = pos[axis] + queue[1].steps
                /\ queue[1].steps > 0 => queue'[1].steps > 0
                /\ queue[1].steps < 0 => queue'[1].steps < 0
                /\ \A i \in 2 .. Len(queue) : queue'[i] = queue[i]
           /\ Len(queue') \in {Len(queue), Len(queue) - 1} /\ Len(queue) \in Nat
<1>1. axis \in Axes /\ pos[axis] \in -Blocked .. Far /\ pos[axis] \in Int /\ Len(queue) \in Nat
  BY Sizes DEF TypeOK
<1> DEFINE l == queue[1]
           d == Toward(l.steps)
<1>2. l \in LineOf
  BY StepFacts
<1>3. l.steps \in Int /\ l.steps # 0 /\ l.axis = axis
  BY <1>2 DEF LineOf
<1>4. d \in {1, -1} /\ (d = 1 <=> l.steps > 0)
  BY <1>3 DEF Toward
<1>5. /\ pos'[l.axis] = IF pos[l.axis] + d \in -Blocked .. Far
                          THEN pos[l.axis] + d ELSE pos[l.axis]
      /\ \/ /\ l.steps = d /\ Len(queue') = Len(queue) - 1
            /\ \A i \in 1 .. Len(queue') : queue'[i] = queue[i + 1]
         \/ /\ l.steps # d /\ Len(queue') = Len(queue)
            /\ queue'[1].axis = l.axis /\ queue'[1].steps = l.steps - d
            /\ \A i \in 2 .. Len(queue) : queue'[i] = queue[i]
  BY StepFacts
<1>6. pos[axis] + l.steps \in -Blocked .. Far
  OBVIOUS
<1> HIDE DEF l, d
<1>7. pos[axis] + d \in -Blocked .. Far
  BY <1>1, <1>3, <1>4, <1>6, Sizes, SMTT(30)
<1>8. pos'[axis] = pos[axis] + d
  BY <1>3, <1>5, <1>7
<1>9. CASE l.steps = d
  BY <1>1, <1>3, <1>5, <1>8, <1>9 DEF l
<1>10. CASE l.steps # d
  <2>1. /\ Len(queue') = Len(queue) /\ queue'[1].axis = axis /\ queue'[1].steps = l.steps - d
        /\ \A i \in 2 .. Len(queue) : queue'[i] = queue[i]
    BY <1>3, <1>5, <1>10
  <2>2. pos'[axis] + queue'[1].steps = pos[axis] + l.steps
    BY <1>1, <1>3, <1>4, <1>8, <2>1, SMTT(30)
  <2>3. /\ l.steps > 0 => queue'[1].steps > 0
        /\ l.steps < 0 => queue'[1].steps < 0
    BY <1>3, <1>4, <1>10, <2>1
  <2> QED
    BY <1>1, <2>1, <2>2, <2>3 DEF l
<1> QED
  BY <1>9, <1>10

LEMMA RestInside ==
    ASSUME NEW x \in Int, x - Offset \in Rest
    PROVE  x \in -Blocked .. Far
BY Sizes DEF Rest

LEMMA HomeStep == ASSUME HomeInv, Step PROVE HomeInv'
<1>1. TypeOK /\ TypeOK'
  BY TypeNext DEF HomeInv, Next
<1>2. pc' = pc /\ axis' = axis /\ queue # << >>
  BY DEF Step
<1>3. /\ axis \in Axes /\ pos[axis] \in -Blocked .. Far /\ lag \in 0 .. Lag
      /\ pos'[axis] \in -Blocked .. Far /\ Len(queue') \in Nat /\ queue' \in Seq(LineOf)
      /\ pos[axis] \in Int
  BY <1>1, <1>2, Sizes DEF TypeOK, LineOf
<1>4. AtStop'
  <2> SUFFICES ASSUME pc = "stop" PROVE pos'[axis] <= lag'
    BY <1>2 DEF AtStop
  <2>1. lag' = lag + 1 /\ pos[axis] <= lag
    BY DEF Step, HomeInv, AtStop
  <2>2. pos'[axis] <= pos[axis] + 1
    <3>1. \A a \in Axes : a # queue[1].axis => pos'[a] = pos[a]
      BY <1>1, StepFacts
    <3>2. queue[1] \in LineOf
      BY <1>1, StepFacts
    <3>3. Toward(queue[1].steps) \in {1, -1}
      BY DEF Toward
    <3>4. pos'[queue[1].axis] \in {pos[queue[1].axis] + Toward(queue[1].steps),
                                   pos[queue[1].axis]}
      BY <1>1, StepFacts
    <3>5. CASE axis = queue[1].axis
      BY <1>3, <3>3, <3>4, <3>5, Sizes
    <3>6. CASE axis # queue[1].axis
      BY <1>3, <3>1, <3>6, Sizes
    <3> QED
      BY <3>5, <3>6
  <2> QED
    BY <1>3, <2>1, <2>2, Sizes
<1>5. AtBackOff'
  BY <1>2 DEF HomeInv, AtBackOff
<1>6. BackingOff'
  <2> SUFFICES ASSUME pc \in {"wait2", "again"}
               PROVE  \/ queue' = << >> /\ pos'[axis] - Offset \in Rest
                      \/ /\ Len(queue') = 1 /\ queue'[1].axis = axis /\ queue'[1].steps > 0
                         /\ (pos'[axis] + queue'[1].steps) - Offset \in Rest
    BY <1>2 DEF BackingOff, Away
  <2>1. /\ Len(queue) = 1 /\ queue[1].axis = axis /\ queue[1].steps > 0
        /\ (pos[axis] + queue[1].steps) - Offset \in Rest
    BY <1>2 DEF HomeInv, BackingOff, Away
  <2>2. queue[1].steps \in Int
    BY <1>1, StepFacts DEF LineOf
  <2>3. pos[axis] + queue[1].steps \in -Blocked .. Far
    <3>1. pos[axis] + queue[1].steps \in Int
      BY <1>3, <2>2
    <3> QED
      BY <2>1, <3>1, RestInside
  <2>4. \/ Len(queue') = 0 /\ pos'[axis] = pos[axis] + queue[1].steps
        \/ /\ Len(queue') = 1 /\ queue'[1].axis = axis /\ queue'[1].steps > 0
           /\ pos'[axis] + queue'[1].steps = pos[axis] + queue[1].steps
    BY <1>1, <2>1, <2>3, StepAtEnds
  <2>5. Len(queue') = 0 => queue' = << >>
    BY <1>3
  <2>6. CASE Len(queue') = 0 /\ pos'[axis] = pos[axis] + queue[1].steps
    BY <2>1, <2>5, <2>6
  <2>7. CASE /\ Len(queue') = 1 /\ queue'[1].axis = axis /\ queue'[1].steps > 0
             /\ pos'[axis] + queue'[1].steps = pos[axis] + queue[1].steps
    <3>1. (pos'[axis] + queue'[1].steps) - Offset \in Rest
      BY <2>1, <2>7
    <3> QED
      BY <2>7, <3>1
  <2> QED
    BY <2>4, <2>6, <2>7
<1>7. Returning'
  <2> SUFFICES ASSUME pc \in {"wait3", "set"}
               PROVE  \/ queue' = << >> /\ pos'[axis] \in Rest
                      \/ /\ Len(queue') = 1 /\ queue'[1].axis = axis /\ queue'[1].steps < 0
                         /\ pos'[axis] + queue'[1].steps \in Rest
                      \/ /\ Len(queue') = 2 /\ queue'[1].axis = axis /\ queue'[1].steps > 0
                         /\ queue'[2].axis = axis /\ queue'[2].steps = -Offset
                         /\ (pos'[axis] + queue'[1].steps) - Offset \in Rest
    BY <1>2 DEF Returning, Away, Back
  <2>1. queue[1].steps \in Int
    BY <1>1, StepFacts DEF LineOf
  <2>2. Len(queue') = 0 => queue' = << >>
    BY <1>3
  <2>3. CASE /\ Len(queue) = 1 /\ queue[1].axis = axis /\ queue[1].steps < 0
             /\ pos[axis] + queue[1].steps \in Rest
    <3>1. pos[axis] + queue[1].steps \in -Blocked .. Far
      BY <1>3, <2>1, <2>3, Sizes DEF Rest
    <3>2. \/ Len(queue') = 0 /\ pos'[axis] = pos[axis] + queue[1].steps
          \/ /\ Len(queue') = 1 /\ queue'[1].axis = axis /\ queue'[1].steps < 0
             /\ pos'[axis] + queue'[1].steps = pos[axis] + queue[1].steps
      BY <1>1, <2>3, <3>1, StepAtEnds
    <3> QED
      BY <2>2, <2>3, <3>2
  <2>4. CASE /\ Len(queue) = 2 /\ queue[1].axis = axis /\ queue[1].steps > 0
             /\ queue[2].axis = axis /\ queue[2].steps = -Offset
             /\ (pos[axis] + queue[1].steps) - Offset \in Rest
    <3>1. pos[axis] + queue[1].steps \in -Blocked .. Far
      <4>1. pos[axis] + queue[1].steps \in Int
        BY <1>3, <2>1
      <4> QED
        BY <2>4, <4>1, RestInside
    <3>2. \/ /\ Len(queue') = 1 /\ pos'[axis] = pos[axis] + queue[1].steps
             /\ queue'[1] = queue[2]
          \/ /\ Len(queue') = 2 /\ queue'[1].axis = axis /\ queue'[1].steps > 0
             /\ pos'[axis] + queue'[1].steps = pos[axis] + queue[1].steps
             /\ queue'[2] = queue[2]
      BY <1>1, <2>4, <3>1, StepAtEnds
    <3>3. ASSUME Len(queue') = 1, pos'[axis] = pos[axis] + queue[1].steps, queue'[1] = queue[2]
          PROVE  /\ Len(queue') = 1 /\ queue'[1].axis = axis /\ queue'[1].steps < 0
                 /\ pos'[axis] + queue'[1].steps \in Rest
      <4>1. queue'[1].axis = axis /\ queue'[1].steps = -Offset /\ -Offset < 0
        BY <2>4, <3>3, Sizes
      <4>2. pos'[axis] + (-Offset) = (pos[axis] + queue[1].steps) - Offset
        BY <1>3, <2>1, <3>3, Sizes
      <4> QED
        BY <2>4, <3>3, <4>1, <4>2
    <3>4. ASSUME pos'[axis] + queue'[1].steps = pos[axis] + queue[1].steps
          PROVE  (pos'[axis] + queue'[1].steps) - Offset \in Rest
      BY <2>4, <3>4
    <3> QED
      BY <2>4, <3>2, <3>3, <3>4
  <2> QED
    BY <1>2, <2>3, <2>4 DEF HomeInv, Returning, Away, Back
<1> QED
  BY <1>1, <1>4, <1>5, <1>6, <1>7 DEF HomeInv

LEMMA HomeThread == ASSUME HomeInv, MoveHome PROVE HomeInv'
<1>1. TypeOK /\ TypeOK'
  BY TypeNext DEF HomeInv, Next
<1>2. CASE PlanLift \/ NextHome \/ EnableEndStop \/ ReadStatus \/ PlanApproach \/ WaitApproach
           \/ SetHome
  <2>1. Elsewhere'
    BY <1>2 DEF PlanLift, NextHome, EnableEndStop, ReadStatus, PlanApproach, WaitApproach,
                SetHome, Elsewhere
  <2> QED
    BY <1>1, <2>1, HomeElsewhere
<1>3. axis \in Axes /\ pos[axis] \in -Blocked .. Far /\ lag \in 0 .. Lag /\ Len(queue) \in Nat
  BY <1>1 DEF TypeOK
<1> USE DEF HomeInv, AtStop, AtBackOff, BackingOff, Returning
<1>4. CASE FirstProbe
  <2>1. /\ pc' \in {"stop", "next"} /\ lag' = 0 /\ axis' = axis /\ pos' = pos
        /\ pc' = "stop" => pos[axis] <= 0
    BY <1>4 DEF FirstProbe, FirstFound, AfterFailure, Closed
  <2> QED
    BY <1>1, <2>1
<1>5. CASE StopSteppers
  <2>1. /\ pc' = "backoff" /\ queue' = << >> /\ axis' = axis /\ pos' = pos
        /\ pos[axis] <= lag
    BY <1>5 DEF StopSteppers
  <2>2. pos[axis] \in Rest
    BY <1>3, <2>1, Sizes DEF Rest
  <2> QED
    BY <1>1, <2>1, <2>2
<1>6. CASE PlanBackOff
  <2>1. /\ pc' = "wait2" /\ axis' = axis /\ pos' = pos /\ queue = << >> /\ pos[axis] \in Rest
        /\ PlanLine(axis, Offset)
    BY <1>6 DEF PlanBackOff
  <2>2. Offset \in Int \ {0} /\ Offset > 0
    BY Sizes
  <2>3. Len(queue') = 1 /\ queue'[1].axis = axis /\ queue'[1].steps = Offset
    BY <1>1, <1>3, <2>1, <2>2, PlanLineTypes
  <2>4. (pos[axis] + Offset) - Offset = pos[axis]
    BY <1>3, <2>2
  <2> QED
    BY <1>1, <2>1, <2>2, <2>3, <2>4 DEF Away
<1>7. CASE WaitBackOff
  <2>1. /\ pc = "wait2" /\ pc' \in {"wait2", "again"}
        /\ UNCHANGED <<queue, pos, axis>>
    BY <1>7 DEF WaitBackOff
  <2> QED
    BY <1>1, <2>1 DEF Away
<1>8. CASE PlanAgain
  <2>1. pc = "again" /\ pc' = "wait3" /\ axis' = axis /\ pos' = pos /\ PlanLine(axis, -Offset)
    BY <1>8 DEF PlanAgain
  <2>2. -Offset \in Int \ {0} /\ -Offset < 0
    BY Sizes
  <2>3. /\ Len(queue') = Len(queue) + 1 /\ \A i \in 1 .. Len(queue) : queue'[i] = queue[i]
        /\ queue'[Len(queue) + 1].axis = axis /\ queue'[Len(queue) + 1].steps = -Offset
    BY <1>1, <1>3, <2>1, <2>2, PlanLineTypes
  <2>4. CASE queue = << >> /\ pos[axis] - Offset \in Rest
    <3>1. Len(queue') = 1 /\ queue'[1].axis = axis /\ queue'[1].steps = -Offset
      BY <2>3, <2>4
    <3>2. pos[axis] + (-Offset) = pos[axis] - Offset
      BY <1>3, Sizes
    <3> QED
      BY <1>1, <2>1, <2>2, <2>4, <3>1, <3>2 DEF Back
  <2>5. CASE /\ Len(queue) = 1 /\ Away(queue[1])
             /\ (pos[axis] + queue[1].steps) - Offset \in Rest
    <3>1. /\ Len(queue') = 2 /\ queue'[1] = queue[1]
          /\ queue'[2].axis = axis /\ queue'[2].steps = -Offset
      BY <2>3, <2>5
    <3> QED
      BY <1>1, <2>1, <2>5, <3>1 DEF Away
  <2> QED
    BY <2>1, <2>4, <2>5
<1>9. CASE WaitAgain
  <2>1. /\ pc = "wait3" /\ pc' \in {"wait3", "set"}
        /\ UNCHANGED <<queue, pos, axis>>
    BY <1>9 DEF WaitAgain
  <2> QED
    BY <1>1, <2>1 DEF Away, Back
<1>10. CASE PlanRetry
  <2>1. UNCHANGED <<queue, pos, axis, pc>> /\ pc # "stop"
    BY <1>10 DEF PlanRetry
  <2> QED
    BY <1>1, <2>1 DEF Away, Back
<1> HIDE DEF HomeInv, AtStop, AtBackOff, BackingOff, Returning
<1> QED
  BY <1>2, <1>4, <1>5, <1>6, <1>7, <1>8, <1>9, <1>10 DEF MoveHome

LEMMA HomeNext == ASSUME HomeInv, [Next]_vars PROVE HomeInv'
<1>1. TypeOK'
  BY TypeNext DEF HomeInv
<1>2. ASSUME NEW mark \in SUBSET Axes \ {{}}, NEW lift \in BOOLEAN, AutoMoveHome(mark, lift)
      PROVE  HomeInv'
  BY <1>1, <1>2, HomeElsewhere DEF AutoMoveHome, Elsewhere
<1>3. ASSUME NEW j \in Jogs, Jog(j[1], j[2]) PROVE HomeInv'
  BY <1>1, <1>3, HomeElsewhere DEF Jog, Elsewhere
<1>4. CASE UNCHANGED vars
  BY <1>1, <1>4 DEF vars, HomeInv, AtStop, AtBackOff, BackingOff, Returning, Away, Back
<1> QED
  BY <1>2, <1>3, <1>4, HomeThread, HomeStep DEF Next

LEMMA EndsAtRest == HomeInv => EndsAtSwitch
<1> SUFFICES ASSUME HomeInv, pc = "set" PROVE Ends(axis) \in Rest
  BY DEF EndsAtSwitch, Rest
<1> DEFINE f == [k \in DOMAIN queue |-> IF queue[k].axis = axis THEN queue[k].steps ELSE 0]
<1>1. /\ queue \in Seq(LineOf) /\ Len(queue) \in 0 .. 2 /\ DOMAIN queue = 1 .. Len(queue)
      /\ axis \in Axes /\ pos[axis] \in Int
  BY Sizes DEF HomeInv, TypeOK, Returning, LineOf
<1>2. \A k \in DOMAIN queue : queue[k].steps \in Int
  <2>1. \A k \in DOMAIN queue : queue[k] \in LineOf
    BY <1>1
  <2> QED
    BY <2>1 DEF LineOf
<1>3. DOMAIN f = DOMAIN queue /\ \A k \in DOMAIN queue : f[k] \in Int
  BY <1>2
<1>4. DOMAIN queue \in SUBSET {1, 2}
  BY <1>1
<1>5. SumFunction(f) = Part(f, DOMAIN queue, 1) + Part(f, DOMAIN queue, 2)
  <2> HIDE DEF f
  <2> QED
    BY <1>3, <1>4, SumOfTwo DEF SumFunction
<1>6. Ends(axis) = pos[axis] + (Part(f, DOMAIN queue, 1) + Part(f, DOMAIN queue, 2))
  BY <1>5 DEF Ends
<1>7. CASE queue = << >> /\ pos[axis] \in Rest
  <2>1. Part(f, DOMAIN queue, 1) = 0 /\ Part(f, DOMAIN queue, 2) = 0
    BY <1>7 DEF Part
  <2> QED
    BY <1>1, <1>6, <1>7, <2>1
<1>8. CASE Len(queue) = 1 /\ Back(queue[1]) /\ pos[axis] + queue[1].steps \in Rest
  <2>1. Part(f, DOMAIN queue, 1) = queue[1].steps /\ Part(f, DOMAIN queue, 2) = 0
    BY <1>1, <1>8 DEF Part, Back
  <2> QED
    BY <1>1, <1>2, <1>6, <1>8, <2>1
<1>9. CASE /\ Len(queue) = 2 /\ Away(queue[1])
           /\ queue[2].axis = axis /\ queue[2].steps = -Offset
           /\ (pos[axis] + queue[1].steps) - Offset \in Rest
  <2>1. Part(f, DOMAIN queue, 1) = queue[1].steps /\ Part(f, DOMAIN queue, 2) = -Offset
    BY <1>1, <1>9 DEF Part, Away
  <2>2. queue[1].steps \in Int /\ Offset \in Int
    BY <1>1, <1>2, <1>9, Sizes
  <2>3. pos[axis] + (queue[1].steps + (-Offset)) = (pos[axis] + queue[1].steps) - Offset
    BY <1>1, <2>2
  <2> QED
    BY <1>6, <1>9, <2>1, <2>3
<1> QED
  BY <1>7, <1>8, <1>9 DEF HomeInv, Returning

\* An axis reported as homed comes to rest at its switch, at most Lag steps from
\* it, whatever IsMotionComplete answered, whichever switch was polled and
\* whatever was being executed when the homing began.
THEOREM HomedAxisEndsAtSwitch == Spec => []EndsAtSwitch
<1>1. Init => HomeInv
  BY TypeInit DEF Init, HomeInv, AtStop, AtBackOff, BackingOff, Returning
<1> QED
  BY <1>1, HomeNext, EndsAtRest, PTL DEF Spec
=============================================================================
