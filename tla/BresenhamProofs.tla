-------------------------- MODULE BresenhamProofs --------------------------
(***************************************************************************)
(* Proofs about Bresenham, for every number of axes and every line: the    *)
(* error accumulators hand out exactly the planned steps, and none of them *)
(* is lost on its way to the motor.                                        *)
(***************************************************************************)
EXTENDS Bresenham, TLAPS, WellFoundedInduction

-----------------------------------------------------------------------------
(***************************************************************************)
(* Induction over the natural numbers, from the well-foundedness of <: a   *)
(* set that has 0 and with n also n + 1 has every natural number.          *)
(***************************************************************************)
LEMMA LeastOf ==
    ASSUME NEW T \in SUBSET Nat, T # {}
    PROVE  \E x \in T : \A y \in T : x <= y
<1> DEFINE R == OpToRel(<, Nat)
<1>1. IsWellFoundedOn(R, Nat)
  BY NatLessThanWellFounded
<1>2. \A x, y \in Nat : y < x => <<y, x>> \in R
  BY DEF OpToRel
<1> HIDE DEF R
<1>3. PICK x \in T : \A y \in T : ~ (<<y, x>> \in R)
  BY <1>1, WFMin
<1>4. \A y \in T : x \in Nat /\ y \in Nat /\ ~ (y < x)
  BY <1>2, <1>3
<1>5. \A y \in T : x <= y
  BY <1>4
<1> QED
  BY <1>3, <1>5

LEMMA Everyone ==
    ASSUME NEW S, 0 \in S, \A n \in Nat : n \in S => n + 1 \in S
    PROVE  Nat \subseteq S
<1> DEFINE T == {n \in Nat : n \notin S}
<1>1. CASE T # {}
  <2>1. PICK x \in T : \A y \in T : x <= y
    BY <1>1, LeastOf
  <2>2. x - 1 \in Nat /\ x - 1 \notin T
    BY <2>1
  <2> QED
    BY <2>1, <2>2
<1> QED
  BY <1>1

-----------------------------------------------------------------------------
(***************************************************************************)
(* Arithmetic of one axis.  M: steps of the longest axis; s: steps of this *)
(* axis; k: steps counted so far; c: pulses given so far; e: NewDeltaErr.  *)
(***************************************************************************)
OnTrack(M, s, k, c, e) ==
    /\ e = 2 * (s * k) - M - 2 * (M * c)
    /\ -2 * M <= e
    /\ e < 0

LEMMA MulNext ==
    ASSUME NEW a \in Int, NEW b \in Int
    PROVE  a * (b + 1) = a * b + a
OBVIOUS

\* A product below M has a factor below 1.
LEMMA MulPositive ==
    ASSUME NEW M \in Nat, M > 0, NEW x \in Int
    PROVE  /\ M * x < M => x < 1
           /\ M * x > -M => x > -1
<1>1. x >= 1 => M * x >= M
  BY SMT
<1>2. x <= -1 => M * x <= -M
  BY SMT
<1> QED
  BY <1>1, <1>2

\* While steps remain to be counted, one more pass through BresenhamCalc
\* keeps the axis on track, and the limit on its pulses does not bite.
LEMMA OnTrackStep ==
    ASSUME NEW M \in Nat, M > 0, NEW s \in Nat, s <= M,
           NEW k \in Nat, k < M, NEW c \in Nat, NEW e \in Int,
           OnTrack(M, s, k, c, e)
    PROVE  /\ e + 2 * s >= 0 => c < s
           /\ e + 2 * s >= 0 => OnTrack(M, s, k + 1, c + 1, e + 2 * s - 2 * M)
           /\ e + 2 * s < 0 => OnTrack(M, s, k + 1, c, e + 2 * s)
<1>1. s * (k + 1) = s * k + s /\ M * (c + 1) = M * c + M
  BY MulNext
<1>2. s * k \in Int /\ M * c \in Int /\ s * (k + 1) \in Int /\ M * (c + 1) \in Int
  OBVIOUS
<1>3. e + 2 * s >= 0 => OnTrack(M, s, k + 1, c + 1, e + 2 * s - 2 * M)
  BY <1>1, <1>2 DEF OnTrack
<1>4. e + 2 * s < 0 => OnTrack(M, s, k + 1, c, e + 2 * s)
  BY <1>1, <1>2 DEF OnTrack
<1>5. ASSUME e + 2 * s >= 0 PROVE c < s
  <2>1. s * (k + 1) <= M * s
    <3>1. k + 1 <= M
      OBVIOUS
    <3>2. s * (k + 1) <= s * M
      BY <3>1, SMT
    <3> QED
      BY <3>2
  <2>2. 2 * (M * c) <= 2 * (M * s) - M
    BY <1>1, <1>2, <1>5, <2>1 DEF OnTrack
  <2>3. M * (c - s) = M * c - M * s
    OBVIOUS
  <2>4. M * c \in Int /\ M * s \in Int
    OBVIOUS
  <2>5. M * (c - s) < 0
    BY <2>2, <2>3, <2>4
  <2>6. c - s >= 0 => M * (c - s) >= 0
    BY SMT
  <2> QED
    BY <2>5, <2>6
<1> QED
  BY <1>3, <1>4, <1>5

\* When all steps are counted, the axis got all its pulses.
LEMMA OnTrackEnd ==
    ASSUME NEW M \in Nat, M > 0, NEW s \in Nat, NEW c \in Nat, NEW e \in Int,
           OnTrack(M, s, M, c, e)
    PROVE  c = s
<1>1. M * (s - c) = s * M - M * c
  OBVIOUS
<1>2. s * M \in Int /\ M * c \in Int
  OBVIOUS
<1>3. M * (s - c) < M /\ M * (s - c) > -M
  BY <1>1, <1>2 DEF OnTrack
<1>4. s - c \in Int
  OBVIOUS
<1>5. s - c < 1 /\ s - c > -1
  BY <1>3, <1>4, MulPositive
<1> QED
  BY <1>5

-----------------------------------------------------------------------------
(***************************************************************************)
(* The inductive invariant.  Between two passes of the loop every axis of  *)
(* a usable line is on track for the steps counted so far; that needs the  *)
(* longest axis to be the longest, and this in turn needs the local        *)
(* MaxSteps to be 0 whenever a line is about to be taken.                  *)
(***************************************************************************)
Counting ==
    /\ StepsCount <= TotalSteps
    /\ Status # "DECELERATE" => StepsCount < TotalSteps
    /\ \A i \in Axis : OnTrack(TotalSteps, line.Steps[i], StepsCount,
                               AxisStepsCnt[i], NewDeltaErr[i])

Control ==
    /\ pc = "loop" /\ ~Usable => MaxSteps = 0
    /\ pc = "write" => Usable /\ LoopIndex < MotionNum

Divisor == Usable => TotalSteps > 0 /\ NewDevision = 2 * TotalSteps

IInv ==
    /\ TypeOK
    /\ Control
    /\ LongestAxisFound
    /\ Divisor
    /\ Usable /\ Status # "STOP" => Counting
    /\ LineDoneExact

-----------------------------------------------------------------------------
\* Some axis among the first n + 1 has the most steps; by induction over n.
LEMMA MaximumExists ==
    ASSUME NEW f \in [Axis -> Nat]
    PROVE  \E i \in Axis : \A j \in Axis : f[j] <= f[i]
<1> DEFINE S == {n \in Nat : n + 1 <= AxisNum =>
                   \E i \in 1 .. n + 1 : \A j \in 1 .. n + 1 : f[j] <= f[i]}
<1>0. AxisNum \in Nat /\ AxisNum > 0 /\ \A i \in 1 .. AxisNum : f[i] \in Nat
  BY AxisNumAssumption DEF Axis
<1>1. 0 \in S
  BY <1>0
<1>2. ASSUME NEW n \in Nat, n \in S PROVE n + 1 \in S
  <2> SUFFICES ASSUME (n + 1) + 1 <= AxisNum
               PROVE  \E i \in 1 .. (n + 1) + 1 : \A j \in 1 .. (n + 1) + 1 : f[j] <= f[i]
    OBVIOUS
  <2>1. PICK i \in 1 .. n + 1 : \A j \in 1 .. n + 1 : f[j] <= f[i]
    BY <1>0, <1>2
  <2>2. f[i] \in Nat /\ f[n + 2] \in Nat /\ \A j \in 1 .. n + 1 : f[j] \in Nat
    BY <1>0
  <2>3. \A j \in 1 .. (n + 1) + 1 : j \in 1 .. n + 1 \/ j = n + 2
    OBVIOUS
  <2>4. CASE f[n + 2] <= f[i]
    <3>1. i \in 1 .. (n + 1) + 1 /\ \A j \in 1 .. (n + 1) + 1 : f[j] <= f[i]
      BY <2>1, <2>3, <2>4
    <3> QED
      BY <3>1
  <2>5. CASE f[i] < f[n + 2]
    <3>1. \A j \in 1 .. n + 1 : f[j] <= f[n + 2]
      BY <2>1, <2>2, <2>5
    <3>2. n + 2 \in 1 .. (n + 1) + 1 /\ \A j \in 1 .. (n + 1) + 1 : f[j] <= f[n + 2]
      BY <2>2, <2>3, <3>1
    <3> QED
      BY <3>2
  <2> QED
    BY <2>2, <2>4, <2>5
<1>3. Nat \subseteq S
  <2> HIDE DEF S
  <2> QED
    BY <1>1, <1>2, Everyone
<1>4. AxisNum - 1 \in S /\ (AxisNum - 1) + 1 = AxisNum
  BY <1>0, <1>3
<1> QED
  BY <1>0, <1>4 DEF Axis

\* The search for the longest axis finds one in every line.
LEMMA LongestExists ==
    ASSUME NEW l \in Lines
    PROVE  \E i \in Axis : IsFirstLongest(l, i)
<1>1. l.Steps \in [Axis -> Nat]
  BY LinesAssumption DEF LineType
<1> DEFINE T == {i \in Axis : \A j \in Axis : l.Steps[j] <= l.Steps[i]}
<1>2. T # {} /\ T \in SUBSET Nat
  BY <1>1, MaximumExists, AxisNumAssumption DEF Axis
<1>3. PICK i \in T : \A j \in T : i <= j
  <2> HIDE DEF T
  <2> QED
    BY <1>2, LeastOf
<1>4. ASSUME NEW j \in Axis, j < i PROVE l.Steps[j] < l.Steps[i]
  <2>1. j \notin T
    BY <1>2, <1>3, <1>4, AxisNumAssumption DEF Axis
  <2>2. PICK k \in Axis : ~ (l.Steps[k] <= l.Steps[j])
    BY <2>1
  <2>3. l.Steps[k] <= l.Steps[i]
    BY <1>3
  <2>4. l.Steps[k] \in Nat /\ l.Steps[j] \in Nat /\ l.Steps[i] \in Nat
    BY <1>1, <1>3
  <2> QED
    BY <2>2, <2>3, <2>4
<1> QED
  BY <1>3, <1>4 DEF IsFirstLongest

\* What taking a line l with MaxSteps = 0 finds.
LEMMA FirstLongestIs ==
    ASSUME NEW l \in Lines
    PROVE  FirstLongest(l) \in Axis /\ IsFirstLongest(l, FirstLongest(l))
BY LongestExists DEF FirstLongest

LEMMA LongestFromZero ==
    ASSUME NEW l \in Lines
    PROVE  /\ LongestAbove(l, 0) \in Axis
           /\ NewMaxSteps(l, 0) \in Nat
           /\ l.Steps[LongestAbove(l, 0)] = NewMaxSteps(l, 0)
           /\ \A i \in Axis : l.Steps[i] <= NewMaxSteps(l, 0)
<1>1. /\ FirstLongest(l) \in Axis
      /\ \A j \in Axis : l.Steps[j] <= l.Steps[FirstLongest(l)]
  BY FirstLongestIs DEF IsFirstLongest
<1>2. l.Steps \in [Axis -> Nat]
  BY LinesAssumption DEF LineType
<1>3. MostSteps(l) \in Nat /\ \A j \in Axis : l.Steps[j] <= MostSteps(l)
  BY <1>1, <1>2 DEF MostSteps
<1>4. 1 \in Axis
  BY AxisNumAssumption DEF Axis
<1>5. CASE MostSteps(l) > 0
  BY <1>1, <1>3, <1>5 DEF LongestAbove, NewMaxSteps, MostSteps
<1>6. CASE MostSteps(l) = 0
  <2>1. LongestAbove(l, 0) = 1 /\ NewMaxSteps(l, 0) = 0
    BY <1>6 DEF LongestAbove, NewMaxSteps
  <2>2. \A j \in Axis : l.Steps[j] = 0
    BY <1>2, <1>3, <1>6
  <2> QED
    BY <1>4, <2>1, <2>2
<1> QED
  BY <1>3, <1>5, <1>6

\* Every line taken starts on track: no step counted, every accumulator at
\* minus the number of steps.
LEMMA OnTrackStart ==
    ASSUME NEW M \in Nat, M > 0, NEW s \in Nat
    PROVE  OnTrack(M, s, 0, 0, -M)
<1>1. s * 0 = 0 /\ M * 0 = 0
  OBVIOUS
<1> QED
  BY <1>1 DEF OnTrack

-----------------------------------------------------------------------------
LEMMA InitIInv == Init => IInv
<1> SUFFICES ASSUME Init PROVE IInv
  OBVIOUS
<1> USE AxisNumAssumption, MotionNumAssumption
<1>1. 1 \in Axis
  BY DEF Axis
<1>2. NoLine \in LineType /\ NoTick \in TickType
  BY DEF NoLine, NoTick, LineType, TickType, ZeroOnAxes, AllBackward, Dirs
<1>z. /\ ZeroOnAxes \in [Axis -> Nat] /\ ZeroOnAxes \in [Axis -> Int]
      /\ AllForward \in [Axis -> Dirs] /\ AllBackward \in [Axis -> Dirs]
  BY DEF ZeroOnAxes, AllBackward, AllForward, Dirs
<1>s. << >> \in Seq(Lines) /\ << >> \in Seq(TickType)
  OBVIOUS
<1>n. 0 \in 0 .. MotionNum
  OBVIOUS
<1>3. TypeOK
  BY <1>1, <1>2, <1>z, <1>s, <1>n DEF Init, TypeOK
<1>4. LongestAxisFound
  BY <1>1 DEF Init, LongestAxisFound, TotalSteps, NoLine, ZeroOnAxes
<1> QED
  BY <1>3, <1>4 DEF Init, IInv, Control, Divisor, LineDoneExact

\* A tick made while the line is usable has the type of a tick and leaves
\* integers in the accumulators and naturals in the counters.
LEMMA MakeTickType ==
    ASSUME TypeOK, MakeTick, StepInterval' \in {0, 1}
    PROVE  /\ tick' \in TickType
           /\ NewDeltaErr' \in [Axis -> Int]
           /\ AxisStepsCnt' \in [Axis -> Nat]
<1>1. tick' \in TickType
  BY DEF TypeOK, MakeTick, TickType, Moves
<1>2. \A i \in Axis : line.Steps[i] \in Nat /\ NewDeltaErr[i] \in Int
                       /\ AxisStepsCnt[i] \in Nat
  BY DEF TypeOK, LineType
<1>3. \A i \in Axis : NewDeltaErr[i] + 2 * line.Steps[i]
                        - (IF StepNeeded(i) THEN NewDevision ELSE 0) \in Int
  <2> TAKE i \in Axis
  <2>1. NewDevision \in Int
    BY DEF TypeOK
  <2>2. NewDeltaErr[i] \in Int /\ line.Steps[i] \in Int
    BY <1>2
  <2> QED
    BY <2>1, <2>2 DEF StepNeeded
<1>4. \A i \in Axis : AxisStepsCnt[i] + (IF i \in Moves THEN 1 ELSE 0) \in Nat
  BY <1>2
<1> QED
  BY <1>1, <1>3, <1>4 DEF MakeTick

\* A counted step keeps every axis on track.
LEMMA CountedOnTrack ==
    ASSUME TypeOK, LongestAxisFound, Divisor, Counting, Usable,
           StepsCount < TotalSteps, MakeTick
    PROVE  \A i \in Axis : OnTrack(TotalSteps, line.Steps[i], StepsCount + 1,
                                   AxisStepsCnt'[i], NewDeltaErr'[i])
<1> TAKE i \in Axis
<1>1. /\ line.Steps[i] \in Nat /\ TotalSteps \in Nat /\ StepsCount \in Nat
      /\ AxisStepsCnt[i] \in Nat /\ NewDeltaErr[i] \in Int
  BY DEF TypeOK, LineType, TotalSteps
<1>2. /\ TotalSteps > 0 /\ NewDevision = 2 * TotalSteps
      /\ line.Steps[i] <= TotalSteps
      /\ OnTrack(TotalSteps, line.Steps[i], StepsCount, AxisStepsCnt[i], NewDeltaErr[i])
  BY DEF Divisor, LongestAxisFound, Counting
<1>3. /\ NewDeltaErr[i] + 2 * line.Steps[i] >= 0
            => /\ AxisStepsCnt[i] < line.Steps[i]
               /\ OnTrack(TotalSteps, line.Steps[i], StepsCount + 1, AxisStepsCnt[i] + 1,
                          NewDeltaErr[i] + 2 * line.Steps[i] - 2 * TotalSteps)
      /\ NewDeltaErr[i] + 2 * line.Steps[i] < 0
            => OnTrack(TotalSteps, line.Steps[i], StepsCount + 1, AxisStepsCnt[i],
                       NewDeltaErr[i] + 2 * line.Steps[i])
  BY <1>1, <1>2, OnTrackStep
<1>4. CASE StepNeeded(i)
  <2>1. NewDeltaErr[i] + 2 * line.Steps[i] >= 0
    BY <1>4 DEF StepNeeded
  <2>2. i \in Moves
    BY <1>3, <1>4, <2>1 DEF Moves
  <2>3. /\ NewDeltaErr'[i] = NewDeltaErr[i] + 2 * line.Steps[i] - 2 * TotalSteps
        /\ AxisStepsCnt'[i] = AxisStepsCnt[i] + 1
    BY <1>2, <1>4, <2>2 DEF MakeTick
  <2> QED
    BY <1>3, <2>1, <2>3
<1>5. CASE ~StepNeeded(i)
  <2>1. NewDeltaErr[i] + 2 * line.Steps[i] < 0
    BY <1>1, <1>5 DEF StepNeeded
  <2>2. i \notin Moves
    BY <1>5 DEF Moves
  <2>3. /\ NewDeltaErr'[i] = NewDeltaErr[i] + 2 * line.Steps[i] - 0
        /\ AxisStepsCnt'[i] = AxisStepsCnt[i] + 0
    BY <1>5, <2>2 DEF MakeTick
  <2>4. /\ NewDeltaErr'[i] = NewDeltaErr[i] + 2 * line.Steps[i]
        /\ AxisStepsCnt'[i] = AxisStepsCnt[i]
    BY <1>1, <2>3
  <2> QED
    BY <1>3, <2>1, <2>4
<1> QED
  BY <1>4, <1>5

\* When all steps are counted, every axis has all its pulses.
LEMMA AllPulsesGiven ==
    ASSUME TypeOK, Divisor, Usable,
           NEW cnt \in [Axis -> Nat], NEW err \in [Axis -> Int],
           \A i \in Axis : OnTrack(TotalSteps, line.Steps[i], TotalSteps, cnt[i], err[i])
    PROVE  cnt = line.Steps
<1>1. line.Steps \in [Axis -> Nat] /\ TotalSteps \in Nat /\ TotalSteps > 0
  BY DEF TypeOK, LineType, TotalSteps, Divisor
<1>2. \A i \in Axis : cnt[i] = line.Steps[i]
  BY <1>1, OnTrackEnd
<1> QED
  BY <1>1, <1>2

\* The parts of the invariant that any tick keeps.
LEMMA TickKeeps ==
    ASSUME IInv, MakeTick, pc = "loop", LoopGoesOn, Usable,
           StepInterval' \in {0, 1}, StepsCount' \in Nat,
           Status' \in {"STOP", "ACCELERATE", "UNIFORM", "DECELERATE"}
    PROVE  /\ TypeOK' /\ Control' /\ LongestAxisFound' /\ Divisor'
           /\ TotalSteps' = TotalSteps
           /\ line' = line /\ Usable'
<1>1. /\ tick' \in TickType
      /\ NewDeltaErr' \in [Axis -> Int]
      /\ AxisStepsCnt' \in [Axis -> Nat]
  BY MakeTickType DEF IInv
<1>2. UNCHANGED <<queue, line, Usable, LongestAxis, NewDevision, MotionDir,
                  LoopIndex, MaxSteps, fifo, isrVars, planned>> /\ pc' = "write"
  BY DEF MakeTick
<1>3. TypeOK'
  BY <1>1, <1>2 DEF IInv, TypeOK, isrVars
<1>4. LoopIndex < MotionNum
  BY MotionNumAssumption DEF IInv, TypeOK, LoopGoesOn
<1> QED
  BY <1>2, <1>3, <1>4 DEF IInv, Control, LongestAxisFound, Divisor, TotalSteps

\* A step counted in one of the moving cases keeps the invariant, whatever
\* status follows, if STOP follows only the last step.
LEMMA CountStepKeeps ==
    ASSUME IInv, pc = "loop", LoopGoesOn, Usable, Status # "STOP",
           StepsCount < TotalSteps,
           NEW next \in {"STOP", "ACCELERATE", "UNIFORM", "DECELERATE"},
           next = "STOP" => StepsCount + 1 >= TotalSteps,
           next \in {"ACCELERATE", "UNIFORM"} => StepsCount + 1 < TotalSteps,
           CountStep(next)
    PROVE  IInv'
<1>1. /\ MakeTick /\ StepInterval' \in {0, 1}
      /\ StepsCount' = StepsCount + 1 /\ Status' = next
  BY DEF CountStep
<1>2. StepsCount \in Nat /\ TotalSteps \in Nat
  BY DEF IInv, TypeOK, LineType, TotalSteps
<1>3. /\ TypeOK' /\ Control' /\ LongestAxisFound' /\ Divisor'
      /\ TotalSteps' = TotalSteps /\ line' = line /\ Usable'
  BY <1>1, <1>2, TickKeeps
<1>4. \A i \in Axis : OnTrack(TotalSteps, line.Steps[i], StepsCount + 1,
                              AxisStepsCnt'[i], NewDeltaErr'[i])
  BY <1>1, CountedOnTrack DEF IInv
<1>5. next # "STOP" => Counting'
  BY <1>1, <1>2, <1>3, <1>4 DEF Counting
<1>6. ASSUME next = "STOP" PROVE AxisStepsCnt' = line.Steps
  <2>1. StepsCount + 1 = TotalSteps
    BY <1>2, <1>6
  <2>2. AxisStepsCnt' \in [Axis -> Nat] /\ NewDeltaErr' \in [Axis -> Int]
    BY <1>3 DEF TypeOK
  <2> QED
    BY <1>4, <2>1, <2>2, AllPulsesGiven DEF IInv
<1> QED
  BY <1>1, <1>3, <1>5, <1>6 DEF IInv, LineDoneExact

-----------------------------------------------------------------------------
LEMMA TakeLineKeeps == IInv /\ TakeLine => IInv'
<1> SUFFICES ASSUME IInv, TakeLine PROVE IInv'
  OBVIOUS
<1> DEFINE l == Head(queue)
<1>1. queue # << >> /\ queue \in Seq(Lines)
  BY DEF IInv, TypeOK, TakeLine, LoopGoesOn
<1>2. l \in Lines /\ Tail(queue) \in Seq(Lines)
  BY <1>1
<1>3. l \in LineType
  BY <1>2, LinesAssumption
<1>4. MaxSteps = 0
  BY DEF IInv, Control, TakeLine
<1> DEFINE M == NewMaxSteps(l, 0)
<1>5. /\ line' = l /\ LongestAxis' = LongestAbove(l, 0) /\ MaxSteps' = M
      /\ NewDeltaErr' = [i \in Axis |-> -M] /\ NewDevision' = 2 * M
      /\ MotionDir' = l.Dir
      /\ Usable' = (l.Steps[LongestAbove(l, 0)] > 0)
      /\ AxisStepsCnt' = ZeroOnAxes /\ StepsCount' = 0 /\ Status' = "ACCELERATE"
      /\ pc = "loop" /\ queue' = Tail(queue)
      /\ UNCHANGED <<pc, LoopIndex, StepInterval, tick, fifo, isrVars, planned>>
  BY <1>4 DEF TakeLine
<1>6. /\ LongestAbove(l, 0) \in Axis /\ M \in Nat
      /\ l.Steps[LongestAbove(l, 0)] = M
      /\ \A i \in Axis : l.Steps[i] <= M
  BY <1>2, LongestFromZero
<1> HIDE DEF l, M
<1>7. TotalSteps' = M /\ Usable' = (M > 0)
  BY <1>5, <1>6 DEF TotalSteps
<1>8. TypeOK'
  <2>1. l.Dir \in [Axis -> Dirs]
    BY <1>3 DEF LineType
  <2>2. NewDeltaErr' \in [Axis -> Int] /\ NewDevision' \in Nat
    BY <1>5, <1>6
  <2>3. AxisStepsCnt' \in [Axis -> Nat]
    BY <1>5 DEF ZeroOnAxes
  <2>4. Usable' \in BOOLEAN
    BY <1>7
  <2> QED
    BY <1>2, <1>3, <1>5, <1>6, <2>1, <2>2, <2>3, <2>4 DEF IInv, TypeOK, isrVars
<1>9. LongestAxisFound' /\ Divisor' /\ LineDoneExact'
  BY <1>5, <1>6, <1>7 DEF LongestAxisFound, Divisor, LineDoneExact
<1>10. Control'
  <2>1. pc' = "loop" /\ MaxSteps' = M
    BY <1>5
  <2>2. M = 0 \/ M > 0
    BY <1>6
  <2>3. M > 0 => Usable'
    BY <1>7
  <2> QED
    BY <2>1, <2>2, <2>3 DEF Control
<1>11. Usable' => Counting'
  <2> SUFFICES ASSUME Usable' PROVE Counting'
    OBVIOUS
  <2>1. M > 0
    BY <1>7
  <2>2. \A i \in Axis : l.Steps[i] \in Nat
    BY <1>3 DEF LineType
  <2>3. \A i \in Axis : OnTrack(M, l.Steps[i], 0, 0, -M)
    BY <1>6, <2>1, <2>2, OnTrackStart
  <2>4. \A i \in Axis : AxisStepsCnt'[i] = 0 /\ NewDeltaErr'[i] = -M
    BY <1>5 DEF ZeroOnAxes
  <2> QED
    BY <1>5, <1>6, <1>7, <2>1, <2>3, <2>4 DEF Counting
<1> QED
  BY <1>8, <1>9, <1>10, <1>11 DEF IInv

\* The extra tick of the DECELERATE case moves nothing.
LEMMA DoneMovesNothing ==
    ASSUME IInv, DecelerateDone
    PROVE  AxisStepsCnt = line.Steps /\ \A i \in Axis : i \notin Moves
<1>1. Usable /\ Status # "STOP" /\ StepsCount >= TotalSteps
  BY DEF DecelerateDone
<1>2. TypeOK /\ Divisor /\ Counting
  BY <1>1 DEF IInv
<1>3. StepsCount \in Nat /\ TotalSteps \in Nat
  BY <1>2 DEF TypeOK, LineType, TotalSteps
<1>4. StepsCount = TotalSteps
  BY <1>1, <1>2, <1>3 DEF Counting
<1>5. AxisStepsCnt = line.Steps
  <2>1. AxisStepsCnt \in [Axis -> Nat] /\ NewDeltaErr \in [Axis -> Int]
    BY <1>2 DEF TypeOK
  <2>2. \A i \in Axis : OnTrack(TotalSteps, line.Steps[i], TotalSteps,
                                AxisStepsCnt[i], NewDeltaErr[i])
    BY <1>2, <1>4 DEF Counting
  <2> QED
    BY <1>1, <1>2, <2>1, <2>2, AllPulsesGiven
<1>6. \A i \in Axis : AxisStepsCnt[i] \in Nat /\ ~(AxisStepsCnt[i] < line.Steps[i])
  BY <1>2, <1>5 DEF TypeOK
<1> QED
  BY <1>5, <1>6 DEF Moves

LEMMA CalcKeeps == IInv /\ Calc => IInv'
<1> SUFFICES ASSUME IInv, Calc PROVE IInv'
  OBVIOUS
<1>t. StepsCount \in Nat /\ TotalSteps \in Nat
  BY DEF IInv, TypeOK, LineType, TotalSteps
<1>1. CASE Call
  <2>1. TypeOK'
    BY <1>1, MotionNumAssumption DEF IInv, TypeOK, Call, lineVars, isrVars
  <2> QED
    BY <1>1, <2>1 DEF IInv, Call, lineVars, isrVars, Control, LongestAxisFound,
       Divisor, Counting, TotalSteps, LineDoneExact
<1>2. CASE Return
  <2>1. TypeOK'
    BY <1>2 DEF IInv, TypeOK, Return, lineVars, isrVars
  <2> QED
    BY <1>2, <2>1 DEF IInv, Return, lineVars, isrVars, Control, LongestAxisFound,
       Divisor, Counting, TotalSteps, LineDoneExact
<1>3. CASE TakeLine
  BY <1>3, TakeLineKeeps
<1>4. CASE LineEnds
  <2>1. AllBackward \in [Axis -> Dirs]
    BY DEF AllBackward, Dirs
  <2>2. TypeOK'
    BY <1>4, <2>1 DEF IInv, TypeOK, LineEnds, isrVars
  <2> QED
    BY <1>4, <2>2 DEF IInv, LineEnds, Control, LongestAxisFound, Divisor,
       TotalSteps, LineDoneExact
<1>5. CASE Accelerate
  <2> DEFINE next == AfterAccelerate(StepsCount + 1)
  <2>1. /\ pc = "loop" /\ LoopGoesOn /\ Usable /\ Status = "ACCELERATE"
        /\ CountStep(next)
    BY <1>5 DEF Accelerate
  <2>2. StepsCount < TotalSteps
    BY <2>1 DEF IInv, Counting
  <2>3. /\ next \in {"STOP", "ACCELERATE", "UNIFORM", "DECELERATE"}
        /\ next = "STOP" => StepsCount + 1 >= TotalSteps
        /\ next \in {"ACCELERATE", "UNIFORM"} => StepsCount + 1 < TotalSteps
    BY <1>t DEF AfterAccelerate
  <2> QED
    BY <2>1, <2>2, <2>3, CountStepKeeps
<1>6. CASE Uniform
  <2> DEFINE next == AfterUniform(StepsCount + 1)
  <2>1. /\ pc = "loop" /\ LoopGoesOn /\ Usable /\ Status = "UNIFORM"
        /\ CountStep(next)
    BY <1>6 DEF Uniform
  <2>2. StepsCount < TotalSteps
    BY <2>1 DEF IInv, Counting
  <2>3. /\ next \in {"STOP", "ACCELERATE", "UNIFORM", "DECELERATE"}
        /\ next = "STOP" => StepsCount + 1 >= TotalSteps
        /\ next \in {"ACCELERATE", "UNIFORM"} => StepsCount + 1 < TotalSteps
    BY <1>t DEF AfterUniform
  <2> QED
    BY <2>1, <2>2, <2>3, CountStepKeeps
<1>7. CASE Decelerate
  <2>1. /\ pc = "loop" /\ LoopGoesOn /\ Usable /\ Status # "STOP"
        /\ StepsCount < TotalSteps /\ CountStep("DECELERATE")
    BY <1>7 DEF Decelerate
  <2> QED
    BY <2>1, CountStepKeeps
<1>8. CASE DecelerateDone
  <2>1. /\ pc = "loop" /\ LoopGoesOn /\ Usable /\ Status # "STOP"
        /\ StepsCount >= TotalSteps /\ Status' = "STOP"
        /\ StepInterval' = StepInterval /\ StepsCount' = StepsCount /\ MakeTick
    BY <1>8 DEF DecelerateDone
  <2>2. StepInterval \in {0, 1} /\ TypeOK /\ Divisor /\ Counting
    BY <2>1 DEF IInv, TypeOK
  <2>3. /\ TypeOK' /\ Control' /\ LongestAxisFound' /\ Divisor'
        /\ line' = line /\ Usable'
    BY <1>t, <2>1, <2>2, TickKeeps
  <2>5. AxisStepsCnt = line.Steps /\ \A i \in Axis : i \notin Moves
    BY <1>8, DoneMovesNothing
  <2>8. AxisStepsCnt' = AxisStepsCnt
    BY <2>1, <2>2, <2>5 DEF MakeTick, TypeOK
  <2> QED
    BY <2>1, <2>3, <2>5, <2>8 DEF IInv, LineDoneExact
<1>9. CASE WriteTick
  <2>1. NoTick \in TickType
    BY DEF NoTick, TickType, AllBackward, Dirs
  <2>2. fifo' \in Seq(TickType)
    BY <1>9 DEF IInv, TypeOK, WriteTick
  <2>3. LoopIndex' \in 0 .. MotionNum
    BY <1>9, MotionNumAssumption DEF IInv, TypeOK, Control, WriteTick
  <2>4. TypeOK'
    BY <1>9, <2>1, <2>2, <2>3 DEF IInv, TypeOK, WriteTick, lineVars, isrVars
  <2> QED
    BY <1>9, <2>4 DEF IInv, WriteTick, lineVars, Control, LongestAxisFound,
       Divisor, Counting, TotalSteps, LineDoneExact
<1> QED
  BY <1>1, <1>2, <1>3, <1>4, <1>5, <1>6, <1>7, <1>8, <1>9 DEF Calc

LEMMA StepperInterruptTypes == TypeOK /\ StepperInterrupt => TypeOK'
<1> SUFFICES ASSUME TypeOK, StepperInterrupt PROVE TypeOK'
  OBVIOUS
<1> DEFINE t == Head(fifo)
<1>1. fifo # << >> /\ fifo \in Seq(TickType)
  BY DEF TypeOK, StepperInterrupt
<1>2. t \in TickType /\ Tail(fifo) \in Seq(TickType)
  BY <1>1
<1>3. t.Dir \in [Axis -> Dirs]
  BY <1>2 DEF TickType
<1>4. /\ isrDir' = IF DirChanges(t) THEN t.Dir ELSE isrDir
      /\ dirPin' = IF DirChanges(t) THEN t.Dir ELSE dirPin
      /\ Pos' = [i \in Axis |-> Pos[i] + (IF DirChanges(t) THEN t.Dir[i] ELSE 0)]
      /\ moved' = [i \in Axis |-> moved[i] + (IF i \in t.Move THEN dirPin'[i] ELSE 0)]
      /\ fifo' = Tail(fifo)
      /\ UNCHANGED <<queue, lineVars, callVars, planned>>
  BY DEF StepperInterrupt
<1> HIDE DEF t
<1>5. isrDir' \in [Axis -> Dirs] \cup {NoDir} /\ dirPin' \in [Axis -> Dirs]
  BY <1>3, <1>4 DEF TypeOK
<1>6. \A i \in Axis : t.Dir[i] \in Int /\ dirPin'[i] \in Int
                       /\ Pos[i] \in Int /\ moved[i] \in Int
  BY <1>3, <1>5 DEF Dirs, TypeOK
<1>7. Pos' \in [Axis -> Int]
  <2>1. \A i \in Axis : Pos[i] + (IF DirChanges(t) THEN t.Dir[i] ELSE 0) \in Int
    BY <1>6
  <2> QED
    BY <1>4, <2>1
<1>8. moved' \in [Axis -> Int]
  <2>1. \A i \in Axis : moved[i] + (IF i \in t.Move THEN dirPin'[i] ELSE 0) \in Int
    BY <1>6
  <2> QED
    BY <1>4, <2>1
<1> QED
  BY <1>2, <1>4, <1>5, <1>7, <1>8 DEF TypeOK, lineVars, callVars

LEMMA StepperInterruptKeeps == IInv /\ StepperInterrupt => IInv'
<1> SUFFICES ASSUME IInv, StepperInterrupt PROVE IInv'
  OBVIOUS
<1>1. TypeOK'
  BY StepperInterruptTypes DEF IInv
<1> QED
  BY <1>1 DEF IInv, StepperInterrupt, lineVars, callVars, Control, LongestAxisFound,
     Divisor, Counting, TotalSteps, LineDoneExact

LEMMA StepIInv == IInv /\ [Next \/ StopBetweenCalls]_vars => IInv'
<1> SUFFICES ASSUME IInv, [Next \/ StopBetweenCalls]_vars PROVE IInv'
  OBVIOUS
<1>1. CASE Calc
  BY <1>1, CalcKeeps
<1>2. CASE StepperInterrupt
  BY <1>2, StepperInterruptKeeps
<1>3. ASSUME NEW l \in Lines, PlanLine(l) PROVE IInv'
  <2>1. queue' \in Seq(Lines) /\ planned' \in Nat
    BY <1>3 DEF IInv, TypeOK, PlanLine
  <2>2. TypeOK'
    BY <1>3, <2>1 DEF IInv, TypeOK, PlanLine, lineVars, callVars, isrVars
  <2> QED
    BY <1>3, <2>2 DEF IInv, PlanLine, lineVars, callVars, Control, LongestAxisFound,
       Divisor, Counting, TotalSteps, LineDoneExact
<1>4. CASE UNCHANGED vars
  <2>1. TypeOK'
    BY <1>4 DEF IInv, TypeOK, vars
  <2> QED
    BY <1>4, <2>1 DEF IInv, vars, Control, LongestAxisFound, Divisor, Counting,
       TotalSteps, LineDoneExact
<1>5. CASE StopBetweenCalls
  <2>1. << >> \in Seq(Lines) /\ << >> \in Seq(TickType)
    OBVIOUS
  <2>2. TypeOK'
    BY <1>5, <2>1 DEF IInv, TypeOK, StopBetweenCalls, SteppersStopQuick, callVars, isrVars
  <2> QED
    BY <1>5, <2>2 DEF IInv, StopBetweenCalls, SteppersStopQuick, callVars, Control,
       LongestAxisFound, Divisor, TotalSteps, LineDoneExact
<1> QED
  BY <1>1, <1>2, <1>3, <1>4, <1>5 DEF Next

LEMMA Invariance == StopSpec => []IInv
BY InitIInv, StepIInv, PTL DEF StopSpec

-----------------------------------------------------------------------------
\* Type correctness of the tick calculation: in particular a call of Calc
\* makes at most MotionNum ticks.
THEOREM TypeCorrect == StopSpec => []TypeOK
<1>1. IInv => TypeOK
  BY DEF IInv
<1> QED
  BY <1>1, Invariance, PTL

\* While no quick stop comes in the middle of a call of Calc, LongestAxis is
\* the longest axis of every line Calc takes: the local MaxSteps is 0 whenever
\* the search starts.
THEOREM LongestAxis_Found == StopSpec => []LongestAxisFound
<1>1. IInv => LongestAxisFound
  BY DEF IInv
<1> QED
  BY <1>1, Invariance, PTL

\* For every number of axes, every line and every placement of the phase
\* boundaries, a finished line gave every axis exactly its planned steps.
THEOREM LinesExact == StopSpec => []LineDoneExact
<1>1. IInv => LineDoneExact
  BY DEF IInv
<1> QED
  BY <1>1, Invariance, PTL

\* A tick with timer period 0 pulses no motor, in the FIFO and on its way to
\* it: only the tick after the last counted step can have that period.
THEOREM ZeroPeriodHarmless == StopSpec => []ZeroPeriodNeverMoves
<1>1. Init => ZeroPeriodNeverMoves
  BY DEF Init, NoTick, ZeroPeriodNeverMoves
<1>2. IInv /\ ZeroPeriodNeverMoves /\ [Next \/ StopBetweenCalls]_vars
        => ZeroPeriodNeverMoves'
  <2> SUFFICES ASSUME IInv, ZeroPeriodNeverMoves, [Next \/ StopBetweenCalls]_vars
               PROVE  ZeroPeriodNeverMoves'
    OBVIOUS
  <2>1. ASSUME NEW next, CountStep(next) PROVE ZeroPeriodNeverMoves'
    BY <2>1 DEF CountStep, MakeTick, ZeroPeriodNeverMoves
  <2>2. CASE Accelerate \/ Uniform \/ Decelerate
    BY <2>1, <2>2 DEF Accelerate, Uniform, Decelerate
  <2>3. CASE DecelerateDone
    <3>1. Moves = {}
      BY <2>3, DoneMovesNothing DEF Moves
    <3>2. tick'.Move = Moves /\ fifo' = fifo
      BY <2>3 DEF DecelerateDone, MakeTick
    <3> QED
      BY <3>1, <3>2 DEF ZeroPeriodNeverMoves
  <2>4. CASE WriteTick
    <3>1. /\ fifo \in Seq(TickType) /\ tick \in TickType
          /\ fifo' = Append(fifo, tick) /\ tick' = NoTick
      BY <2>4 DEF IInv, TypeOK, WriteTick
    <3>2. \A k \in 1 .. Len(fifo') : fifo'[k] = tick \/ (k \in 1 .. Len(fifo) /\ fifo'[k] = fifo[k])
      BY <3>1
    <3> QED
      BY <3>1, <3>2 DEF ZeroPeriodNeverMoves, NoTick
  <2>5. CASE StepperInterrupt
    <3>1. /\ fifo \in Seq(TickType) /\ fifo # << >>
          /\ fifo' = Tail(fifo) /\ tick' = tick
      BY <2>5 DEF IInv, TypeOK, StepperInterrupt, callVars
    <3>2. \A k \in 1 .. Len(fifo') : k + 1 \in 1 .. Len(fifo) /\ fifo'[k] = fifo[k + 1]
      BY <3>1
    <3> QED
      BY <3>1, <3>2 DEF ZeroPeriodNeverMoves
  <2>6. CASE \/ Call \/ Return \/ TakeLine \/ LineEnds \/ UNCHANGED vars
             \/ \E l \in Lines : PlanLine(l)
    <3>1. tick' = tick /\ fifo' = fifo
      BY <2>6 DEF Call, Return, TakeLine, LineEnds, PlanLine, callVars, vars
    <3> QED
      BY <3>1 DEF ZeroPeriodNeverMoves
  <2>7. CASE StopBetweenCalls
    <3>1. tick' = tick /\ fifo' = << >>
      BY <2>7 DEF StopBetweenCalls, SteppersStopQuick, callVars
    <3> QED
      BY <3>1 DEF ZeroPeriodNeverMoves
  <2> QED
    BY <2>2, <2>3, <2>4, <2>5, <2>6, <2>7 DEF Next, Calc
<1> QED
  BY <1>1, <1>2, Invariance, PTL DEF StopSpec

-----------------------------------------------------------------------------
(***************************************************************************)
(* What Sum computes.  The partial sums of a sequence exist, by induction; *)
(* they are the only solution of the equation that defines Sum, because    *)
(* there is no least place where another solution differs.                 *)
(***************************************************************************)
\* p lists the partial sums of the first n values of g.
PartialSums(p, g, n) ==
    /\ p \in [0 .. n -> Int]
    /\ p[0] = 0
    /\ \A k \in 1 .. n : p[k] = p[k - 1] + g[k]

LEMMA PartialSumsExist ==
    ASSUME NEW s \in Seq(Int)
    PROVE  \E p : PartialSums(p, s, Len(s))
<1> DEFINE S == {n \in Nat : n <= Len(s) => \E p : PartialSums(p, s, n)}
<1>0. Len(s) \in Nat /\ \A k \in 1 .. Len(s) : s[k] \in Int
  OBVIOUS
<1>1. 0 \in S
  <2>1. PartialSums([k \in 0 .. 0 |-> 0], s, 0)
    BY DEF PartialSums
  <2> QED
    BY <2>1
<1>2. ASSUME NEW n \in Nat, n \in S PROVE n + 1 \in S
  <2> SUFFICES ASSUME n + 1 <= Len(s) PROVE \E p : PartialSums(p, s, n + 1)
    OBVIOUS
  <2>1. PICK p : PartialSums(p, s, n)
    BY <1>0, <1>2
  <2> DEFINE q == [k \in 0 .. n + 1 |-> IF k = n + 1 THEN p[n] + s[n + 1] ELSE p[k]]
  <2>2. p[n] \in Int /\ s[n + 1] \in Int /\ \A k \in 0 .. n : p[k] \in Int
    BY <1>0, <2>1 DEF PartialSums
  <2>3. q \in [0 .. n + 1 -> Int] /\ q[0] = 0
    BY <2>1, <2>2 DEF PartialSums
  <2>4. ASSUME NEW k \in 1 .. n + 1 PROVE q[k] = q[k - 1] + s[k]
    <3>1. CASE k = n + 1
      BY <3>1
    <3>2. CASE k \in 1 .. n
      BY <2>1, <3>2 DEF PartialSums
    <3> QED
      BY <3>1, <3>2
  <2>5. PartialSums(q, s, n + 1)
    BY <2>3, <2>4 DEF PartialSums
  <2> QED
    BY <2>5
<1>3. Nat \subseteq S
  <2> HIDE DEF S
  <2> QED
    BY <1>1, <1>2, Everyone
<1> QED
  BY <1>0, <1>3

\* The equation that the function in the definition of Sum solves, and that it
\* is the only solution.
SumBody(s, f) == [k \in 0 .. Len(s) |-> IF k = 0 THEN 0 ELSE f[k - 1] + s[k]]

LEMMA SumUnfold == ASSUME NEW s PROVE Sum(s) = (CHOOSE f : f = SumBody(s, f))[Len(s)]
BY DEF Sum, SumBody

LEMMA PartialSumsSolve ==
    ASSUME NEW s \in Seq(Int), NEW p, PartialSums(p, s, Len(s))
    PROVE  p = SumBody(s, p)
<1>1. Len(s) \in Nat /\ p \in [0 .. Len(s) -> Int]
  BY DEF PartialSums
<1>2. ASSUME NEW k \in 0 .. Len(s) PROVE p[k] = SumBody(s, p)[k]
  BY <1>1 DEF PartialSums, SumBody
<1>3. SumBody(s, p) = [k \in 0 .. Len(s) |-> SumBody(s, p)[k]]
  BY DEF SumBody
<1> QED
  BY <1>1, <1>2, <1>3

LEMMA SolutionUnique ==
    ASSUME NEW s \in Seq(Int), NEW p, PartialSums(p, s, Len(s)),
           NEW f, f = SumBody(s, f)
    PROVE  f[Len(s)] = p[Len(s)]
<1> DEFINE T == {k \in 0 .. Len(s) : f[k] # p[k]}
<1>0. Len(s) \in Nat
  OBVIOUS
<1>1. \A k \in 0 .. Len(s) : f[k] = IF k = 0 THEN 0 ELSE f[k - 1] + s[k]
  BY DEF SumBody
<1>2. CASE T # {}
  <2>1. PICK k \in T : \A j \in T : k <= j
    <3>1. T \in SUBSET Nat
      BY <1>0
    <3> HIDE DEF T
    <3> QED
      BY <1>2, <3>1, LeastOf
  <2>2. k \in 0 .. Len(s) /\ k # 0
    BY <1>1, <2>1 DEF PartialSums
  <2>3. k - 1 \in 0 .. Len(s) /\ k - 1 \notin T
    BY <1>0, <2>1, <2>2
  <2>4. f[k] = f[k - 1] + s[k] /\ p[k] = p[k - 1] + s[k] /\ f[k - 1] = p[k - 1]
    BY <1>1, <2>2, <2>3 DEF PartialSums
  <2> QED
    BY <2>1, <2>4
<1> QED
  BY <1>0, <1>2

LEMMA SumIs ==
    ASSUME NEW s \in Seq(Int), NEW p, PartialSums(p, s, Len(s))
    PROVE  Sum(s) = p[Len(s)]
<1> DEFINE f == CHOOSE g : g = SumBody(s, g)
<1>1. \E g : g = SumBody(s, g)
  BY PartialSumsSolve
<1>2. f = SumBody(s, f)
  BY <1>1
<1>3. Sum(s) = f[Len(s)]
  BY SumUnfold
<1> HIDE DEF f
<1> QED
  BY <1>2, <1>3, SolutionUnique

\* What Sum computes: nothing for the empty sequence, one more term after
\* Append, one term less after Tail.
LEMMA SumEmpty == Sum(<< >>) = 0
<1>1. << >> \in Seq(Int) /\ Len(<< >>) = 0
  OBVIOUS
<1>2. PICK p : PartialSums(p, << >>, Len(<< >>))
  BY <1>1, PartialSumsExist
<1>3. Sum(<< >>) = p[0] /\ p[0] = 0
  BY <1>1, <1>2, SumIs DEF PartialSums
<1> QED
  BY <1>3

LEMMA SumType == ASSUME NEW s \in Seq(Int) PROVE Sum(s) \in Int
<1>1. PICK p : PartialSums(p, s, Len(s))
  BY PartialSumsExist
<1>2. Sum(s) = p[Len(s)] /\ Len(s) \in 0 .. Len(s)
  BY <1>1, SumIs
<1> QED
  BY <1>1, <1>2 DEF PartialSums

LEMMA SumOneMore ==
    ASSUME NEW s \in Seq(Int), NEW r \in Seq(Int), Len(r) = Len(s) + 1,
           \A k \in 1 .. Len(s) : r[k] = s[k]
    PROVE  Sum(r) = Sum(s) + r[Len(r)]
<1>1. PICK p : PartialSums(p, r, Len(r))
  BY PartialSumsExist
<1> DEFINE q == [k \in 0 .. Len(s) |-> p[k]]
<1>2. Len(s) \in Nat /\ Len(r) = Len(s) + 1
  OBVIOUS
<1>3. PartialSums(q, s, Len(s))
  BY <1>1, <1>2 DEF PartialSums
<1>4. Sum(r) = p[Len(r)] /\ Sum(s) = q[Len(s)]
  <2> HIDE DEF q
  <2> QED
    BY <1>1, <1>3, SumIs
<1>5. p[Len(r)] = p[Len(s)] + r[Len(r)] /\ q[Len(s)] = p[Len(s)]
  BY <1>1, <1>2 DEF PartialSums
<1> QED
  BY <1>4, <1>5

LEMMA SumOneLess ==
    ASSUME NEW s \in Seq(Int), NEW r \in Seq(Int), Len(s) = Len(r) + 1,
           \A k \in 1 .. Len(r) : r[k] = s[k + 1]
    PROVE  Sum(s) = s[1] + Sum(r)
<1>1. PICK p : PartialSums(p, s, Len(s))
  BY PartialSumsExist
<1> DEFINE q == [k \in 0 .. Len(r) |-> p[k + 1] - s[1]]
<1>2. Len(r) \in Nat /\ s[1] \in Int
  OBVIOUS
<1>3. \A k \in 0 .. Len(s) : p[k] \in Int
  BY <1>1 DEF PartialSums
<1>r. \A k \in 0 .. Len(r) : k \in 0 .. Len(s) /\ k + 1 \in 0 .. Len(s)
  BY <1>2
<1>4. q \in [0 .. Len(r) -> Int]
  <2>1. \A k \in 0 .. Len(r) : p[k + 1] \in Int
    BY <1>3, <1>r
  <2>2. \A k \in 0 .. Len(r) : p[k + 1] - s[1] \in Int
    BY <1>2, <2>1
  <2> QED
    BY <2>2
<1>5. p[1] = s[1] /\ q[0] = 0
  <2>1. p[1] = p[1 - 1] + s[1] /\ p[0] = 0
    BY <1>1, <1>2 DEF PartialSums
  <2>2. p[1] = s[1]
    BY <1>2, <2>1
  <2> QED
    BY <1>2, <2>2
<1>6. ASSUME NEW k \in 1 .. Len(r) PROVE q[k] = q[k - 1] + r[k]
  <2>1. k + 1 \in 1 .. Len(s) /\ k - 1 \in 0 .. Len(r) /\ (k + 1) - 1 = k /\ (k - 1) + 1 = k
    BY <1>2
  <2>2. p[k + 1] = p[(k + 1) - 1] + s[k + 1] /\ r[k] = s[k + 1]
    BY <1>1, <2>1 DEF PartialSums
  <2>3. p[k + 1] = p[k] + r[k]
    BY <2>1, <2>2
  <2>4. q[k] = p[k + 1] - s[1] /\ q[k - 1] = p[k] - s[1]
    BY <2>1
  <2>5. p[k] \in Int /\ r[k] \in Int
    BY <1>3, <1>r
  <2>6. \A a, b, c \in Int : (a + b) - c = (a - c) + b
    OBVIOUS
  <2> HIDE DEF q
  <2> QED
    BY <1>2, <2>3, <2>4, <2>5, <2>6, SMTT(30)
<1>7. PartialSums(q, r, Len(r))
  BY <1>4, <1>5, <1>6 DEF PartialSums
<1>8. Sum(s) = p[Len(s)] /\ Sum(r) = q[Len(r)]
  <2> HIDE DEF q
  <2> QED
    BY <1>1, <1>7, SumIs
<1>9. q[Len(r)] = p[Len(s)] - s[1] /\ p[Len(s)] \in Int
  BY <1>2, <1>3
<1> QED
  BY <1>2, <1>8, <1>9

-----------------------------------------------------------------------------
(***************************************************************************)
(* Conservation of steps.  Beside IInv it needs that the direction pins    *)
(* follow the direction word of the interrupt, that Calc gives the ticks   *)
(* of a line that line's direction, and that no old tick is left when the  *)
(* next one is made.                                                       *)
(***************************************************************************)
Agree ==
    /\ isrDir = NoDir \/ dirPin = isrDir
    /\ Usable => MotionDir = line.Dir
    /\ pc # "write" => tick = NoTick

LEMMA InitAgree == Init => Agree
BY DEF Init, Agree

LEMMA StepAgree == IInv /\ Agree /\ [Next \/ StopBetweenCalls]_vars => Agree'
<1> SUFFICES ASSUME IInv, Agree, [Next \/ StopBetweenCalls]_vars PROVE Agree'
  OBVIOUS
<1>1. CASE Call \/ Return
  BY <1>1 DEF Agree, Call, Return, lineVars, isrVars
<1>2. CASE TakeLine
  BY <1>2 DEF Agree, TakeLine, isrVars
<1>3. CASE LineEnds
  BY <1>3 DEF Agree, LineEnds, isrVars
<1>4. CASE Accelerate \/ Uniform \/ Decelerate \/ DecelerateDone
  <2>1. MakeTick
    BY <1>4 DEF Accelerate, Uniform, Decelerate, DecelerateDone, CountStep
  <2> QED
    BY <2>1 DEF Agree, MakeTick, isrVars
<1>5. CASE WriteTick
  BY <1>5 DEF Agree, WriteTick, lineVars, isrVars
<1>6. CASE StepperInterrupt
  <2>1. isrDir' = dirPin' \/ (isrDir' = isrDir /\ dirPin' = dirPin)
    BY <1>6 DEF StepperInterrupt
  <2> QED
    BY <1>6, <2>1 DEF Agree, StepperInterrupt, lineVars, callVars
<1>7. ASSUME NEW l \in Lines, PlanLine(l) PROVE Agree'
  BY <1>7 DEF Agree, PlanLine, lineVars, callVars, isrVars
<1>8. CASE StopBetweenCalls
  BY <1>8 DEF Agree, StopBetweenCalls, SteppersStopQuick, callVars, isrVars
<1>9. CASE UNCHANGED vars
  BY <1>9 DEF Agree, vars
<1> QED
  BY <1>1, <1>2, <1>3, <1>4, <1>5, <1>6, <1>7, <1>8, <1>9 DEF Next, Calc

\* The steps in a sequence of lines and in a sequence of ticks.
LinesSum(q, i) == Sum([k \in 1 .. Len(q) |-> LineSteps(q[k], i)])
TicksSum(f, i) == Sum([k \in 1 .. Len(f) |-> TickSteps(f[k], i)])
Current(i) == IF Usable THEN line.Dir[i] * (line.Steps[i] - AxisStepsCnt[i]) ELSE 0

LEMMA LineStepsType ==
    ASSUME NEW l \in LineType, NEW i \in Axis
    PROVE  /\ l.Dir[i] \in Int /\ l.Steps[i] \in Nat
           /\ LineSteps(l, i) \in Int
<1>1. l.Dir[i] \in Int /\ l.Steps[i] \in Nat
  BY DEF LineType, Dirs
<1> QED
  BY <1>1 DEF LineSteps

LEMMA TickStepsType ==
    ASSUME NEW t \in TickType, NEW i \in Axis
    PROVE  t.Dir[i] \in Int /\ TickSteps(t, i) \in Int
<1>1. t.Dir[i] \in Int
  BY DEF TickType, Dirs
<1> QED
  BY <1>1 DEF TickSteps

LEMMA LinesSumType ==
    ASSUME NEW q \in Seq(Lines), NEW i \in Axis
    PROVE  /\ [k \in 1 .. Len(q) |-> LineSteps(q[k], i)] \in Seq(Int)
           /\ LinesSum(q, i) \in Int
<1>1. \A k \in 1 .. Len(q) : LineSteps(q[k], i) \in Int
  BY LineStepsType, LinesAssumption
<1>2. [k \in 1 .. Len(q) |-> LineSteps(q[k], i)] \in Seq(Int)
  BY <1>1
<1> QED
  BY <1>2, SumType DEF LinesSum

LEMMA TicksSumType ==
    ASSUME NEW f \in Seq(TickType), NEW i \in Axis
    PROVE  /\ [k \in 1 .. Len(f) |-> TickSteps(f[k], i)] \in Seq(Int)
           /\ TicksSum(f, i) \in Int
<1>1. \A k \in 1 .. Len(f) : TickSteps(f[k], i) \in Int
  BY TickStepsType
<1>2. [k \in 1 .. Len(f) |-> TickSteps(f[k], i)] \in Seq(Int)
  BY <1>1
<1> QED
  BY <1>2, SumType DEF TicksSum

LEMMA LinesSumAppend ==
    ASSUME NEW q \in Seq(Lines), NEW l \in Lines, NEW i \in Axis
    PROVE  LinesSum(Append(q, l), i) = LinesSum(q, i) + LineSteps(l, i)
<1> DEFINE a == Append(q, l)
           s == [k \in 1 .. Len(q) |-> LineSteps(q[k], i)]
           r == [k \in 1 .. Len(a) |-> LineSteps(a[k], i)]
<1>1. /\ a \in Seq(Lines) /\ Len(a) = Len(q) + 1 /\ a[Len(a)] = l
      /\ \A k \in 1 .. Len(q) : a[k] = q[k]
  OBVIOUS
<1> HIDE DEF a
<1>2. s \in Seq(Int) /\ r \in Seq(Int)
  BY <1>1, LinesSumType
<1>3. Len(s) = Len(q) /\ Len(r) = Len(a) /\ Len(q) \in Nat
  BY <1>1
<1>4. r[Len(r)] = LineSteps(l, i) /\ \A k \in 1 .. Len(s) : r[k] = s[k]
  BY <1>1, <1>3
<1>5. LinesSum(q, i) = Sum(s) /\ LinesSum(a, i) = Sum(r)
  BY DEF LinesSum
<1> HIDE DEF s, r
<1>6. Sum(r) = Sum(s) + r[Len(r)]
  BY <1>1, <1>2, <1>3, <1>4, SumOneMore
<1> QED
  BY <1>4, <1>5, <1>6 DEF a

LEMMA LinesSumTail ==
    ASSUME NEW q \in Seq(Lines), q # << >>, NEW i \in Axis
    PROVE  LinesSum(q, i) = LineSteps(Head(q), i) + LinesSum(Tail(q), i)
<1> DEFINE a == Tail(q)
           s == [k \in 1 .. Len(q) |-> LineSteps(q[k], i)]
           r == [k \in 1 .. Len(a) |-> LineSteps(a[k], i)]
<1>1. /\ a \in Seq(Lines) /\ Len(q) = Len(a) + 1 /\ Head(q) = q[1]
      /\ \A k \in 1 .. Len(a) : a[k] = q[k + 1]
  OBVIOUS
<1> HIDE DEF a
<1>2. s \in Seq(Int) /\ r \in Seq(Int)
  BY <1>1, LinesSumType
<1>3. Len(s) = Len(q) /\ Len(r) = Len(a) /\ Len(a) \in Nat
  BY <1>1
<1>4. s[1] = LineSteps(Head(q), i) /\ \A k \in 1 .. Len(r) : r[k] = s[k + 1]
  BY <1>1, <1>3
<1>5. LinesSum(q, i) = Sum(s) /\ LinesSum(a, i) = Sum(r)
  BY DEF LinesSum
<1> HIDE DEF s, r
<1>6. Sum(s) = s[1] + Sum(r)
  BY <1>1, <1>2, <1>3, <1>4, SumOneLess
<1> QED
  BY <1>4, <1>5, <1>6 DEF a

LEMMA TicksSumAppend ==
    ASSUME NEW f \in Seq(TickType), NEW t \in TickType, NEW i \in Axis
    PROVE  TicksSum(Append(f, t), i) = TicksSum(f, i) + TickSteps(t, i)
<1> DEFINE a == Append(f, t)
           s == [k \in 1 .. Len(f) |-> TickSteps(f[k], i)]
           r == [k \in 1 .. Len(a) |-> TickSteps(a[k], i)]
<1>1. /\ a \in Seq(TickType) /\ Len(a) = Len(f) + 1 /\ a[Len(a)] = t
      /\ \A k \in 1 .. Len(f) : a[k] = f[k]
  OBVIOUS
<1> HIDE DEF a
<1>2. s \in Seq(Int) /\ r \in Seq(Int)
  BY <1>1, TicksSumType
<1>3. Len(s) = Len(f) /\ Len(r) = Len(a) /\ Len(f) \in Nat
  BY <1>1
<1>4. r[Len(r)] = TickSteps(t, i) /\ \A k \in 1 .. Len(s) : r[k] = s[k]
  BY <1>1, <1>3
<1>5. TicksSum(f, i) = Sum(s) /\ TicksSum(a, i) = Sum(r)
  BY DEF TicksSum
<1> HIDE DEF s, r
<1>6. Sum(r) = Sum(s) + r[Len(r)]
  BY <1>1, <1>2, <1>3, <1>4, SumOneMore
<1> QED
  BY <1>4, <1>5, <1>6 DEF a

LEMMA TicksSumTail ==
    ASSUME NEW f \in Seq(TickType), f # << >>, NEW i \in Axis
    PROVE  TicksSum(f, i) = TickSteps(Head(f), i) + TicksSum(Tail(f), i)
<1> DEFINE a == Tail(f)
           s == [k \in 1 .. Len(f) |-> TickSteps(f[k], i)]
           r == [k \in 1 .. Len(a) |-> TickSteps(a[k], i)]
<1>1. /\ a \in Seq(TickType) /\ Len(f) = Len(a) + 1 /\ Head(f) = f[1]
      /\ \A k \in 1 .. Len(a) : a[k] = f[k + 1]
  OBVIOUS
<1> HIDE DEF a
<1>2. s \in Seq(Int) /\ r \in Seq(Int)
  BY <1>1, TicksSumType
<1>3. Len(s) = Len(f) /\ Len(r) = Len(a) /\ Len(a) \in Nat
  BY <1>1
<1>4. s[1] = TickSteps(Head(f), i) /\ \A k \in 1 .. Len(r) : r[k] = s[k + 1]
  BY <1>1, <1>3
<1>5. TicksSum(f, i) = Sum(s) /\ TicksSum(a, i) = Sum(r)
  BY DEF TicksSum
<1> HIDE DEF s, r
<1>6. Sum(s) = s[1] + Sum(r)
  BY <1>1, <1>2, <1>3, <1>4, SumOneLess
<1> QED
  BY <1>4, <1>5, <1>6 DEF a

\* The steps still to come, before and after a step of the system, and their
\* types.
LEMMA ToComeIs ==
    ASSUME NEW i \in Axis
    PROVE  /\ ToCome(i) = LinesSum(queue, i) + Current(i) + TickSteps(tick, i)
                            + TicksSum(fifo, i)
           /\ ToCome(i)' = LinesSum(queue', i) + Current(i)' + TickSteps(tick', i)
                             + TicksSum(fifo', i)
BY DEF ToCome, Queued, Buffered, Current, LinesSum, TicksSum

LEMMA ToComeTypes ==
    ASSUME TypeOK, NEW i \in Axis
    PROVE  /\ LinesSum(queue, i) \in Int /\ Current(i) \in Int
           /\ TickSteps(tick, i) \in Int /\ TicksSum(fifo, i) \in Int
           /\ moved[i] \in Int
<1>1. line \in LineType /\ AxisStepsCnt[i] \in Nat
  BY DEF TypeOK
<1>2. line.Dir[i] \in Int /\ line.Steps[i] \in Nat
  BY <1>1, LineStepsType
<1>3. Current(i) \in Int
  <2>1. line.Steps[i] - AxisStepsCnt[i] \in Int
    BY <1>1, <1>2
  <2>2. line.Dir[i] * (line.Steps[i] - AxisStepsCnt[i]) \in Int
    BY <1>2, <2>1
  <2> QED
    BY <2>2 DEF Current
<1>4. tick \in TickType /\ fifo \in Seq(TickType) /\ queue \in Seq(Lines) /\ moved[i] \in Int
  BY DEF TypeOK
<1> QED
  BY <1>3, <1>4, LinesSumType, TicksSumType, TickStepsType

Conserved(i) == moved'[i] + ToCome(i)' = moved[i] + ToCome(i)

LEMMA NoTickSteps == ASSUME NEW i \in Axis PROVE TickSteps(NoTick, i) = 0
BY DEF TickSteps, NoTick

\* A line leaves the queue and becomes the current one, or has no step at all.
LEMMA TakeLineConserves ==
    ASSUME IInv, TakeLine, NEW i \in Axis
    PROVE  Conserved(i)
<1> DEFINE l == Head(queue)
<1>1. queue # << >> /\ queue \in Seq(Lines) /\ ~Usable /\ MaxSteps = 0
  BY DEF IInv, TypeOK, Control, TakeLine, LoopGoesOn
<1>2. l \in Lines /\ l \in LineType
  BY <1>1, LinesAssumption
<1>3. /\ line' = l /\ queue' = Tail(queue) /\ AxisStepsCnt'[i] = 0
      /\ Usable' = (l.Steps[LongestAbove(l, 0)] > 0)
      /\ tick' = tick /\ fifo' = fifo /\ moved' = moved
  BY <1>1 DEF TakeLine, ZeroOnAxes, isrVars
<1>4. l.Dir[i] \in Int /\ l.Steps[i] \in Nat /\ LineSteps(l, i) \in Int
  BY <1>2, LineStepsType
<1>5. /\ l.Steps[LongestAbove(l, 0)] \in Nat
      /\ l.Steps[i] <= l.Steps[LongestAbove(l, 0)]
  BY <1>2, LongestFromZero
<1>6. LinesSum(queue, i) = LineSteps(l, i) + LinesSum(queue', i)
  BY <1>1, <1>3, LinesSumTail
<1> HIDE DEF l
<1>7. Current(i) = 0
  BY <1>1 DEF Current
<1>8. Current(i)' = LineSteps(l, i)
  <2>1. CASE Usable'
    <3>1. Current(i)' = l.Dir[i] * (l.Steps[i] - 0)
      BY <1>3, <2>1 DEF Current
    <3> QED
      BY <1>4, <3>1 DEF LineSteps
  <2>2. CASE ~Usable'
    <3>0. ~ (l.Steps[LongestAbove(l, 0)] > 0)
      BY <1>3, <2>2
    <3>1. l.Steps[i] = 0
      BY <1>4, <1>5, <3>0
    <3>2. LineSteps(l, i) = 0
      BY <1>4, <3>1 DEF LineSteps
    <3> QED
      BY <2>2, <3>2 DEF Current
  <2> QED
    BY <2>1, <2>2
<1>9. /\ TickSteps(tick, i) \in Int /\ TicksSum(fifo, i) \in Int /\ moved[i] \in Int
      /\ LinesSum(queue, i) \in Int
  BY ToComeTypes DEF IInv
<1>10. LinesSum(queue', i) \in Int
  <2>1. queue' \in Seq(Lines)
    BY <1>1, <1>3
  <2> QED
    BY <2>1, LinesSumType
<1> QED
  BY <1>3, <1>4, <1>6, <1>7, <1>8, <1>9, <1>10, ToComeIs, SMTT(30) DEF Conserved

\* A finished line had no step left.
LEMMA LineEndsConserves ==
    ASSUME IInv, LineEnds, NEW i \in Axis
    PROVE  Conserved(i)
<1>1. /\ Usable /\ AxisStepsCnt = line.Steps /\ Usable' = FALSE
      /\ queue' = queue /\ tick' = tick /\ fifo' = fifo /\ moved' = moved
  BY DEF IInv, LineDoneExact, LineEnds, isrVars
<1>2. line.Dir[i] \in Int /\ line.Steps[i] \in Nat
  BY LineStepsType DEF IInv, TypeOK
<1>3. Current(i) = 0 /\ Current(i)' = 0
  <2>1. Current(i) = line.Dir[i] * (line.Steps[i] - line.Steps[i])
    BY <1>1 DEF Current
  <2>2. Current(i)' = 0
    BY <1>1 DEF Current
  <2> QED
    BY <1>2, <2>1, <2>2
<1> QED
  BY <1>1, <1>3, ToComeIs DEF Conserved

\* A tick carries the steps it takes from the line, in the line's direction.
LEMMA MakeTickConserves ==
    ASSUME IInv, Agree, MakeTick, pc = "loop", Usable, NEW i \in Axis
    PROVE  Conserved(i)
<1>1. /\ queue' = queue /\ line' = line /\ Usable' = Usable /\ fifo' = fifo
      /\ moved' = moved
      /\ AxisStepsCnt'[i] = AxisStepsCnt[i] + (IF i \in Moves THEN 1 ELSE 0)
      /\ tick'.Move = Moves /\ tick'.Dir = line.Dir
  BY DEF MakeTick, isrVars, Agree
<1>2. TickSteps(tick, i) = 0
  BY NoTickSteps DEF Agree
<1>3. line.Dir[i] \in Int /\ line.Steps[i] \in Nat /\ AxisStepsCnt[i] \in Nat
  BY LineStepsType DEF IInv, TypeOK
<1>4. LinesSum(queue, i) \in Int /\ TicksSum(fifo, i) \in Int /\ moved[i] \in Int
  BY ToComeTypes DEF IInv
<1>5. Current(i) = line.Dir[i] * (line.Steps[i] - AxisStepsCnt[i])
  BY DEF Current
<1>6. Current(i)' + TickSteps(tick', i) = Current(i) /\ Current(i)' \in Int
        /\ TickSteps(tick', i) \in Int
  <2>1. CASE i \in Moves
    <3>1. /\ TickSteps(tick', i) = line.Dir[i]
          /\ Current(i)' = line.Dir[i] * (line.Steps[i] - (AxisStepsCnt[i] + 1))
      BY <1>1, <2>1 DEF TickSteps, Current
    <3>2. \A d, s, c \in Int : d * (s - (c + 1)) + d = d * (s - c)
      OBVIOUS
    <3> QED
      BY <1>3, <1>5, <3>1, <3>2
  <2>2. CASE i \notin Moves
    <3>1. /\ TickSteps(tick', i) = 0
          /\ Current(i)' = line.Dir[i] * (line.Steps[i] - (AxisStepsCnt[i] + 0))
      BY <1>1, <2>2 DEF TickSteps, Current
    <3> QED
      BY <1>3, <1>5, <3>1
  <2> QED
    BY <2>1, <2>2
<1> QED
  BY <1>1, <1>2, <1>4, <1>6, ToComeIs, SMTT(30) DEF Conserved

LEMMA WriteTickConserves ==
    ASSUME IInv, WriteTick, NEW i \in Axis
    PROVE  Conserved(i)
<1>1. /\ queue' = queue /\ line' = line /\ Usable' = Usable
      /\ AxisStepsCnt' = AxisStepsCnt /\ moved' = moved
      /\ fifo' = Append(fifo, tick) /\ tick' = NoTick
      /\ fifo \in Seq(TickType) /\ tick \in TickType
  BY DEF WriteTick, lineVars, isrVars, IInv, TypeOK
<1>2. Current(i)' = Current(i)
  BY <1>1 DEF Current
<1>3. TicksSum(fifo', i) = TicksSum(fifo, i) + TickSteps(tick, i)
  BY <1>1, TicksSumAppend
<1>4. TickSteps(tick', i) = 0
  BY <1>1, NoTickSteps
<1>5. /\ LinesSum(queue, i) \in Int /\ Current(i) \in Int /\ TickSteps(tick, i) \in Int
      /\ TicksSum(fifo, i) \in Int /\ moved[i] \in Int
  BY ToComeTypes DEF IInv
<1> QED
  BY <1>1, <1>2, <1>3, <1>4, <1>5, ToComeIs, SMTT(30) DEF Conserved

\* The interrupt moves each motor as the tick says: the pins have the tick's
\* direction, whether it writes them now or wrote them for an earlier tick.
LEMMA StepperInterruptConserves ==
    ASSUME IInv, Agree, StepperInterrupt, NEW i \in Axis
    PROVE  Conserved(i)
<1> DEFINE t == Head(fifo)
<1>1. fifo # << >> /\ fifo \in Seq(TickType) /\ t \in TickType
  BY DEF IInv, TypeOK, StepperInterrupt
<1>2. /\ dirPin' = (IF DirChanges(t) THEN t.Dir ELSE dirPin)
      /\ moved'[i] = moved[i] + (IF i \in t.Move THEN dirPin'[i] ELSE 0)
      /\ fifo' = Tail(fifo) /\ queue' = queue /\ line' = line /\ Usable' = Usable
      /\ AxisStepsCnt' = AxisStepsCnt /\ tick' = tick
  BY DEF StepperInterrupt, lineVars, callVars
<1>3. TicksSum(fifo, i) = TickSteps(t, i) + TicksSum(fifo', i)
  BY <1>1, <1>2, TicksSumTail
<1> HIDE DEF t
<1>4. t.Dir # NoDir
  <2>1. t.Dir[i] \in Dirs
    BY <1>1 DEF TickType
  <2> QED
    BY <2>1 DEF NoDir, Dirs
<1>5. dirPin' = t.Dir
  BY <1>2, <1>4 DEF DirChanges, Agree
<1>6. moved'[i] = moved[i] + TickSteps(t, i)
  BY <1>2, <1>5 DEF TickSteps
<1>7. TickSteps(t, i) \in Int /\ TicksSum(fifo', i) \in Int
  <2>1. fifo' \in Seq(TickType)
    BY <1>1, <1>2
  <2> QED
    BY <1>1, <2>1, TickStepsType, TicksSumType
<1>8. /\ LinesSum(queue, i) \in Int /\ Current(i) \in Int /\ TickSteps(tick, i) \in Int
      /\ moved[i] \in Int
  BY ToComeTypes DEF IInv
<1>9. Current(i)' = Current(i)
  BY <1>2 DEF Current
<1> QED
  BY <1>2, <1>3, <1>6, <1>7, <1>8, <1>9, ToComeIs, SMTT(30) DEF Conserved

\* Planning a line adds exactly its steps.
LEMMA PlanLineAdds ==
    ASSUME IInv, NEW l \in Lines, PlanLine(l), NEW i \in Axis
    PROVE  /\ planned' = planned + 1
           /\ moved'[i] + ToCome(i)' = moved[i] + ToCome(i)
                                         + LineSteps(queue'[Len(queue')], i)
<1>1. /\ queue' = Append(queue, l) /\ queue \in Seq(Lines) /\ planned' = planned + 1
      /\ line' = line /\ Usable' = Usable /\ AxisStepsCnt' = AxisStepsCnt
      /\ tick' = tick /\ fifo' = fifo /\ moved' = moved
  BY DEF PlanLine, lineVars, callVars, isrVars, IInv, TypeOK
<1>2. queue'[Len(queue')] = l
  BY <1>1
<1>3. LinesSum(queue', i) = LinesSum(queue, i) + LineSteps(l, i)
  BY <1>1, LinesSumAppend
<1>4. LineSteps(l, i) \in Int
  BY LineStepsType, LinesAssumption
<1>5. /\ LinesSum(queue, i) \in Int /\ Current(i) \in Int /\ TickSteps(tick, i) \in Int
      /\ TicksSum(fifo, i) \in Int /\ moved[i] \in Int
  BY ToComeTypes DEF IInv
<1>6. Current(i)' = Current(i)
  BY <1>1 DEF Current
<1> QED
  BY <1>1, <1>2, <1>3, <1>4, <1>5, <1>6, ToComeIs, SMTT(30)

LEMMA UnchangedConserves ==
    ASSUME UNCHANGED <<queue, line, Usable, AxisStepsCnt, tick, fifo, moved>>, NEW i \in Axis
    PROVE  Conserved(i)
<1>1. Current(i)' = Current(i)
  BY DEF Current
<1> QED
  BY <1>1, ToComeIs DEF Conserved

\* The part of StepsConserved about one step of the system.
ConservingStep ==
    \A i \in Axis :
      \/ moved'[i] + ToCome(i)' = moved[i] + ToCome(i)
      \/ /\ planned' = planned + 1
         /\ moved'[i] + ToCome(i)' = moved[i] + ToCome(i)
                                       + LineSteps(queue'[Len(queue')], i)
      \/ StopBetweenCalls

\* For every number of axes, every set of lines, every length of the queue, of
\* the FIFO and of a call of Calc: between PlanLine and the motor no step is
\* lost, added or made in the wrong direction, whatever the interleaving of
\* the planner, Calc and the step interrupt; only a quick stop discards steps.
THEOREM StepsAreConserved == StopSpec => StepsConserved
<1>1. IInv /\ Agree /\ [Next \/ StopBetweenCalls]_vars => [ConservingStep]_vars
  <2> SUFFICES ASSUME IInv, Agree, Next \/ StopBetweenCalls, NEW i \in Axis
               PROVE  \/ Conserved(i)
                      \/ /\ planned' = planned + 1
                         /\ moved'[i] + ToCome(i)' = moved[i] + ToCome(i)
                                                       + LineSteps(queue'[Len(queue')], i)
                      \/ StopBetweenCalls
    BY DEF ConservingStep, Conserved
  <2>1. CASE Call \/ Return
    BY <2>1, UnchangedConserves DEF Call, Return, lineVars, isrVars
  <2>2. CASE TakeLine
    BY <2>2, TakeLineConserves
  <2>3. CASE LineEnds
    BY <2>3, LineEndsConserves
  <2>4. CASE Accelerate \/ Uniform \/ Decelerate \/ DecelerateDone
    <3>1. MakeTick /\ pc = "loop" /\ Usable
      BY <2>4 DEF Accelerate, Uniform, Decelerate, DecelerateDone, CountStep
    <3> QED
      BY <3>1, MakeTickConserves
  <2>5. CASE WriteTick
    BY <2>5, WriteTickConserves
  <2>6. CASE StepperInterrupt
    BY <2>6, StepperInterruptConserves
  <2>7. ASSUME NEW l \in Lines, PlanLine(l)
        PROVE  /\ planned' = planned + 1
               /\ moved'[i] + ToCome(i)' = moved[i] + ToCome(i)
                                             + LineSteps(queue'[Len(queue')], i)
    BY <2>7, PlanLineAdds
  <2> QED
    BY <2>1, <2>2, <2>3, <2>4, <2>5, <2>6, <2>7 DEF Next, Calc
<1>2. StopSpec => []Agree
  BY InitAgree, StepAgree, Invariance, PTL DEF StopSpec
<1>3. StopSpec => [][ConservingStep]_vars
  BY <1>1, <1>2, Invariance, PTL DEF StopSpec
<1> QED
  BY <1>3 DEF StepsConserved, ConservingStep

-----------------------------------------------------------------------------
(***************************************************************************)
(* Quick stops at any moment.  The error accumulators are then no longer   *)
(* on track, but the types stay, and no axis gets more pulses than its     *)
(* line has steps: that rests on the limit in Moves alone.                 *)
(***************************************************************************)
NoneTooMany == \A i \in Axis : AxisStepsCnt[i] <= line.Steps[i]

AnyStopInv ==
    /\ TypeOK
    /\ pc = "write" => LoopIndex < MotionNum
    /\ NoneTooMany

LEMMA LongestFromAny ==
    ASSUME NEW l \in Lines, NEW m \in Nat
    PROVE  LongestAbove(l, m) \in Axis /\ NewMaxSteps(l, m) \in Nat
<1>1. FirstLongest(l) \in Axis /\ 1 \in Axis
  BY FirstLongestIs, AxisNumAssumption DEF Axis
<1>2. MostSteps(l) \in Nat
  BY <1>1, LinesAssumption DEF MostSteps, LineType
<1> QED
  BY <1>1, <1>2 DEF LongestAbove, NewMaxSteps

LEMMA InitAnyStopInv == Init => AnyStopInv
<1> SUFFICES ASSUME Init PROVE AnyStopInv
  OBVIOUS
<1>1. TypeOK
  BY InitIInv DEF IInv
<1>2. NoneTooMany
  BY DEF Init, NoLine, ZeroOnAxes, NoneTooMany
<1> QED
  BY <1>1, <1>2 DEF Init, AnyStopInv

LEMMA TakeLineAnyStop == AnyStopInv /\ TakeLine => AnyStopInv'
<1> SUFFICES ASSUME AnyStopInv, TakeLine PROVE AnyStopInv'
  OBVIOUS
<1> DEFINE l == Head(queue)
<1>1. queue # << >> /\ queue \in Seq(Lines) /\ MaxSteps \in Nat
  BY DEF AnyStopInv, TypeOK, TakeLine, LoopGoesOn
<1>2. l \in Lines /\ l \in LineType /\ Tail(queue) \in Seq(Lines)
  BY <1>1, LinesAssumption
<1> DEFINE M == NewMaxSteps(l, MaxSteps)
<1>3. /\ line' = l /\ LongestAxis' = LongestAbove(l, MaxSteps) /\ MaxSteps' = M
      /\ NewDeltaErr' = [i \in Axis |-> -M] /\ NewDevision' = 2 * M
      /\ MotionDir' = l.Dir
      /\ Usable' = (l.Steps[LongestAxis'] > 0)
      /\ AxisStepsCnt' = ZeroOnAxes /\ StepsCount' = 0 /\ Status' = "ACCELERATE"
      /\ pc = "loop" /\ queue' = Tail(queue)
      /\ UNCHANGED <<pc, LoopIndex, StepInterval, tick, fifo, isrVars, planned>>
  BY DEF TakeLine
<1>4. LongestAxis' \in Axis /\ M \in Nat
  BY <1>1, <1>2, <1>3, LongestFromAny
<1> HIDE DEF l, M
<1>5. l.Dir \in [Axis -> Dirs] /\ \A i \in Axis : l.Steps[i] \in Nat
  BY <1>2 DEF LineType
<1>6. NewDeltaErr' \in [Axis -> Int] /\ NewDevision' \in Nat
  BY <1>3, <1>4
<1>7. AxisStepsCnt' \in [Axis -> Nat] /\ \A i \in Axis : AxisStepsCnt'[i] = 0
  BY <1>3 DEF ZeroOnAxes
<1>8. Usable' \in BOOLEAN
  BY <1>3
<1>9. TypeOK'
  BY <1>2, <1>3, <1>4, <1>5, <1>6, <1>7, <1>8 DEF AnyStopInv, TypeOK, isrVars
<1>10. NoneTooMany'
  BY <1>3, <1>5, <1>7 DEF NoneTooMany
<1> QED
  BY <1>3, <1>9, <1>10 DEF AnyStopInv

LEMMA MakeTickAnyStop ==
    ASSUME AnyStopInv, MakeTick, pc = "loop", LoopGoesOn,
           StepInterval' \in {0, 1}, StepsCount' \in Nat,
           Status' \in {"STOP", "ACCELERATE", "UNIFORM", "DECELERATE"}
    PROVE  AnyStopInv'
<1>1. /\ tick' \in TickType
      /\ NewDeltaErr' \in [Axis -> Int]
      /\ AxisStepsCnt' \in [Axis -> Nat]
  BY MakeTickType DEF AnyStopInv
<1>2. UNCHANGED <<queue, line, Usable, LongestAxis, NewDevision, MotionDir,
                  LoopIndex, MaxSteps, fifo, isrVars, planned>> /\ pc' = "write"
  BY DEF MakeTick
<1>3. TypeOK'
  BY <1>1, <1>2 DEF AnyStopInv, TypeOK, isrVars
<1>4. LoopIndex < MotionNum
  BY MotionNumAssumption DEF AnyStopInv, TypeOK, LoopGoesOn
<1>5. ASSUME NEW i \in Axis PROVE AxisStepsCnt'[i] <= line.Steps[i]
  <2>1. AxisStepsCnt[i] \in Nat /\ line.Steps[i] \in Nat /\ AxisStepsCnt[i] <= line.Steps[i]
    BY DEF AnyStopInv, TypeOK, LineType, NoneTooMany
  <2>2. CASE i \in Moves
    BY <2>1, <2>2 DEF MakeTick, Moves
  <2>3. CASE i \notin Moves
    BY <2>1, <2>3 DEF MakeTick
  <2> QED
    BY <2>2, <2>3
<1> QED
  BY <1>2, <1>3, <1>4, <1>5 DEF AnyStopInv, NoneTooMany

LEMMA StepAnyStopInv == AnyStopInv /\ [Next \/ SteppersStopQuick]_vars => AnyStopInv'
<1> SUFFICES ASSUME AnyStopInv, [Next \/ SteppersStopQuick]_vars PROVE AnyStopInv'
  OBVIOUS
<1>t. StepsCount \in Nat /\ TotalSteps \in Nat /\ StepInterval \in {0, 1}
  BY DEF AnyStopInv, TypeOK, LineType, TotalSteps
<1>1. CASE Call
  <2>1. TypeOK'
    BY <1>1, MotionNumAssumption DEF AnyStopInv, TypeOK, Call, lineVars, isrVars
  <2> QED
    BY <1>1, <2>1 DEF AnyStopInv, NoneTooMany, Call, lineVars
<1>2. CASE Return
  <2>1. TypeOK'
    BY <1>2 DEF AnyStopInv, TypeOK, Return, lineVars, isrVars
  <2> QED
    BY <1>2, <2>1 DEF AnyStopInv, NoneTooMany, Return, lineVars
<1>3. CASE TakeLine
  BY <1>3, TakeLineAnyStop
<1>4. CASE LineEnds
  <2>1. AllBackward \in [Axis -> Dirs]
    BY DEF AllBackward, Dirs
  <2>2. TypeOK'
    BY <1>4, <2>1 DEF AnyStopInv, TypeOK, LineEnds, isrVars
  <2> QED
    BY <1>4, <2>2 DEF AnyStopInv, NoneTooMany, LineEnds
<1>5. ASSUME NEW next \in {"STOP", "ACCELERATE", "UNIFORM", "DECELERATE"},
             pc = "loop", LoopGoesOn, CountStep(next)
      PROVE  AnyStopInv'
  <2>1. MakeTick /\ StepInterval' \in {0, 1} /\ StepsCount' \in Nat /\ Status' = next
    BY <1>5, <1>t DEF CountStep
  <2> QED
    BY <1>5, <2>1, MakeTickAnyStop
<1>6. CASE Accelerate \/ Uniform \/ Decelerate
  <2>1. AfterAccelerate(StepsCount + 1) \in {"STOP", "ACCELERATE", "UNIFORM", "DECELERATE"}
    BY DEF AfterAccelerate
  <2>2. AfterUniform(StepsCount + 1) \in {"STOP", "ACCELERATE", "UNIFORM", "DECELERATE"}
    BY DEF AfterUniform
  <2> QED
    BY <1>5, <1>6, <2>1, <2>2 DEF Accelerate, Uniform, Decelerate
<1>7. CASE DecelerateDone
  BY <1>7, <1>t, MakeTickAnyStop DEF DecelerateDone
<1>8. CASE WriteTick
  <2>1. NoTick \in TickType
    BY DEF NoTick, TickType, AllBackward, Dirs
  <2>2. fifo' \in Seq(TickType)
    BY <1>8 DEF AnyStopInv, TypeOK, WriteTick
  <2>3. LoopIndex' \in 0 .. MotionNum
    BY <1>8, MotionNumAssumption DEF AnyStopInv, TypeOK, WriteTick
  <2>4. TypeOK'
    BY <1>8, <2>1, <2>2, <2>3 DEF AnyStopInv, TypeOK, WriteTick, lineVars, isrVars
  <2> QED
    BY <1>8, <2>4 DEF AnyStopInv, NoneTooMany, WriteTick, lineVars
<1>9. CASE StepperInterrupt
  <2>1. TypeOK'
    BY <1>9, StepperInterruptTypes DEF AnyStopInv
  <2> QED
    BY <1>9, <2>1 DEF AnyStopInv, NoneTooMany, StepperInterrupt, lineVars, callVars
<1>10. ASSUME NEW l \in Lines, PlanLine(l) PROVE AnyStopInv'
  <2>1. queue' \in Seq(Lines) /\ planned' \in Nat
    BY <1>10 DEF AnyStopInv, TypeOK, PlanLine
  <2>2. TypeOK'
    BY <1>10, <2>1 DEF AnyStopInv, TypeOK, PlanLine, lineVars, callVars, isrVars
  <2> QED
    BY <1>10, <2>2 DEF AnyStopInv, NoneTooMany, PlanLine, lineVars, callVars
<1>11. CASE SteppersStopQuick
  <2>1. << >> \in Seq(Lines) /\ << >> \in Seq(TickType)
    OBVIOUS
  <2>2. TypeOK'
    BY <1>11, <2>1 DEF AnyStopInv, TypeOK, SteppersStopQuick, callVars, isrVars
  <2> QED
    BY <1>11, <2>2 DEF AnyStopInv, NoneTooMany, SteppersStopQuick, callVars
<1>12. CASE UNCHANGED vars
  <2>1. TypeOK'
    BY <1>12 DEF AnyStopInv, TypeOK, vars
  <2> QED
    BY <1>12, <2>1 DEF AnyStopInv, NoneTooMany, vars
<1> QED
  BY <1>1, <1>2, <1>3, <1>4, <1>6, <1>7, <1>8, <1>9, <1>10, <1>11, <1>12
  DEF Next, Calc

\* Whenever SteppersStopQuick comes, also in the middle of a call of Calc, a
\* call makes at most MotionNum ticks and every variable keeps its type.
THEOREM AnyStopTypeCorrect == AnyStopSpec => []TypeOK
<1>1. AnyStopSpec => []AnyStopInv
  BY InitAnyStopInv, StepAnyStopInv, PTL DEF AnyStopSpec
<1>2. AnyStopInv => TypeOK
  BY DEF AnyStopInv
<1> QED
  BY <1>1, <1>2, PTL

\* Whenever SteppersStopQuick comes, no axis is given more pulses for a line
\* than the line has steps, though the line taken next may be interpolated
\* with a wrong longest axis.
THEOREM NoneTooManyPulses == AnyStopSpec => []NoneTooMany
<1>1. AnyStopSpec => []AnyStopInv
  BY InitAnyStopInv, StepAnyStopInv, PTL DEF AnyStopSpec
<1>2. AnyStopInv => NoneTooMany
  BY DEF AnyStopInv
<1> QED
  BY <1>1, <1>2, PTL
=============================================================================
