------------------------- MODULE PlanLineBuffProofs -------------------------
(***************************************************************************)
(* Proofs about PlanLineBuff, for every size of the ring and any number of *)
(* lines: without a stop, with stops at any moment (StopTypeCorrect) and   *)
(* with those of the G-code thread (GcodeStopSpec).                        *)
(***************************************************************************)
EXTENDS PlanLineBuff, TLAPS

-----------------------------------------------------------------------------
(***************************************************************************)
(* Index arithmetic.                                                       *)
(***************************************************************************)
LEMMA ModSmall ==
    ASSUME NEW n \in Int, 0 <= n, n < 2 * BuffMaxSize
    PROVE  n % BuffMaxSize = IF n < BuffMaxSize THEN n ELSE n - BuffMaxSize
<1>1. CASE n < BuffMaxSize
  BY <1>1, BuffMaxSizeAssumption
<1>2. CASE n >= BuffMaxSize
  BY <1>2, BuffMaxSizeAssumption
<1> QED
  BY <1>1, <1>2, BuffMaxSizeAssumption

\* The mask keeps an index inside the ring, and different ones different.
LEMMA NextIndexFacts ==
    /\ \A i \in Slots : NextPlanLineIndex(i) \in Slots
    /\ \A i, j \in Slots : NextPlanLineIndex(i) = NextPlanLineIndex(j) => i = j
    /\ \A i \in Slots : NextPlanLineIndex(i) # i
<1>1. \A i \in Slots : NextPlanLineIndex(i) = IF i + 1 < BuffMaxSize THEN i + 1 ELSE 0
  BY ModSmall, BuffMaxSizeAssumption DEF NextPlanLineIndex, Slots
<1> QED
  BY <1>1, BuffMaxSizeAssumption DEF Slots

\* The k-th slot from the head h on, and the number of slots from h to the tail t.
Slot(h, k) == (h + k - 1) % BuffMaxSize
Dist(h, t) == (t + BuffMaxSize - h) % BuffMaxSize

LEMMA SlotFacts ==
    ASSUME NEW h \in Slots, NEW k \in 1 .. BuffMaxSize
    PROVE  /\ Slot(h, k) = IF h + k - 1 < BuffMaxSize THEN h + k - 1
                                                      ELSE h + k - 1 - BuffMaxSize
           /\ Slot(h, k) \in Slots
<1>1. h + k - 1 \in Int /\ 0 <= h + k - 1 /\ h + k - 1 < 2 * BuffMaxSize
  BY BuffMaxSizeAssumption DEF Slots
<1>2. Slot(h, k) = IF h + k - 1 < BuffMaxSize THEN h + k - 1 ELSE h + k - 1 - BuffMaxSize
  <2> DEFINE n == h + k - 1
  <2>1. n \in Int /\ 0 <= n /\ n < 2 * BuffMaxSize
    BY <1>1
  <2> HIDE DEF n
  <2>2. n % BuffMaxSize = IF n < BuffMaxSize THEN n ELSE n - BuffMaxSize
    BY <2>1, ModSmall
  <2>3. Slot(h, k) = n % BuffMaxSize
    BY Zenon DEF n, Slot
  <2>4. Slot(h, k) = IF n < BuffMaxSize THEN n ELSE n - BuffMaxSize
    BY <2>2, <2>3
  <2> QED
    BY <2>1, <2>4, BuffMaxSizeAssumption DEF n, Slots
<1> QED
  BY <1>1, <1>2, BuffMaxSizeAssumption DEF Slots

LEMMA DistFacts ==
    ASSUME NEW h \in Slots, NEW t \in Slots
    PROVE  /\ Dist(h, t) = IF t >= h THEN t - h ELSE t + BuffMaxSize - h
           /\ Dist(h, t) \in 0 .. BuffMaxSize - 1
           /\ Dist(h, t) = 0 <=> h = t
<1>1. t + BuffMaxSize - h \in Int /\ 0 <= t + BuffMaxSize - h
        /\ t + BuffMaxSize - h < 2 * BuffMaxSize
  BY BuffMaxSizeAssumption DEF Slots
<1>2. Dist(h, t) = IF t >= h THEN t - h ELSE t + BuffMaxSize - h
  BY <1>1, ModSmall, BuffMaxSizeAssumption DEF Dist, Slots
<1> QED
  BY <1>1, <1>2, BuffMaxSizeAssumption DEF Slots

\* The slot after the lines is the tail; the lines do not reach it.
LEMMA TailSlot ==
    ASSUME NEW h \in Slots, NEW t \in Slots
    PROVE  /\ Slot(h, Dist(h, t) + 1) = t
           /\ \A k \in 1 .. Dist(h, t) : Slot(h, k) \in Slots /\ Slot(h, k) # t
<1>1. Dist(h, t) + 1 \in 1 .. BuffMaxSize
  BY DistFacts, BuffMaxSizeAssumption
<1>2. Slot(h, Dist(h, t) + 1) = t
  <2> DEFINE k == Dist(h, t) + 1
  <2>1. k = IF t >= h THEN t - h + 1 ELSE t + BuffMaxSize - h + 1
    BY DistFacts, BuffMaxSizeAssumption DEF Slots
  <2> HIDE DEF k
  <2>2. Slot(h, k) = IF h + k - 1 < BuffMaxSize THEN h + k - 1 ELSE h + k - 1 - BuffMaxSize
    BY <1>1, SlotFacts DEF k
  <2>3. Slot(h, k) = t
    BY <2>1, <2>2, BuffMaxSizeAssumption DEF Slots
  <2> QED
    BY <2>3 DEF k
<1>3. ASSUME NEW k \in 1 .. Dist(h, t) PROVE Slot(h, k) \in Slots /\ Slot(h, k) # t
  <2>1. k \in 1 .. BuffMaxSize
    BY DistFacts, BuffMaxSizeAssumption
  <2>2. k <= IF t >= h THEN t - h ELSE t + BuffMaxSize - h
    BY DistFacts, BuffMaxSizeAssumption
  <2>3. Slot(h, k) = IF h + k - 1 < BuffMaxSize THEN h + k - 1 ELSE h + k - 1 - BuffMaxSize
    BY <2>1, SlotFacts
  <2> QED
    BY <2>1, <2>2, <2>3, SlotFacts, BuffMaxSizeAssumption DEF Slots
<1> QED
  BY <1>2, <1>3

\* An advance of the tail of a ring that is not full, and of the head of one
\* that is not empty.
LEMMA AdvanceTail ==
    ASSUME NEW h \in Slots, NEW t \in Slots, h # NextPlanLineIndex(t)
    PROVE  Dist(h, NextPlanLineIndex(t)) = Dist(h, t) + 1
<1>1. NextPlanLineIndex(t) = IF t + 1 < BuffMaxSize THEN t + 1 ELSE 0
  BY ModSmall, BuffMaxSizeAssumption DEF NextPlanLineIndex, Slots
<1> DEFINE n == NextPlanLineIndex(t)
<1>2. n \in Slots
  BY NextIndexFacts
<1>3. n = IF t + 1 < BuffMaxSize THEN t + 1 ELSE 0
  BY <1>1
<1> HIDE DEF n
<1>4. /\ Dist(h, n) = IF n >= h THEN n - h ELSE n + BuffMaxSize - h
      /\ Dist(h, t) = IF t >= h THEN t - h ELSE t + BuffMaxSize - h
  BY <1>2, DistFacts
<1>5. h # n
  BY DEF n
<1>6. Dist(h, n) = Dist(h, t) + 1
  BY <1>3, <1>4, <1>5, BuffMaxSizeAssumption DEF Slots
<1> QED
  BY <1>6 DEF n

LEMMA AdvanceHead ==
    ASSUME NEW h \in Slots, NEW t \in Slots, h # t
    PROVE  /\ Dist(NextPlanLineIndex(h), t) = Dist(h, t) - 1
           /\ \A k \in 1 .. Dist(h, t) - 1 : Slot(NextPlanLineIndex(h), k) = Slot(h, k + 1)
           /\ Slot(h, 1) = h
<1>1. NextPlanLineIndex(h) = IF h + 1 < BuffMaxSize THEN h + 1 ELSE 0
  BY ModSmall, BuffMaxSizeAssumption DEF NextPlanLineIndex, Slots
<1> DEFINE n == NextPlanLineIndex(h)
<1>2. n \in Slots /\ n = IF h + 1 < BuffMaxSize THEN h + 1 ELSE 0
  BY <1>1, NextIndexFacts
<1> HIDE DEF n
<1>3. Dist(n, t) = Dist(h, t) - 1
  <2>1. /\ Dist(n, t) = IF t >= n THEN t - n ELSE t + BuffMaxSize - n
        /\ Dist(h, t) = IF t >= h THEN t - h ELSE t + BuffMaxSize - h
    BY <1>2, DistFacts
  <2> QED
    BY <1>2, <2>1, BuffMaxSizeAssumption DEF Slots
<1>4. ASSUME NEW k \in 1 .. Dist(h, t) - 1
      PROVE  Slot(n, k) = Slot(h, k + 1)
  <2> DEFINE j == k + 1
  <2>1. k \in 1 .. BuffMaxSize /\ j \in 1 .. BuffMaxSize /\ j = k + 1
    BY DistFacts, BuffMaxSizeAssumption
  <2> HIDE DEF j
  <2>2. /\ Slot(n, k) = IF n + k - 1 < BuffMaxSize THEN n + k - 1 ELSE n + k - 1 - BuffMaxSize
        /\ Slot(h, j) = IF h + j - 1 < BuffMaxSize THEN h + j - 1 ELSE h + j - 1 - BuffMaxSize
    BY <1>2, <2>1, SlotFacts
  <2>3. Slot(n, k) = Slot(h, j)
    BY <1>2, <2>1, <2>2, BuffMaxSizeAssumption DEF Slots
  <2> QED
    BY <2>3 DEF j
<1>5. Slot(h, 1) = h
  BY SlotFacts, BuffMaxSizeAssumption DEF Slots
<1> QED
  BY <1>3, <1>4, <1>5 DEF n

-----------------------------------------------------------------------------
(***************************************************************************)
(* The invariant.  What the command thread found out about the ring (there *)
(* is room) and what the calculation thread did (there is a line) stays    *)
(* true until they act on it, whatever the other one does meanwhile.       *)
(***************************************************************************)
RoomStays ==
    cmd \in {"usable", "tail"} =>
      /\ ~IsPlanLineBuffFull
      /\ planned < MaxLines
      /\ LineBuff[LineBuffTail] = planned + 1

LineStays ==
    /\ calc \in {"usable?", "claim", "copy", "advance"} => ~IsPlanLineBuffEmpty
    /\ calc = "advance" => Line = LineBuff[LineBuffHead]

RingInv == TypeOK /\ RoomStays /\ LineStays

LEMMA RingInit == Init => RingInv
<1> SUFFICES ASSUME Init PROVE RingInv
  OBVIOUS
<1>1. 0 \in Slots
  BY BuffMaxSizeAssumption DEF Slots
<1>2. TypeOK
  <2>1. LineUsable \in BOOLEAN /\ finished \in BOOLEAN
    BY DEF Init
  <2>2. LineBuff \in [Slots -> Nat] /\ Usable \in [Slots -> BOOLEAN]
    BY DEF Init, Blank
  <2>3. ticksLeft \in 0 .. Ticks /\ fifo \in 0 .. FifoLen
    BY LengthsAssumption DEF Init
  <2>4. taken \in Seq(Nat)
    BY DEF Init
  <2> QED
    BY <1>1, <2>1, <2>2, <2>3, <2>4 DEF Init, TypeOK, Blank
<1> QED
  BY <1>2 DEF Init, RingInv, RoomStays, LineStays

LEMMA PlanLineKeeps == ASSUME RingInv, PlanLine PROVE RingInv'
<1> USE DEF RingInv, TypeOK, RoomStays, LineStays, IsPlanLineBuffEmpty, IsPlanLineBuffFull
<1>1. CASE StuffLineBuff
  <2>1. /\ LineBuff' = [LineBuff EXCEPT ![LineBuffTail] = planned + 1]
        /\ planned < MaxLines /\ ~IsPlanLineBuffFull /\ cmd' = "usable" /\ finished' = FALSE
        /\ UNCHANGED <<Usable, LineBuffHead, LineBuffTail, at, tailSeen, calcVars, fifo,
                       planned, stopped, stops>>
    BY <1>1 DEF StuffLineBuff
  <2>2. /\ LineBuff' \in [Slots -> Nat] /\ LineBuff'[LineBuffTail] = planned + 1
        /\ \A s \in Slots : s # LineBuffTail => LineBuff'[s] = LineBuff[s]
    BY <2>1
  <2>3. TypeOK'
    BY <2>1, <2>2 DEF calcVars
  <2>4. RoomStays' /\ LineStays'
    BY <2>1, <2>2 DEF calcVars
  <2> QED
    BY <2>3, <2>4
<1>2. CASE SetUsable
  BY <1>2 DEF SetUsable, calcVars
<1>3. CASE OffsetTail
  <2>1. NextPlanLineIndex(LineBuffTail) \in Slots
    BY NextIndexFacts
  <2>2. TypeOK'
    BY <1>3, <2>1 DEF OffsetTail, calcVars
  <2>3. LineBuffHead' # LineBuffTail'
    BY <1>3 DEF OffsetTail
  <2>4. cmd' = "recalc" /\ UNCHANGED <<calc, Line, LineBuff, LineBuffHead>>
    BY <1>3 DEF OffsetTail, calcVars
  <2> QED
    BY <2>2, <2>3, <2>4
<1>4. CASE TrapezoidCalculate
  BY <1>4 DEF TrapezoidCalculate, calcVars, ringVars
<1>5. CASE SkipSlot
  BY <1>5, NextIndexFacts DEF SkipSlot, calcVars, ringVars
<1>6. CASE LockSlot
  BY <1>6 DEF LockSlot, calcVars, ringVars
<1>7. CASE ClearUsable
  BY <1>7 DEF ClearUsable, calcVars
<1>8. CASE UnlockSlot
  BY <1>8, NextIndexFacts DEF UnlockSlot, UsableAgain, calcVars
<1> QED
  BY <1>1, <1>2, <1>3, <1>4, <1>5, <1>6, <1>7, <1>8 DEF PlanLine

LEMMA CompleteKeeps == ASSUME RingInv, IsMotionComplete PROVE RingInv'
<1> USE DEF RingInv, TypeOK, RoomStays, LineStays, IsPlanLineBuffEmpty, IsPlanLineBuffFull
<1>1. CASE ReadFifo
  BY <1>1 DEF ReadFifo, calcVars, ringVars
<1>2. CASE ReadCurrentLine
  BY <1>2 DEF ReadCurrentLine, calcVars, ringVars
<1>3. CASE ReadRing
  BY <1>3 DEF ReadRing, calcVars, ringVars
<1> QED
  BY <1>1, <1>2, <1>3 DEF IsMotionComplete

LEMMA CalcKeeps == ASSUME RingInv, Calc PROVE RingInv'
<1> USE LengthsAssumption DEF RingInv, TypeOK, RoomStays, LineStays, IsPlanLineBuffEmpty,
                              IsPlanLineBuffFull
<1>1. CASE CalcLoop
  BY <1>1 DEF CalcLoop, cmdVars, ringVars
<1>2. CASE TakeEmptyCheck
  BY <1>2 DEF TakeEmptyCheck, cmdVars, ringVars
<1>3. CASE TakeUsableCheck
  BY <1>3 DEF TakeUsableCheck, cmdVars, ringVars
<1>4. CASE TakeClaim
  BY <1>4 DEF TakeClaim, cmdVars
<1>5. CASE TakeCopy
  BY <1>5 DEF TakeCopy, cmdVars, ringVars
<1>6. CASE TakeAdvance
  <2>1. NextPlanLineIndex(LineBuffHead) \in Slots
    BY NextIndexFacts
  <2>2. TypeOK'
    BY <1>6, <2>1 DEF TakeAdvance, HeadAfterTake, cmdVars
  <2>3. /\ LineBuffHead' = NextPlanLineIndex(LineBuffHead) /\ calc' = "tick"
        /\ UNCHANGED <<LineBuff, LineBuffTail, cmd, planned>>
    BY <1>6 DEF TakeAdvance, HeadAfterTake, cmdVars
  <2>4. LineBuffHead # LineBuffTail /\ LineBuffHead \in Slots /\ LineBuffTail \in Slots
    BY <1>6 DEF TakeAdvance
  <2>5. LineBuffHead' # NextPlanLineIndex(LineBuffTail)
    BY <2>3, <2>4, NextIndexFacts
  <2> QED
    BY <2>2, <2>3, <2>5
<1>7. CASE EmitTick
  BY <1>7 DEF EmitTick, cmdVars, ringVars
<1>8. CASE LineEnds
  BY <1>8 DEF LineEnds, cmdVars, ringVars
<1> QED
  BY <1>1, <1>2, <1>3, <1>4, <1>5, <1>6, <1>7, <1>8 DEF Calc, GetNextPlanLine

LEMMA RingStep == RingInv /\ [Next]_vars => RingInv'
<1> SUFFICES ASSUME RingInv, [Next]_vars PROVE RingInv'
  OBVIOUS
<1>1. CASE StepperInterrupt
  BY <1>1, LengthsAssumption
     DEF StepperInterrupt, RingInv, TypeOK, RoomStays, LineStays, IsPlanLineBuffEmpty,
         IsPlanLineBuffFull, calcVars, cmdVars, ringVars
<1>2. CASE UNCHANGED vars
  BY <1>2 DEF vars, RingInv, TypeOK, RoomStays, LineStays, IsPlanLineBuffEmpty,
              IsPlanLineBuffFull
<1> QED
  BY <1>1, <1>2, PlanLineKeeps, CompleteKeeps, CalcKeeps DEF Next

\* Every variable keeps its type: NextPlanLineIndex keeps head and tail inside
\* LineBuff, and no more ticks are written than AxisFifo holds.
THEOREM TypeCorrect == Spec => []TypeOK
<1>1. RingInv => TypeOK
  BY DEF RingInv
<1> QED
  BY <1>1, RingInit, RingStep, PTL DEF Spec

\* GetNextPlanLine copies the slot that it checked, for every size of the ring:
\* no interleaving with PlanLine empties the ring or rewrites its head slot
\* between the tests, the copy and the advance of the head.
THEOREM CopiesCheckedLine == Spec => []CopiesNextLine
<1>1. RingInv => CopiesNextLine
  BY DEF RingInv, LineStays, CopiesNextLine
<1> QED
  BY <1>1, RingInit, RingStep, PTL DEF Spec

-----------------------------------------------------------------------------
(***************************************************************************)
(* With stops.  Neither RoomStays nor LineStays holds (both threads        *)
(* advance the head), but the types do not depend on them.                 *)
(***************************************************************************)
LEMMA StopTypes == ASSUME TypeOK, SteppersStopQuick PROVE TypeOK'
<1> USE DEF TypeOK, ringVars, calcVars
<1>1. CASE StopBegin
  <2>1. finished' \in BOOLEAN
    BY <1>1 DEF StopBegin
  <2> QED
    BY <1>1, <2>1 DEF StopBegin
<1>2. CASE ClearSlot
  BY <1>2 DEF ClearSlot
<1>3. CASE ClearAdvance
  BY <1>3, NextIndexFacts DEF ClearAdvance
<1>4. CASE DiscardCurrentLine
  BY <1>4 DEF DiscardCurrentLine
<1>5. CASE ResetFifo
  BY <1>5, LengthsAssumption DEF ResetFifo
<1> QED
  BY <1>1, <1>2, <1>3, <1>4, <1>5 DEF SteppersStopQuick

LEMMA CommandTypes == ASSUME TypeOK, PlanLine \/ IsMotionComplete PROVE TypeOK'
<1> USE DEF TypeOK, ringVars, calcVars
<1>0. CASE StuffLineBuff
  <2>1. finished' \in BOOLEAN
    BY <1>0 DEF StuffLineBuff
  <2>2. LineBuff' \in [Slots -> Nat]
    BY <1>0 DEF StuffLineBuff
  <2> QED
    BY <1>0, <2>1, <2>2 DEF StuffLineBuff
<1>1. CASE SetUsable \/ ClearUsable
  BY <1>1 DEF SetUsable, ClearUsable
<1>2. CASE OffsetTail
  <2>1. NextPlanLineIndex(LineBuffTail) \in Slots
    BY NextIndexFacts
  <2> QED
    BY <1>2, <2>1 DEF OffsetTail
<1>3. CASE TrapezoidCalculate \/ LockSlot
  BY <1>3 DEF TrapezoidCalculate, LockSlot
<1>4. CASE SkipSlot \/ UnlockSlot
  BY <1>4, NextIndexFacts DEF SkipSlot, UnlockSlot, UsableAgain
<1>5. CASE ReadFifo
  BY <1>5 DEF ReadFifo
<1>6. CASE ReadCurrentLine
  BY <1>6 DEF ReadCurrentLine
<1>7. CASE ReadRing
  <2>1. finished' \in BOOLEAN
    BY <1>7, Zenon DEF ReadRing, IsPlanLineBuffEmpty
  <2> QED
    BY <1>7, <2>1 DEF ReadRing
<1> QED
  BY <1>0, <1>1, <1>2, <1>3, <1>4, <1>5, <1>6, <1>7 DEF PlanLine, IsMotionComplete

LEMMA CalcTypes == ASSUME TypeOK, Calc \/ StepperInterrupt PROVE TypeOK'
<1> USE LengthsAssumption DEF TypeOK, ringVars, cmdVars, calcVars
<1>1. CASE CalcLoop \/ TakeEmptyCheck \/ TakeUsableCheck
  BY <1>1 DEF CalcLoop, TakeEmptyCheck, TakeUsableCheck
<1>2. CASE TakeClaim
  BY <1>2 DEF TakeClaim
<1>3. CASE TakeCopy
  BY <1>3 DEF TakeCopy
<1>4. CASE TakeAdvance
  <2>1. NextPlanLineIndex(LineBuffHead) \in Slots
    BY NextIndexFacts
  <2> QED
    BY <1>4, <2>1 DEF TakeAdvance, HeadAfterTake
<1>5. CASE EmitTick
  BY <1>5 DEF EmitTick
<1>6. CASE LineEnds
  BY <1>6 DEF LineEnds
<1>7. CASE StepperInterrupt
  BY <1>7 DEF StepperInterrupt
<1> QED
  BY <1>1, <1>2, <1>3, <1>4, <1>5, <1>6, <1>7 DEF Calc, GetNextPlanLine

\* Stops at any moment leave a ring that may count as full or lose lines, but
\* never one with an index outside LineBuff or more ticks than AxisFifo holds.
THEOREM StopTypeCorrect == StopSpec => []TypeOK
<1>1. Init => TypeOK
  BY RingInit DEF RingInv
<1>2. TypeOK /\ [StopNext]_vars => TypeOK'
  <2>1. ASSUME TypeOK, UNCHANGED vars PROVE TypeOK'
    BY <2>1 DEF vars, TypeOK
  <2> QED
    BY <2>1, StopTypes, CommandTypes, CalcTypes DEF StopNext, Next
<1> QED
  BY <1>1, <1>2, PTL DEF StopSpec

-----------------------------------------------------------------------------
(***************************************************************************)
(* Stops on the G-code thread.  Both halves of RingInv hold again; to them *)
(* comes what a stop found out about the ring (Clearing), and the numbers  *)
(* of the lines: those in the ring are the last planned ones (Numbered).   *)
(***************************************************************************)
Clearing ==
    /\ cmd = "advance" => /\ ~IsPlanLineBuffEmpty
                          /\ Usable[LineBuffHead] = FALSE
                          /\ calc \notin {"claim", "copy", "advance"}
    /\ cmd \in {"discard", "reset"} => IsPlanLineBuffEmpty

Queued == Dist(LineBuffHead, LineBuffTail)

Numbered ==
    /\ Queued <= planned - stopped
    /\ \A k \in 1 .. Queued : LineBuff[Slot(LineBuffHead, k)] = planned - Queued + k
    /\ \A j \in DOMAIN taken : taken[j] <= planned - Queued

GcodeInv == RingInv /\ Clearing /\ Numbered

LEMMA QueuedFacts ==
    ASSUME TypeOK
    PROVE  Queued \in Nat /\ (Queued = 0 <=> IsPlanLineBuffEmpty)
BY DistFacts, BuffMaxSizeAssumption DEF TypeOK, Queued, IsPlanLineBuffEmpty

LEMMA GcodeInit == Init => GcodeInv
<1> SUFFICES ASSUME Init PROVE GcodeInv
  OBVIOUS
<1>1. RingInv /\ TypeOK
  BY RingInit DEF RingInv
<1>2. Queued = 0
  BY <1>1, QueuedFacts DEF Init, IsPlanLineBuffEmpty
<1>3. Clearing
  BY DEF Init, Clearing
<1>4. Numbered
  BY <1>2 DEF Init, Numbered
<1> QED
  BY <1>1, <1>3, <1>4 DEF GcodeInv

\* A step that leaves indices, slots and counts alone keeps the numbers.
LEMMA SameNumbers ==
    ASSUME Numbered,
           UNCHANGED <<LineBuff, LineBuffHead, LineBuffTail, taken, planned, stopped>>
    PROVE  Numbered'
BY DEF Numbered, Queued, Dist, Slot

\* Clearing outlives every step of the other thread, and the command thread's
\* own steps outside a stop do not concern it.
LEMMA NextClearing == ASSUME GcodeInv, Next PROVE Clearing'
<1> USE DEF GcodeInv, RingInv, TypeOK, LineStays, Clearing, IsPlanLineBuffEmpty,
            ringVars, cmdVars, calcVars
<1>1. CASE PlanLine
  <2>1. cmd' \in {"usable", "tail", "recalc", "slot", "idle", "lock", "unlock"}
    BY <1>1 DEF PlanLine, StuffLineBuff, SetUsable, OffsetTail, TrapezoidCalculate, SkipSlot,
                LockSlot, ClearUsable, UnlockSlot
  <2> QED
    BY <2>1
<1>2. CASE IsMotionComplete
  <2>1. cmd' \in {"idle", "line?", "ring?"}
    BY <1>2 DEF IsMotionComplete, ReadFifo, ReadCurrentLine, ReadRing
  <2> QED
    BY <2>1
<1>3. CASE CalcLoop
  BY <1>3 DEF CalcLoop
<1>4. CASE TakeEmptyCheck
  BY <1>4 DEF TakeEmptyCheck
<1>5. CASE TakeUsableCheck
  BY <1>5 DEF TakeUsableCheck
<1>6. CASE TakeClaim
  BY <1>6 DEF TakeClaim
<1>7. CASE TakeCopy
  BY <1>7 DEF TakeCopy
<1>8. CASE TakeAdvance
  BY <1>8 DEF TakeAdvance
<1>9. CASE EmitTick \/ LineEnds
  BY <1>9 DEF EmitTick, LineEnds
<1>10. CASE StepperInterrupt
  BY <1>10 DEF StepperInterrupt
<1> QED
  BY <1>1, <1>2, <1>3, <1>4, <1>5, <1>6, <1>7, <1>8, <1>9, <1>10
     DEF Next, Calc, GetNextPlanLine

LEMMA StuffNumbers == ASSUME GcodeInv, StuffLineBuff PROVE Numbered'
<1>1. LineBuffHead \in Slots /\ LineBuffTail \in Slots /\ LineBuff \in [Slots -> Nat]
  BY DEF GcodeInv, RingInv, TypeOK
<1>2. UNCHANGED <<LineBuffHead, LineBuffTail, taken, planned, stopped>>
        /\ \A s \in Slots : s # LineBuffTail => LineBuff'[s] = LineBuff[s]
  BY <1>1 DEF StuffLineBuff, calcVars
<1>3. \A k \in 1 .. Queued :
        LineBuff'[Slot(LineBuffHead, k)] = LineBuff[Slot(LineBuffHead, k)]
  BY <1>1, <1>2, TailSlot DEF Queued
<1>4. Queued' = Queued
  BY <1>2 DEF Queued, Dist
<1>5. \A k \in 1 .. Queued : LineBuff'[Slot(LineBuffHead', k)] = planned' - Queued' + k
  BY <1>2, <1>3, <1>4 DEF GcodeInv, Numbered
<1>6. \A k \in 1 .. Queued' : (LineBuff[Slot(LineBuffHead, k)])' = planned' - Queued' + k
  BY <1>4, <1>5 DEF Slot
<1> QED
  BY <1>2, <1>4, <1>6 DEF GcodeInv, Numbered

LEMMA OffsetTailNumbers == ASSUME GcodeInv, OffsetTail PROVE Numbered'
<1>1. /\ LineBuffHead \in Slots /\ LineBuffTail \in Slots
      /\ LineBuffHead # NextPlanLineIndex(LineBuffTail)
      /\ LineBuff[LineBuffTail] = planned + 1
      /\ planned \in Nat /\ stopped \in Nat
  BY DEF GcodeInv, RingInv, TypeOK, RoomStays, OffsetTail, IsPlanLineBuffFull
<1>2. /\ LineBuffHead' = LineBuffHead /\ LineBuff' = LineBuff /\ taken' = taken
      /\ LineBuffTail' = NextPlanLineIndex(LineBuffTail)
      /\ planned' = planned + 1 /\ stopped' = stopped
  BY DEF OffsetTail, calcVars
<1>3. Queued' = Queued + 1
  BY <1>1, <1>2, AdvanceTail DEF Queued, Dist
<1>4. Queued \in Nat /\ Slot(LineBuffHead, Queued + 1) = LineBuffTail
  BY <1>1, TailSlot, QueuedFacts DEF Queued, GcodeInv, RingInv
<1>5. ASSUME NEW k \in 1 .. Queued + 1
      PROVE  LineBuff[Slot(LineBuffHead, k)] = planned - Queued + k
  <2>1. CASE k = Queued + 1
    BY <2>1, <1>1, <1>4
  <2>2. CASE k \in 1 .. Queued
    BY <2>2 DEF GcodeInv, Numbered
  <2> QED
    BY <2>1, <2>2, <1>4
<1>6. planned' - Queued' = planned - Queued
  BY <1>1, <1>2, <1>3, <1>4
<1>7. \A k \in 1 .. Queued' : (LineBuff[Slot(LineBuffHead, k)])' = planned' - Queued' + k
  BY <1>2, <1>3, <1>5, <1>6 DEF Slot
<1>8. Queued' <= planned' - stopped'
  BY <1>1, <1>2, <1>3, <1>4 DEF GcodeInv, Numbered
<1> QED
  BY <1>2, <1>6, <1>7, <1>8 DEF GcodeInv, Numbered

\* The head moves on by one line, in GetNextPlanLine or in a stop.
LEMMA HeadNumbers ==
    ASSUME GcodeInv, ~IsPlanLineBuffEmpty,
           LineBuffHead' = NextPlanLineIndex(LineBuffHead),
           UNCHANGED <<LineBuff, LineBuffTail, planned, stopped>>,
           taken' = taken \/ taken' = <<LineBuff[LineBuffHead]>>
    PROVE  /\ Numbered'
           /\ LineBuff[LineBuffHead] > stopped
           /\ \A j \in DOMAIN taken : LineBuff[LineBuffHead] > taken[j]
<1>1. /\ LineBuffHead \in Slots /\ LineBuffTail \in Slots /\ LineBuffHead # LineBuffTail
      /\ planned \in Nat /\ stopped \in Nat /\ taken \in Seq(Nat)
  BY DEF GcodeInv, RingInv, TypeOK, IsPlanLineBuffEmpty
<1>2. Queued \in Nat /\ Queued >= 1
  BY QueuedFacts DEF GcodeInv, RingInv
<1>3. /\ Queued' = Queued - 1
      /\ \A k \in 1 .. Queued - 1 : Slot(LineBuffHead', k) = Slot(LineBuffHead, k + 1)
      /\ Slot(LineBuffHead, 1) = LineBuffHead
  BY <1>1, AdvanceHead DEF Queued, Dist
<1>4. LineBuff[LineBuffHead] = planned - Queued + 1
  BY <1>2, <1>3 DEF GcodeInv, Numbered
<1>5. \A j \in DOMAIN taken : taken[j] \in Nat /\ taken[j] <= planned - Queued
  BY <1>1 DEF GcodeInv, Numbered
<1>6. Queued <= planned - stopped
  BY DEF GcodeInv, Numbered
<1>7. planned' - Queued' = planned - Queued + 1
  BY <1>1, <1>2, <1>3
<1>8. ASSUME NEW k \in 1 .. Queued - 1
      PROVE  LineBuff[Slot(LineBuffHead', k)] = planned - Queued + 1 + k
  <2>1. k + 1 \in 1 .. Queued /\ k \in Int
    BY <1>2
  <2>2. LineBuff[Slot(LineBuffHead, k + 1)] = planned - Queued + (k + 1)
    BY <2>1 DEF GcodeInv, Numbered
  <2> QED
    BY <1>1, <1>2, <1>3, <2>1, <2>2
<1>9. \A k \in 1 .. Queued' : (LineBuff[Slot(LineBuffHead, k)])' = planned' - Queued' + k
  BY <1>3, <1>7, <1>8 DEF Slot
<1>10. \A j \in DOMAIN taken' : taken'[j] <= planned' - Queued'
  <2>1. CASE taken' = taken
    BY <2>1, <1>1, <1>2, <1>5, <1>7
  <2>2. CASE taken' = <<LineBuff[LineBuffHead]>>
    BY <2>2, <1>1, <1>2, <1>4, <1>7
  <2> QED
    BY <2>1, <2>2
<1>11. Queued' <= planned' - stopped'
  BY <1>1, <1>2, <1>3, <1>6
<1> QED
  BY <1>1, <1>2, <1>4, <1>5, <1>6, <1>9, <1>10, <1>11 DEF Numbered

LEMMA TakeNumbers ==
    ASSUME GcodeInv, TakeAdvance
    PROVE  /\ Numbered'
           /\ Line > stopped /\ \A j \in DOMAIN taken : Line > taken[j]
<1>1. ~IsPlanLineBuffEmpty /\ Line = LineBuff[LineBuffHead]
  BY DEF GcodeInv, RingInv, LineStays, TakeAdvance
<1>2. /\ LineBuffHead' = NextPlanLineIndex(LineBuffHead)
      /\ UNCHANGED <<LineBuff, LineBuffTail, planned, stopped>>
      /\ taken' = <<Line>>
  BY DEF TakeAdvance, HeadAfterTake, cmdVars
<1> QED
  BY <1>1, <1>2, HeadNumbers

LEMMA NextNumbers == ASSUME GcodeInv, Next PROVE Numbered'
<1>1. CASE ~StuffLineBuff /\ ~OffsetTail /\ ~TakeAdvance
  <2>1. UNCHANGED <<LineBuff, LineBuffHead, LineBuffTail, taken, planned, stopped>>
    BY <1>1 DEF Next, PlanLine, SetUsable, TrapezoidCalculate, SkipSlot, LockSlot,
                ClearUsable, UnlockSlot, IsMotionComplete, ReadFifo, ReadCurrentLine,
                ReadRing, Calc, CalcLoop, GetNextPlanLine, TakeEmptyCheck,
                TakeUsableCheck, TakeClaim, TakeCopy, EmitTick, LineEnds,
                StepperInterrupt, ringVars, calcVars, cmdVars
  <2> QED
    BY <2>1, SameNumbers DEF GcodeInv
<1> QED
  BY <1>1, StuffNumbers, OffsetTailNumbers, TakeNumbers

LEMMA GcodeStopKeeps == ASSUME GcodeInv, ~Taking, SteppersStopQuick PROVE GcodeInv'
<1>1. TypeOK'
  BY StopTypes DEF GcodeInv, RingInv
<1>2. calc' = calc /\ calc' \notin {"usable?", "claim", "copy", "advance"}
  BY DEF Taking, SteppersStopQuick, StopBegin, ClearSlot, ClearAdvance, DiscardCurrentLine,
         ResetFifo, calcVars
<1>3. RoomStays' /\ LineStays'
  <2>1. cmd' \notin {"usable", "tail"}
    BY DEF SteppersStopQuick, StopBegin, ClearSlot, ClearAdvance, DiscardCurrentLine,
           ResetFifo
  <2> QED
    BY <1>2, <2>1 DEF RoomStays, LineStays
<1>4. CASE StopBegin
  <2>1. Clearing'
    BY <1>4 DEF StopBegin, Clearing
  <2>2. Numbered'
    BY <1>4, SameNumbers DEF StopBegin, ringVars, calcVars, GcodeInv
  <2> QED
    BY <1>1, <1>3, <2>1, <2>2 DEF GcodeInv, RingInv
<1>5. CASE ClearSlot
  <2>1. Clearing'
    BY <1>2, <1>5 DEF ClearSlot, Clearing, IsPlanLineBuffEmpty, GcodeInv, RingInv,
                      TypeOK
  <2>2. Numbered'
    BY <1>5, SameNumbers DEF ClearSlot, calcVars, GcodeInv
  <2> QED
    BY <1>1, <1>3, <2>1, <2>2 DEF GcodeInv, RingInv
<1>6. CASE ClearAdvance
  <2>1. Clearing'
    BY <1>6 DEF ClearAdvance, Clearing
  <2>2. ~IsPlanLineBuffEmpty
    BY <1>6 DEF ClearAdvance, Clearing, GcodeInv
  <2>3. /\ LineBuffHead' = NextPlanLineIndex(LineBuffHead)
        /\ UNCHANGED <<LineBuff, LineBuffTail, planned, stopped>>
        /\ taken' = taken
    BY <1>6 DEF ClearAdvance, calcVars
  <2>4. Numbered'
    BY <2>2, <2>3, HeadNumbers
  <2> QED
    BY <1>1, <1>3, <2>1, <2>4 DEF GcodeInv, RingInv
<1>7. CASE DiscardCurrentLine
  <2>1. Clearing'
    BY <1>7 DEF DiscardCurrentLine, ringVars, Clearing, IsPlanLineBuffEmpty, GcodeInv
  <2>2. Numbered'
    BY <1>7, SameNumbers DEF DiscardCurrentLine, ringVars, GcodeInv
  <2> QED
    BY <1>1, <1>3, <2>1, <2>2 DEF GcodeInv, RingInv
<1>8. CASE ResetFifo
  <2>1. Clearing'
    BY <1>8 DEF ResetFifo, Clearing
  <2>2. /\ UNCHANGED <<LineBuff, LineBuffHead, LineBuffTail, taken, planned>>
        /\ stopped' = planned
    BY <1>8 DEF ResetFifo, ringVars, calcVars
  <2>3. Queued = 0 /\ planned \in Nat
    BY <1>8, QueuedFacts DEF ResetFifo, Clearing, GcodeInv, RingInv, TypeOK
  <2>4. Queued' = 0
    BY <2>2, <2>3 DEF Queued, Dist
  <2>5. Numbered'
    BY <2>2, <2>3, <2>4 DEF Numbered, GcodeInv
  <2> QED
    BY <1>1, <1>3, <2>1, <2>5 DEF GcodeInv, RingInv
<1> QED
  BY <1>4, <1>5, <1>6, <1>7, <1>8 DEF SteppersStopQuick

LEMMA GcodeStep == GcodeInv /\ [GcodeStopNext]_vars => GcodeInv'
<1> SUFFICES ASSUME GcodeInv, [GcodeStopNext]_vars PROVE GcodeInv'
  OBVIOUS
<1>1. CASE Next
  BY <1>1, RingStep, NextClearing, NextNumbers DEF GcodeInv
<1>2. CASE ~Taking /\ SteppersStopQuick
  BY <1>2, GcodeStopKeeps
<1>3. CASE UNCHANGED vars
  <2>1. RingInv'
    BY <1>3, RingStep DEF GcodeInv
  <2>2. Clearing'
    BY <1>3 DEF vars, GcodeInv, Clearing, IsPlanLineBuffEmpty
  <2>3. Numbered'
    BY <1>3, SameNumbers DEF vars, GcodeInv
  <2> QED
    BY <2>1, <2>2, <2>3 DEF GcodeInv
<1> QED
  BY <1>1, <1>2, <1>3 DEF GcodeStopNext

\* A stop on the G-code thread leaves nothing of what was planned before it in
\* the ring, for every size of it, any number of lines and of stops, and
\* although the calculation thread takes lines out while PlanLineBuffClear throws
\* them away.
THEOREM GcodeStopEmptiesRing == GcodeStopSpec => []StopEmptiesRing
<1>1. GcodeInv => StopEmptiesRing
  BY DEF GcodeInv, Numbered, Queued, Dist, StopEmptiesRing, GetPlanLineBuffNum
<1> QED
  BY <1>1, GcodeInit, GcodeStep, PTL DEF GcodeStopSpec

\* With such stops, GetNextPlanLine still returns the lines in the order
\* planned, none twice and none from before the last finished stop.
THEOREM TakesOnlyNewLines == GcodeStopSpec => OnlyNewLinesTaken
<1>1. ASSUME GcodeInv
      PROVE  [TakeAdvance => Line > stopped /\ \A j \in DOMAIN taken : Line > taken[j]]_vars
  BY <1>1, TakeNumbers
<1> QED
  BY <1>1, GcodeInit, GcodeStep, PTL DEF GcodeStopSpec, OnlyNewLinesTaken

-----------------------------------------------------------------------------
(***************************************************************************)
(* The refinement.  Of all steps, only the advance of the tail and that of *)
(* the head are steps of the stream.                                       *)
(***************************************************************************)
LEMMA PendingFacts ==
    ASSUME RingInv
    PROVE  /\ Pending = [k \in 1 .. Dist(LineBuffHead, LineBuffTail)
                           |-> LineBuff[Slot(LineBuffHead, k)]]
           /\ Pending \in Seq(Nat)
           /\ Len(Pending) = Dist(LineBuffHead, LineBuffTail)
           /\ Dist(LineBuffHead, LineBuffTail) \in 0 .. BuffMaxSize - 1
<1>1. LineBuffHead \in Slots /\ LineBuffTail \in Slots /\ LineBuff \in [Slots -> Nat]
  BY DEF RingInv, TypeOK
<1>2. Pending = [k \in 1 .. Dist(LineBuffHead, LineBuffTail)
                   |-> LineBuff[Slot(LineBuffHead, k)]]
  BY DEF Pending, GetPlanLineBuffNum, Dist, Slot
<1>3. Dist(LineBuffHead, LineBuffTail) \in 0 .. BuffMaxSize - 1
  BY <1>1, DistFacts
<1>4. \A k \in 1 .. Dist(LineBuffHead, LineBuffTail) : LineBuff[Slot(LineBuffHead, k)] \in Nat
  BY <1>1, TailSlot
<1>5. Dist(LineBuffHead, LineBuffTail) \in Nat
  BY <1>3, BuffMaxSizeAssumption
<1> QED
  BY <1>2, <1>3, <1>4, <1>5

LEMMA PendingNext ==
    Pending' = [k \in 1 .. Dist(LineBuffHead', LineBuffTail')
                  |-> LineBuff'[Slot(LineBuffHead', k)]]
BY DEF Pending, GetPlanLineBuffNum, Dist, Slot

\* The slot StuffLineBuff writes is not one of the lines in the ring.
LEMMA StuffHidden == ASSUME RingInv, StuffLineBuff PROVE Pending' = Pending
<1>1. LineBuffHead \in Slots /\ LineBuffTail \in Slots /\ LineBuff \in [Slots -> Nat]
  BY DEF RingInv, TypeOK
<1>2. UNCHANGED <<LineBuffHead, LineBuffTail>>
        /\ \A s \in Slots : s # LineBuffTail => LineBuff'[s] = LineBuff[s]
  BY <1>1 DEF StuffLineBuff
<1>3. \A k \in 1 .. Dist(LineBuffHead, LineBuffTail) :
        LineBuff'[Slot(LineBuffHead, k)] = LineBuff[Slot(LineBuffHead, k)]
  BY <1>1, <1>2, TailSlot
<1> QED
  BY <1>2, <1>3, PendingFacts, PendingNext

LEMMA OffsetTailPuts ==
    ASSUME RingInv, OffsetTail
    PROVE  LQ!Put(<<planned + 1>>) /\ planned + 1 \in 1 .. MaxLines
<1> DEFINE n == Dist(LineBuffHead, LineBuffTail)
           d == <<planned + 1>>
<1>1. /\ LineBuffHead \in Slots /\ LineBuffTail \in Slots
      /\ LineBuffHead # NextPlanLineIndex(LineBuffTail)
      /\ LineBuff[LineBuffTail] = planned + 1
      /\ planned + 1 \in 1 .. MaxLines
  BY LengthsAssumption DEF RingInv, TypeOK, RoomStays, OffsetTail, IsPlanLineBuffFull
<1>2. /\ LineBuffHead' = LineBuffHead /\ LineBuff' = LineBuff /\ taken' = taken
      /\ LineBuffTail' = NextPlanLineIndex(LineBuffTail)
  BY DEF OffsetTail, calcVars
<1>3. Dist(LineBuffHead', LineBuffTail') = n + 1 /\ n \in Nat /\ n + 1 <= BuffMaxSize - 1
  <2>1. NextPlanLineIndex(LineBuffTail) \in Slots
    BY <1>1, NextIndexFacts
  <2>2. Dist(LineBuffHead', LineBuffTail') = n + 1
    BY <1>1, <1>2, AdvanceTail
  <2>3. Dist(LineBuffHead', LineBuffTail') \in 0 .. BuffMaxSize - 1 /\ n \in 0 .. BuffMaxSize - 1
    BY <1>1, <1>2, <2>1, DistFacts
  <2> QED
    BY <2>2, <2>3, BuffMaxSizeAssumption
<1>4. Slot(LineBuffHead, n + 1) = LineBuffTail
  BY <1>1, TailSlot
<1> HIDE DEF n
<1>5. /\ Pending \in Seq(Nat) /\ Len(Pending) = n
      /\ Pending = [k \in 1 .. n |-> LineBuff[Slot(LineBuffHead, k)]]
  BY PendingFacts DEF n
<1>6. Pending' = [k \in 1 .. n + 1 |-> LineBuff[Slot(LineBuffHead, k)]]
  BY <1>2, <1>3, PendingNext
<1>7. Pending' = Pending \o d
  <2>1. Pending \o d = [k \in 1 .. n + 1 |-> IF k <= n THEN Pending[k] ELSE planned + 1]
    BY <1>3, <1>5
  <2>2. \A k \in 1 .. n + 1 : LineBuff[Slot(LineBuffHead, k)]
                                = IF k <= n THEN Pending[k] ELSE planned + 1
    BY <1>1, <1>3, <1>4, <1>5
  <2> QED
    BY <1>6, <2>1, <2>2
<1> QED
  BY <1>1, <1>2, <1>3, <1>5, <1>7 DEF LQ!Put

LEMMA FirstOf ==
    ASSUME NEW s \in Seq(Nat), Len(s) >= 1
    PROVE  SubSeq(s, 1, 1) = <<s[1]>>
<1>1. SubSeq(s, 1, 1) = [k \in 1 .. 1 |-> s[k]]
  OBVIOUS
<1>2. <<s[1]>> = [k \in 1 .. 1 |-> s[1]]
  OBVIOUS
<1>3. \A k \in 1 .. 1 : s[k] = s[1]
  OBVIOUS
<1> QED
  BY <1>1, <1>2, <1>3

LEMMA TakeAdvanceGets == ASSUME RingInv, TakeAdvance PROVE LQ!Get(1)
<1> DEFINE n == Dist(LineBuffHead, LineBuffTail)
<1>1. /\ LineBuffHead \in Slots /\ LineBuffTail \in Slots
      /\ LineBuffHead # LineBuffTail
      /\ Line = LineBuff[LineBuffHead]
  BY DEF RingInv, TypeOK, LineStays, TakeAdvance, IsPlanLineBuffEmpty
<1>2. /\ LineBuffHead' = NextPlanLineIndex(LineBuffHead) /\ LineBuff' = LineBuff
      /\ taken' = <<Line>> /\ LineBuffTail' = LineBuffTail
  BY DEF TakeAdvance, HeadAfterTake
<1>3. /\ Dist(LineBuffHead', LineBuffTail') = n - 1 /\ n \in Nat /\ n >= 1
      /\ \A k \in 1 .. n - 1 : Slot(LineBuffHead', k) = Slot(LineBuffHead, k + 1)
      /\ Slot(LineBuffHead, 1) = LineBuffHead
  <2>1. n \in 0 .. BuffMaxSize - 1 /\ n # 0
    BY <1>1, DistFacts
  <2> QED
    BY <1>1, <1>2, <2>1, AdvanceHead, BuffMaxSizeAssumption
<1> HIDE DEF n
<1>4. /\ Pending \in Seq(Nat) /\ Len(Pending) = n
      /\ Pending = [k \in 1 .. n |-> LineBuff[Slot(LineBuffHead, k)]]
  BY PendingFacts DEF n
<1>5. Pending' = [k \in 1 .. n - 1 |-> LineBuff[Slot(LineBuffHead', k)]]
  BY <1>2, <1>3, PendingNext
<1>6. taken' = SubSeq(Pending, 1, 1)
  <2>1. Pending[1] = Line
    BY <1>1, <1>3, <1>4
  <2>2. SubSeq(Pending, 1, 1) = <<Pending[1]>>
    BY <1>3, <1>4, FirstOf
  <2> QED
    BY <1>2, <2>1, <2>2
<1>7. Pending' = SubSeq(Pending, 1 + 1, Len(Pending))
  <2>1. SubSeq(Pending, 2, n) = [k \in 1 .. n - 1 |-> Pending[k + 1]]
    BY <1>3, <1>4
  <2>2. \A k \in 1 .. n - 1 : Pending[k + 1] = LineBuff[Slot(LineBuffHead', k)]
    BY <1>3, <1>4
  <2>3. Pending' = SubSeq(Pending, 2, n)
    BY <1>5, <2>1, <2>2
  <2>4. 1 + 1 = 2 /\ Len(Pending) = n
    BY <1>4
  <2> QED
    BY <2>3, <2>4, Zenon
<1> QED
  BY <1>3, <1>4, <1>6, <1>7 DEF LQ!Get

\* A step that leaves head, tail and slots alone is a stutter.
LEMMA SameLines ==
    ASSUME UNCHANGED <<LineBuff, LineBuffHead, LineBuffTail, taken>>
    PROVE  UNCHANGED LQ!vars
BY DEF LQ!vars, Pending, GetPlanLineBuffNum

LEMMA StreamStep == RingInv /\ [Next]_vars => [LQ!Next]_(LQ!vars)
<1> SUFFICES ASSUME RingInv, [Next]_vars PROVE [LQ!Next]_(LQ!vars)
  OBVIOUS
<1>1. CASE StuffLineBuff
  BY <1>1, StuffHidden DEF StuffLineBuff, calcVars, LQ!vars
<1>2. CASE OffsetTail
  BY <1>2, OffsetTailPuts DEF LQ!Next
<1>3. CASE TakeAdvance
  <2>1. 1 \in 1 .. BuffMaxSize - 1
    BY BuffMaxSizeAssumption
  <2> QED
    BY <1>3, <2>1, TakeAdvanceGets DEF LQ!Next
<1>4. CASE ~StuffLineBuff /\ ~OffsetTail /\ ~TakeAdvance
  <2>1. UNCHANGED <<LineBuff, LineBuffHead, LineBuffTail, taken>>
    BY <1>4 DEF Next, PlanLine, SetUsable, TrapezoidCalculate, SkipSlot, LockSlot,
                ClearUsable, UnlockSlot, IsMotionComplete, ReadFifo, ReadCurrentLine,
                ReadRing, Calc, CalcLoop, GetNextPlanLine, TakeEmptyCheck,
                TakeUsableCheck, TakeClaim, TakeCopy, EmitTick, LineEnds,
                StepperInterrupt, vars, ringVars, calcVars, cmdVars
  <2> QED
    BY <2>1, SameLines
<1> QED
  BY <1>1, <1>2, <1>3, <1>4

LEMMA StreamInit == Init => LQ!Init
<1> SUFFICES ASSUME Init PROVE LQ!Init
  OBVIOUS
<1>1. Dist(LineBuffHead, LineBuffTail) = 0 /\ Len(Pending) = 0 /\ Pending \in Seq(Nat)
  <2>1. LineBuffHead \in Slots /\ LineBuffHead = LineBuffTail
    BY BuffMaxSizeAssumption DEF Init, Slots
  <2> QED
    BY <2>1, RingInit, PendingFacts, DistFacts
<1> QED
  BY <1>1 DEF Init, LQ!Init

\* The ring of planned lines is a bounded stream, for every size of it: PlanLine
\* appends one line, GetNextPlanLine takes the oldest, none is lost, repeated or
\* overtaken, although neither holds a lock and each works in several steps.
THEOREM RefinesLineStream == Spec => ImplementsLineStream
<1> QED
  BY StreamInit, StreamStep, RingInit, RingStep, PTL DEF Spec, ImplementsLineStream, LQ!Spec
=============================================================================
