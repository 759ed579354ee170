------------------------------ MODULE StepFifo ------------------------------
(***************************************************************************)
(* CommonFiFo_t (CrMotion/Fifo.c): the ring of motion ticks between the    *)
(* calculation thread (CommonWriteFifo) and the stepper timer interrupt    *)
(* (CommonReadFifo), and the reset a third thread performs on an emergency *)
(* stop (CommonRstFifo, called by SteppersStopQuick).                      *)
(*                                                                         *)
(* The space check of CommonWriteFifo is made before interrupts are        *)
(* disabled, the copy and the index update after: two steps.  The reader   *)
(* is the interrupt itself and runs to completion: one step.  The reset    *)
(* masks nothing: every one of its assignments is a step.                  *)
(***************************************************************************)
EXTENDS Integers, Sequences

CONSTANTS
    FifoLen,      \* Fifolen: the number of slots (512 in the firmware)
    Tick,         \* the MotionPeriod_t values
    ZeroTick,     \* what memset(0) leaves in a slot
    MaxBatch      \* largest WriteLen / ReadLen of a call

ASSUME FifoLenAssumption == FifoLen \in Nat \ {0}
ASSUME MaxBatchAssumption == MaxBatch \in 1 .. FifoLen

VARIABLES
    buf,          \* FifoBuf
    ReadIndex, WriteIndex,
    LeftSlot,     \* FifoLeftSlot: free slots
    wpc,          \* the calculation thread inside CommonWriteFifo
    WriteBuf,     \* its argument
    ReadBuf,      \* what the last successful CommonReadFifo returned
    rstpc         \* the stopping thread inside CommonRstFifo

fifo == <<buf, ReadIndex, WriteIndex, LeftSlot>>
vars == <<buf, ReadIndex, WriteIndex, LeftSlot, wpc, WriteBuf, ReadBuf, rstpc>>

Slots == 0 .. FifoLen - 1
Cell == Tick \cup {ZeroTick}

\* The batches of at most MaxBatch ticks that one call may carry.
Batches == UNION {[1 .. n -> Tick] : n \in 1 .. MaxBatch}

\* Every variable has its type: the indices of CommonFiFo_t stay inside the
\* ring and its free count, a U32, neither exceeds the ring nor wraps below 0.
TypeOK ==
    /\ buf \in [Slots -> Cell]
    /\ ReadIndex \in Slots
    /\ WriteIndex \in Slots
    /\ LeftSlot \in 0 .. FifoLen
    /\ wpc \in {"idle", "check", "write"}
    /\ WriteBuf \in Batches \cup {<< >>}
    /\ ReadBuf \in Seq(Cell)
    /\ rstpc \in {"idle", "WriteIndex", "FifoLeftSlot", "memset"}

(***************************************************************************)
(* CommonCreateFifo.                                                       *)
(***************************************************************************)
Init ==
    /\ buf = [i \in Slots |-> ZeroTick]
    /\ ReadIndex = 0
    /\ WriteIndex = 0
    /\ LeftSlot = FifoLen
    /\ wpc = "idle"
    /\ WriteBuf = << >>
    /\ ReadBuf = << >>
    /\ rstpc = "idle"

CommonIsEmptyFifo == LeftSlot = FifoLen

\* The number of ticks the FIFO says it holds.
Used == FifoLen - LeftSlot

\* Mutants of Advance: no wrap-around; wrap one slot early.
AdvanceNoWrap(i) == i
AdvanceShort(i) == IF i >= FifoLen - 1 THEN 0 ELSE i

\* An index advanced to i, back at 0 when it reaches the end of the ring.
Advance(i) == IF i = FifoLen THEN 0 ELSE i

\* Mutants of HasRoom: off by one either way.
HasRoomOneOff(n) == LeftSlot + 1 >= n
HasRoomStrict(n) == LeftSlot > n

\* The check of CommonWriteFifo for room for n ticks.
HasRoom(n) == LeftSlot >= n

\* memcpy of the batch d into b from slot `at' on.
CopyIn(b, at, d) ==
    [i \in Slots |-> IF i \in at .. at + Len(d) - 1 THEN d[i - at + 1] ELSE b[i]]

\* memcpy of n slots of b from slot `at' on.
CopyOut(b, at, n) == [k \in 1 .. n |-> b[at + k - 1]]

(***************************************************************************)
(* CommonWriteFifo by the calculation thread.  A call that finds too few   *)
(* slots returns -2 and is repeated after a sleep: it stays at "check".    *)
(***************************************************************************)
WriteCall(d) ==
    /\ wpc = "idle"
    /\ wpc' = "check"
    /\ WriteBuf' = d
    /\ UNCHANGED <<fifo, ReadBuf, rstpc>>

WriteCheck ==
    /\ wpc = "check"
    /\ HasRoom(Len(WriteBuf))
    /\ wpc' = "write"
    /\ UNCHANGED <<fifo, WriteBuf, ReadBuf, rstpc>>

WriteCritical ==
    LET n    == Len(WriteBuf)
        left == WriteIndex + n - FifoLen      \* LeftLen: what wraps around
        fwd  == n - left                      \* ForwardLen
    IN  /\ wpc = "write"
        /\ \/ /\ WriteIndex + n <= FifoLen
              /\ buf' = CopyIn(buf, WriteIndex, WriteBuf)
              /\ WriteIndex' = Advance(WriteIndex + n)
           \/ /\ WriteIndex + n > FifoLen
              /\ buf' = CopyIn(CopyIn(buf, WriteIndex, SubSeq(WriteBuf, 1, fwd)),
                               0, SubSeq(WriteBuf, fwd + 1, n))
              /\ WriteIndex' = left
        /\ LeftSlot' = LeftSlot - n
        /\ wpc' = "idle"
        /\ WriteBuf' = << >>
        /\ UNCHANGED <<ReadIndex, ReadBuf, rstpc>>

(***************************************************************************)
(* CommonReadFifo of n ticks, called by StepperInterrupt.                  *)
(***************************************************************************)
CommonReadFifo(n) ==
    LET left == ReadIndex + n - FifoLen
        fwd  == n - left
    IN  /\ Used >= n
        /\ \/ /\ ReadIndex + n <= FifoLen
              /\ ReadBuf' = CopyOut(buf, ReadIndex, n)
              /\ ReadIndex' = Advance(ReadIndex + n)
           \/ /\ ReadIndex + n > FifoLen
              /\ ReadBuf' = CopyOut(buf, ReadIndex, fwd) \o CopyOut(buf, 0, left)
              /\ ReadIndex' = left
        /\ LeftSlot' = LeftSlot + n
        /\ UNCHANGED <<buf, WriteIndex, wpc, WriteBuf, rstpc>>

(***************************************************************************)
(* CommonRstFifo, one assignment at a time.                                *)
(***************************************************************************)
RstReadIndex ==
    /\ rstpc = "idle"
    /\ ReadIndex' = 0
    /\ rstpc' = "WriteIndex"
    /\ UNCHANGED <<buf, WriteIndex, LeftSlot, wpc, WriteBuf, ReadBuf>>

RstWriteIndex ==
    /\ rstpc = "WriteIndex"
    /\ WriteIndex' = 0
    /\ rstpc' = "FifoLeftSlot"
    /\ UNCHANGED <<buf, ReadIndex, LeftSlot, wpc, WriteBuf, ReadBuf>>

RstLeftSlot ==
    /\ rstpc = "FifoLeftSlot"
    /\ LeftSlot' = FifoLen
    /\ rstpc' = "memset"
    /\ UNCHANGED <<buf, ReadIndex, WriteIndex, wpc, WriteBuf, ReadBuf>>

RstMemset ==
    /\ rstpc = "memset"
    /\ buf' = [i \in Slots |-> ZeroTick]
    /\ rstpc' = "idle"
    /\ UNCHANGED <<ReadIndex, WriteIndex, LeftSlot, wpc, WriteBuf, ReadBuf>>

Write == (\E d \in Batches : WriteCall(d)) \/ WriteCheck \/ WriteCritical
Read == \E n \in 1 .. MaxBatch : CommonReadFifo(n)
CommonRstFifo == RstReadIndex \/ RstWriteIndex \/ RstLeftSlot \/ RstMemset

(***************************************************************************)
(* Spec: the motion pipeline while nobody stops it.  StopSpec: with the    *)
(* resets of SteppersStopQuick.                                            *)
(***************************************************************************)
Next == Write \/ Read
StopNext == Next \/ CommonRstFifo

Spec == Init /\ [][Next]_vars
StopSpec == Init /\ [][StopNext]_vars

\* The scheduler runs the calculation thread, the hardware timer keeps
\* interrupting (StepperTimerStop only stretches its period), and both use
\* single ticks in the firmware, so a read of one tick is always possible.
FairSpec == Spec /\ WF_vars(WriteCheck) /\ WF_vars(WriteCritical)
                 /\ WF_vars(CommonReadFifo(1))

-----------------------------------------------------------------------------
\* A slot number brought back into the ring.
Wrap(i) == IF i >= FifoLen THEN i - FifoLen ELSE i

\* The write index is where the ticks accounted for by FifoLeftSlot end: the
\* three counters that CommonReadFifo and CommonWriteFifo update separately
\* describe one and the same queue.
IndexConsistent == WriteIndex = Wrap(ReadIndex + Used)

\* The check made before interrupts were disabled still holds when the copy
\* is made: CommonWriteFifo never overwrites a tick that was not read and
\* FifoLeftSlot (U32) never wraps below zero.
CheckedSpaceStays == wpc = "write" => LeftSlot >= Len(WriteBuf)

\* The ticks the FIFO holds, oldest first.
Stream == [k \in 1 .. Used |-> buf[Wrap(ReadIndex + k - 1)]]

\* CommonFiFo_t implements the bounded stream of TickStream: no tick is
\* lost, repeated, reordered or overwritten, across any wrap-around.
TS == INSTANCE TickStream WITH Capacity <- FifoLen, stream <- Stream,
                               received <- ReadBuf
ImplementsTickStream == TS!Spec

\* A call of CommonWriteFifo that waits for space gets it: the do-while of
\* Bresenham::Calc around CommonWriteFifo ends.
WriteEnds == (wpc = "check") ~> (wpc = "idle")
=============================================================================
