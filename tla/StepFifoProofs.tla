--------------------------- MODULE StepFifoProofs ---------------------------
(***************************************************************************)
(* Proofs about StepFifo, for every ring size, every batch size that fits  *)
(* and every set of ticks.                                                 *)
(***************************************************************************)
EXTENDS StepFifo, TLAPS

\* What a batch is.
LEMMA BatchFacts ==
    ASSUME NEW d \in Batches
    PROVE  /\ d \in Seq(Tick)
           /\ Len(d) \in 1 .. MaxBatch
           /\ Len(d) \in 1 .. FifoLen
           /\ DOMAIN d = 1 .. Len(d)
           /\ \A k \in 1 .. Len(d) : d[k] \in Tick
<1>1. PICK n \in 1 .. MaxBatch : d \in [1 .. n -> Tick]
  BY DEF Batches
<1>2. n \in Nat /\ n <= FifoLen
  BY MaxBatchAssumption, FifoLenAssumption
<1>3. d \in Seq(Tick) /\ Len(d) = n
  BY <1>1, <1>2
<1> QED
  BY <1>1, <1>2, <1>3

\* The bytes a memcpy into the ring leaves.
LEMMA CopyInType ==
    ASSUME NEW b \in [Slots -> Cell], NEW at \in Slots,
           NEW d \in Seq(Tick)
    PROVE  CopyIn(b, at, d) \in [Slots -> Cell]
BY FifoLenAssumption DEF CopyIn, Slots, Cell

\* The invariant that also survives every interleaving with a reset: types,
\* and the space a writer found is still there when it copies.
SafeInv == /\ TypeOK
           /\ CheckedSpaceStays
           /\ wpc # "idle" => WriteBuf \in Batches

LEMMA SafeInit == Init => SafeInv
BY FifoLenAssumption DEF Init, SafeInv, TypeOK, CheckedSpaceStays, Slots, Cell

LEMMA WriteCriticalSafe ==
    ASSUME SafeInv, WriteCritical
    PROVE  SafeInv'
<1> USE FifoLenAssumption, MaxBatchAssumption
<1> DEFINE n == Len(WriteBuf)
<1>0. WriteBuf \in Batches
  BY DEF SafeInv, WriteCritical
<1>1. n \in 1 .. FifoLen /\ WriteBuf \in Seq(Tick) /\ n <= LeftSlot
  BY <1>0, BatchFacts DEF SafeInv, TypeOK, CheckedSpaceStays, WriteCritical
<1>2. WriteIndex \in 0 .. FifoLen - 1 /\ LeftSlot \in 0 .. FifoLen
  BY DEF SafeInv, TypeOK, Slots
<1>3. buf' \in [Slots -> Cell]
  <2>1. CASE WriteIndex + n <= FifoLen
    BY <2>1, <1>1, <1>2, CopyInType DEF WriteCritical, SafeInv, TypeOK
  <2>2. CASE WriteIndex + n > FifoLen
    <3> DEFINE fwd == n - (WriteIndex + n - FifoLen)
    <3>1. fwd \in 1 .. n
      BY <2>2, <1>1, <1>2
    <3>2. SubSeq(WriteBuf, 1, fwd) \in Seq(Tick) /\ SubSeq(WriteBuf, fwd + 1, n) \in Seq(Tick)
      BY <3>1, <1>1
    <3>3. CopyIn(buf, WriteIndex, SubSeq(WriteBuf, 1, fwd)) \in [Slots -> Cell]
      BY <3>2, CopyInType DEF SafeInv, TypeOK
    <3>4. 0 \in Slots
      BY DEF Slots
    <3>5. CopyIn(CopyIn(buf, WriteIndex, SubSeq(WriteBuf, 1, fwd)), 0,
                 SubSeq(WriteBuf, fwd + 1, n)) \in [Slots -> Cell]
      BY <3>2, <3>3, <3>4, CopyInType
    <3> QED
      BY <3>5, <2>2, <1>1, <1>2 DEF WriteCritical
  <2> QED
    BY <2>1, <2>2, <1>1, <1>2
<1>4. WriteIndex' \in Slots
  BY <1>1, <1>2 DEF WriteCritical, Slots, Advance
<1>5. LeftSlot' \in 0 .. FifoLen
  BY <1>1, <1>2 DEF WriteCritical
<1> QED
  BY <1>3, <1>4, <1>5 DEF WriteCritical, SafeInv, TypeOK, CheckedSpaceStays

LEMMA ReadSafe ==
    ASSUME SafeInv, NEW n \in 1 .. MaxBatch, CommonReadFifo(n)
    PROVE  SafeInv'
<1> USE FifoLenAssumption, MaxBatchAssumption
<1>1. n \in 1 .. FifoLen /\ n <= Used
  BY DEF CommonReadFifo
<1>2. ReadIndex \in 0 .. FifoLen - 1 /\ LeftSlot \in 0 .. FifoLen
  BY DEF SafeInv, TypeOK, Slots
<1>3. ReadBuf' \in Seq(Cell)
  <2>1. ASSUME NEW at \in Slots, NEW m \in Nat, at + m <= FifoLen
        PROVE  CopyOut(buf, at, m) \in Seq(Cell)
    <3>1. \A k \in 1 .. m : at + k - 1 \in Slots
      BY <2>1 DEF Slots
    <3>2. CopyOut(buf, at, m) \in [1 .. m -> Cell]
      BY <3>1 DEF CopyOut, SafeInv, TypeOK
    <3> QED
      BY <3>2
  <2>2. CASE ReadIndex + n <= FifoLen
    BY <2>1, <2>2, <1>1, <1>2 DEF CommonReadFifo, Slots
  <2>3. CASE ReadIndex + n > FifoLen
    <3> DEFINE left == ReadIndex + n - FifoLen
               fwd == n - left
    <3>1. left \in Nat /\ fwd \in Nat /\ ReadIndex + fwd <= FifoLen /\ 0 + left <= FifoLen
      BY <2>3, <1>1, <1>2
    <3>2. 0 \in Slots /\ ReadIndex \in Slots
      BY <1>2 DEF Slots
    <3>3. CopyOut(buf, ReadIndex, fwd) \in Seq(Cell)
      BY <2>1, <3>1, <3>2
    <3>4. CopyOut(buf, 0, left) \in Seq(Cell)
      BY <2>1, <3>1, <3>2
    <3>5. ReadBuf' = CopyOut(buf, ReadIndex, fwd) \o CopyOut(buf, 0, left)
      BY <2>3, <1>1, <1>2 DEF CommonReadFifo
    <3> HIDE DEF left, fwd
    <3> QED
      BY <3>3, <3>4, <3>5
  <2> QED
    BY <2>2, <2>3, <1>1, <1>2
<1>4. ReadIndex' \in Slots
  BY <1>1, <1>2 DEF CommonReadFifo, Slots, Advance
<1>5. LeftSlot' \in 0 .. FifoLen /\ LeftSlot' >= LeftSlot
  BY <1>1, <1>2 DEF CommonReadFifo, Used
<1>6. wpc' = "write" => LeftSlot' >= Len(WriteBuf')
  <2> SUFFICES ASSUME wpc' = "write" PROVE LeftSlot' >= Len(WriteBuf')
    OBVIOUS
  <2>1. LeftSlot >= Len(WriteBuf) /\ Len(WriteBuf) \in Nat
    BY BatchFacts DEF SafeInv, CheckedSpaceStays, CommonReadFifo, TypeOK
  <2> QED
    BY <2>1, <1>2, <1>5 DEF CommonReadFifo
<1> QED
  BY <1>3, <1>4, <1>5, <1>6 DEF CommonReadFifo, SafeInv, TypeOK, CheckedSpaceStays

LEMMA SafeStep ==
    ASSUME SafeInv, [StopNext]_vars
    PROVE  SafeInv'
<1> USE FifoLenAssumption, MaxBatchAssumption
<1>1. ASSUME NEW d \in Batches, WriteCall(d) PROVE SafeInv'
  BY <1>1 DEF WriteCall, SafeInv, TypeOK, CheckedSpaceStays, fifo
<1>2. CASE WriteCheck
  BY <1>2 DEF WriteCheck, HasRoom, SafeInv, TypeOK, CheckedSpaceStays, fifo
<1>3. CASE WriteCritical
  BY <1>3, WriteCriticalSafe
<1>4. ASSUME NEW n \in 1 .. MaxBatch, CommonReadFifo(n) PROVE SafeInv'
  BY <1>4, ReadSafe
<1>5. CASE RstReadIndex
  BY <1>5 DEF RstReadIndex, SafeInv, TypeOK, CheckedSpaceStays, Slots
<1>6. CASE RstWriteIndex
  BY <1>6 DEF RstWriteIndex, SafeInv, TypeOK, CheckedSpaceStays, Slots
<1>7. CASE RstLeftSlot
  <2>1. wpc = "write" => FifoLen >= Len(WriteBuf)
    BY BatchFacts DEF SafeInv
  <2> QED
    BY <1>7, <2>1 DEF RstLeftSlot, SafeInv, TypeOK, CheckedSpaceStays
<1>8. CASE RstMemset
  BY <1>8 DEF RstMemset, SafeInv, TypeOK, CheckedSpaceStays, Cell
<1>9. CASE UNCHANGED vars
  BY <1>9 DEF vars, SafeInv, TypeOK, CheckedSpaceStays
<1> QED
  BY <1>1, <1>2, <1>3, <1>4, <1>5, <1>6, <1>7, <1>8, <1>9
     DEF StopNext, Next, Write, Read, CommonRstFifo

\* Even when SteppersStopQuick resets the ring at any moment, in the middle
\* of a write or of another thread's check, every index stays inside the
\* ring and FifoLeftSlot between 0 and Fifolen.
THEOREM StopTypeCorrect == StopSpec => []TypeOK
<1>1. SafeInv => TypeOK
  BY DEF SafeInv
<1> QED
  BY SafeInit, SafeStep, <1>1, PTL DEF StopSpec

\* The space CommonWriteFifo saw before it disabled interrupts is still free
\* when it copies, whatever the interrupt and the resetting thread do.
THEOREM StopCheckedSpace == StopSpec => []CheckedSpaceStays
<1>1. SafeInv => CheckedSpaceStays
  BY DEF SafeInv
<1> QED
  BY SafeInit, SafeStep, <1>1, PTL DEF StopSpec

-----------------------------------------------------------------------------
(***************************************************************************)
(* Without a reset the three counters describe one queue.                  *)
(***************************************************************************)
Inv == SafeInv /\ IndexConsistent

LEMMA InvInit == Init => Inv
BY SafeInit, FifoLenAssumption DEF Init, Inv, IndexConsistent, Used, Wrap

LEMMA InvStep ==
    ASSUME Inv, [Next]_vars
    PROVE  Inv'
<1> USE FifoLenAssumption, MaxBatchAssumption
<1>1. SafeInv'
  BY SafeStep DEF Inv, StopNext
<1> SUFFICES IndexConsistent'
  BY <1>1 DEF Inv
<1>2. /\ ReadIndex \in 0 .. FifoLen - 1 /\ WriteIndex \in 0 .. FifoLen - 1
      /\ LeftSlot \in 0 .. FifoLen
  BY DEF Inv, SafeInv, TypeOK, Slots
<1>3. ASSUME NEW d \in Batches, WriteCall(d) PROVE IndexConsistent'
  BY <1>3 DEF WriteCall, Inv, IndexConsistent, Used, Wrap, fifo
<1>4. CASE WriteCheck
  BY <1>4 DEF WriteCheck, Inv, IndexConsistent, Used, Wrap, fifo
<1>5. CASE WriteCritical
  <2>1. Len(WriteBuf) \in 1 .. FifoLen /\ Len(WriteBuf) <= LeftSlot
    BY <1>5, BatchFacts DEF WriteCritical, Inv, SafeInv, CheckedSpaceStays
  <2> QED
    BY <1>2, <1>5, <2>1 DEF WriteCritical, Inv, IndexConsistent, Used, Wrap, Advance
<1>6. ASSUME NEW n \in 1 .. MaxBatch, CommonReadFifo(n) PROVE IndexConsistent'
  BY <1>2, <1>6 DEF CommonReadFifo, Inv, IndexConsistent, Used, Wrap, Advance
<1>7. CASE UNCHANGED vars
  BY <1>7 DEF vars, Inv, IndexConsistent, Used, Wrap
<1> QED
  BY <1>3, <1>4, <1>5, <1>6, <1>7 DEF Next, Write, Read

\* While no reset runs, ReadIndex, WriteIndex and FifoLeftSlot, which
\* CommonReadFifo and CommonWriteFifo update separately, always agree.
THEOREM IndexesAgree == Spec => []IndexConsistent
<1>1. Inv => IndexConsistent
  BY DEF Inv
<1> QED
  BY InvInit, InvStep, <1>1, PTL DEF Spec

-----------------------------------------------------------------------------
(***************************************************************************)
(* The ring implements the bounded stream.                                 *)
(***************************************************************************)

\* A sequence is the function of its elements.
LEMMA SeqIsFunction ==
    ASSUME NEW S, NEW s \in Seq(S), NEW m, m = Len(s)
    PROVE  s = [k \in 1 .. m |-> s[k]]
OBVIOUS

\* What each slot holds after the copy of CommonWriteFifo.
LEMMA WrittenSlots ==
    ASSUME Inv, WriteCritical, NEW i \in Slots
    PROVE  LET n == Len(WriteBuf)
               off == IF i >= WriteIndex THEN i - WriteIndex
                                         ELSE i - WriteIndex + FifoLen
           IN  buf'[i] = IF off < n THEN WriteBuf[off + 1] ELSE buf[i]
<1> USE FifoLenAssumption, MaxBatchAssumption
<1> DEFINE n == Len(WriteBuf)
           left == WriteIndex + n - FifoLen
           fwd == n - left
<1>1. n \in 1 .. FifoLen /\ n <= LeftSlot /\ WriteBuf \in Seq(Tick)
  BY BatchFacts DEF WriteCritical, Inv, SafeInv, CheckedSpaceStays
<1>2. WriteIndex \in 0 .. FifoLen - 1 /\ i \in 0 .. FifoLen - 1
  BY DEF Inv, SafeInv, TypeOK, Slots
<1>3. CASE WriteIndex + n <= FifoLen
  <2>1. buf' = CopyIn(buf, WriteIndex, WriteBuf)
    BY <1>1, <1>2, <1>3 DEF WriteCritical
  <2> QED
    BY <2>1, <1>1, <1>2, <1>3 DEF CopyIn, Slots
<1>4. CASE WriteIndex + n > FifoLen
  <2>1. buf' = CopyIn(CopyIn(buf, WriteIndex, SubSeq(WriteBuf, 1, fwd)),
                      0, SubSeq(WriteBuf, fwd + 1, n))
    BY <1>1, <1>2, <1>4 DEF WriteCritical
  <2>2. fwd \in 1 .. n /\ fwd = FifoLen - WriteIndex /\ left \in 1 .. n
    BY <1>1, <1>2, <1>4
  <2>3. /\ Len(SubSeq(WriteBuf, 1, fwd)) = fwd
        /\ Len(SubSeq(WriteBuf, fwd + 1, n)) = left
        /\ \A k \in 1 .. fwd : SubSeq(WriteBuf, 1, fwd)[k] = WriteBuf[k]
        /\ \A k \in 1 .. left : SubSeq(WriteBuf, fwd + 1, n)[k] = WriteBuf[fwd + k]
    BY <1>1, <2>2
  <2>4. CASE i < left
    <3>1. buf'[i] = SubSeq(WriteBuf, fwd + 1, n)[i - 0 + 1]
      BY <2>1, <2>3, <2>4, <2>2, <1>2 DEF CopyIn
    <3>2. i + 1 \in 1 .. left /\ i - 0 + 1 = i + 1
      BY <2>4, <2>2, <1>2
    <3>3. buf'[i] = WriteBuf[fwd + (i + 1)]
      BY <3>1, <3>2, <2>3
    <3> QED
      BY <3>3, <2>2, <2>4, <1>1, <1>2
  <2>5. CASE i >= left /\ i >= WriteIndex
    <3>1. buf'[i] = CopyIn(buf, WriteIndex, SubSeq(WriteBuf, 1, fwd))[i]
      BY <2>1, <2>3, <2>5, <2>2, <1>2 DEF CopyIn
    <3>2. buf'[i] = SubSeq(WriteBuf, 1, fwd)[i - WriteIndex + 1]
      <4>1. i \in WriteIndex .. WriteIndex + Len(SubSeq(WriteBuf, 1, fwd)) - 1
        BY <2>3, <2>5, <2>2, <1>2
      <4> QED
        BY <3>1, <4>1 DEF CopyIn
    <3> QED
      BY <3>2, <2>3, <2>5, <2>2, <1>1, <1>2
  <2>6. CASE i >= left /\ i < WriteIndex
    <3>1. buf'[i] = CopyIn(buf, WriteIndex, SubSeq(WriteBuf, 1, fwd))[i]
      BY <2>1, <2>3, <2>6, <2>2, <1>2 DEF CopyIn
    <3>2. buf'[i] = buf[i]
      BY <3>1, <2>3, <2>6, <2>2, <1>2 DEF CopyIn
    <3> QED
      BY <3>2, <2>6, <2>2, <1>1, <1>2
  <2>7. left \in Int
    BY <2>2
  <2> QED
    BY <2>4, <2>5, <2>6, <2>7, <1>2
<1> QED
  BY <1>3, <1>4, <1>1, <1>2

\* The stream is a sequence of as many ticks as the FIFO accounts for.
LEMMA StreamType ==
    ASSUME TypeOK
    PROVE  Stream \in Seq(Cell) /\ Len(Stream) = Used
<1> USE FifoLenAssumption
<1>1. ReadIndex \in 0 .. FifoLen - 1 /\ Used \in 0 .. FifoLen
  BY DEF TypeOK, Slots, Used
<1>2. \A k \in 1 .. Used : Wrap(ReadIndex + k - 1) \in Slots
  BY <1>1 DEF Wrap, Slots
<1>3. buf \in [Slots -> Cell]
  BY DEF TypeOK
<1>4. \A k \in 1 .. Used : buf[Wrap(ReadIndex + k - 1)] \in Cell
  BY <1>2, <1>3
<1>5. Stream \in [1 .. Used -> Cell]
  BY <1>4 DEF Stream
<1> QED
  BY <1>1, <1>5

\* A write appends its batch to the stream.
LEMMA WriteAppends ==
    ASSUME Inv, WriteCritical
    PROVE  /\ Stream' = Stream \o WriteBuf
           /\ Len(Stream) + Len(WriteBuf) <= FifoLen
           /\ ReadBuf' = ReadBuf
<1> USE FifoLenAssumption, MaxBatchAssumption
<1> DEFINE n == Len(WriteBuf)
<1>1. n \in 1 .. FifoLen /\ n <= LeftSlot /\ WriteBuf \in Seq(Tick)
  BY BatchFacts DEF WriteCritical, Inv, SafeInv, CheckedSpaceStays
<1>2. /\ ReadIndex \in 0 .. FifoLen - 1 /\ WriteIndex \in 0 .. FifoLen - 1
      /\ LeftSlot \in 0 .. FifoLen /\ Used \in 0 .. FifoLen
  BY DEF Inv, SafeInv, TypeOK, Slots, Used
<1>3. WriteIndex = IF ReadIndex + Used >= FifoLen THEN ReadIndex + Used - FifoLen
                                                  ELSE ReadIndex + Used
  BY <1>2 DEF Inv, IndexConsistent, Wrap
<1>4. ReadIndex' = ReadIndex /\ Used' = Used + n /\ Used + n <= FifoLen
  BY <1>1, <1>2 DEF WriteCritical, Used
<1>6. \A k \in 1 .. FifoLen : Wrap(ReadIndex + k - 1) \in Slots
  BY <1>2 DEF Wrap, Slots
<1>7. Stream \in Seq(Cell) /\ Len(Stream) = Used
  BY StreamType DEF Inv, SafeInv
<1>8. Stream' = [k \in 1 .. Used + n |-> buf'[Wrap(ReadIndex + k - 1)]]
  BY <1>4 DEF Stream, Wrap
<1>9. \A k \in 1 .. Used + n :
         buf'[Wrap(ReadIndex + k - 1)] = (Stream \o WriteBuf)[k]
  <2> TAKE k \in 1 .. Used + n
  <2> DEFINE j == Wrap(ReadIndex + k - 1)
             off == IF j >= WriteIndex THEN j - WriteIndex ELSE j - WriteIndex + FifoLen
  <2>1. k \in 1 .. FifoLen /\ j \in Slots
    BY <1>1, <1>2, <1>4, <1>6
  <2>2. j = IF ReadIndex + k - 1 >= FifoLen THEN ReadIndex + k - 1 - FifoLen
                                            ELSE ReadIndex + k - 1
    BY <2>1, <1>2 DEF Wrap
  <2>3. buf'[j] = IF off < n THEN WriteBuf[off + 1] ELSE buf[j]
    BY <2>1, WrittenSlots
  <2>4. CASE k <= Used
    <3>1. ~ (off < n)
      BY <2>4, <2>1, <2>2, <1>1, <1>2, <1>3, <1>4
    <3>2. (Stream \o WriteBuf)[k] = Stream[k]
      BY <2>4, <2>1, <1>1, <1>7
    <3>3. Stream[k] = buf[j]
      BY <2>4, <2>1 DEF Stream
    <3> QED
      BY <3>1, <3>2, <3>3, <2>3
  <2>5. CASE k > Used
    <3>1. off = k - Used - 1 /\ off < n
      BY <2>5, <2>1, <2>2, <1>1, <1>2, <1>3, <1>4
    <3>2. (Stream \o WriteBuf)[k] = WriteBuf[k - Used]
      BY <2>5, <2>1, <1>1, <1>2, <1>7
    <3>3. off + 1 = k - Used
      BY <3>1, <2>1, <1>2
    <3> QED
      BY <3>1, <3>2, <3>3, <2>3
  <2>6. k <= Used \/ k > Used
    BY <2>1, <1>2
  <2> QED
    BY <2>4, <2>5, <2>6
<1>10. Stream \o WriteBuf = [k \in 1 .. Used + n |-> (Stream \o WriteBuf)[k]]
  <2>1. WriteBuf \in Seq(Cell)
    BY <1>1 DEF Cell
  <2>2. Stream \o WriteBuf \in Seq(Cell) /\ Len(Stream \o WriteBuf) = Used + n
    BY <2>1, <1>1, <1>2, <1>7
  <2> QED
    BY <2>2, SeqIsFunction
<1>11. Stream' = Stream \o WriteBuf
  BY <1>8, <1>9, <1>10
<1> QED
  BY <1>4, <1>7, <1>11 DEF WriteCritical

\* A read hands out the oldest ticks of the stream and keeps the others.
LEMMA ReadTakesOldest ==
    ASSUME Inv, NEW n \in 1 .. MaxBatch, CommonReadFifo(n)
    PROVE  /\ n <= Len(Stream)
           /\ ReadBuf' = SubSeq(Stream, 1, n)
           /\ Stream' = SubSeq(Stream, n + 1, Len(Stream))
<1> USE FifoLenAssumption, MaxBatchAssumption
<1>1. /\ ReadIndex \in 0 .. FifoLen - 1 /\ LeftSlot \in 0 .. FifoLen
      /\ Used \in 0 .. FifoLen /\ buf \in [Slots -> Cell]
  BY DEF Inv, SafeInv, TypeOK, Slots, Used
<1>2. n \in 1 .. FifoLen /\ n <= Used /\ Used' = Used - n /\ buf' = buf
  BY <1>1 DEF CommonReadFifo, Used
<1>3. \A k \in 1 .. FifoLen : Wrap(ReadIndex + k - 1) \in Slots
  BY <1>1 DEF Wrap, Slots
<1>4. Stream \in Seq(Cell) /\ Len(Stream) = Used
  BY StreamType DEF Inv, SafeInv
<1>5. ReadBuf' = SubSeq(Stream, 1, n)
  <2>1. SubSeq(Stream, 1, n) = [k \in 1 .. n |-> Stream[k]]
    BY <1>1, <1>2, <1>4
  <2>2. \A k \in 1 .. n : Stream[k] = buf[Wrap(ReadIndex + k - 1)]
    BY <1>1, <1>2 DEF Stream
  <2>3. CASE ReadIndex + n <= FifoLen
    <3>1. ReadBuf' = [k \in 1 .. n |-> buf[ReadIndex + k - 1]]
      BY <2>3, <1>1, <1>2 DEF CommonReadFifo, CopyOut
    <3>2. \A k \in 1 .. n : Wrap(ReadIndex + k - 1) = ReadIndex + k - 1
      BY <2>3, <1>1, <1>2 DEF Wrap
    <3> QED
      BY <3>1, <3>2, <2>1, <2>2
  <2>4. CASE ReadIndex + n > FifoLen
    <3> DEFINE left == ReadIndex + n - FifoLen
               fwd == n - left
               A == CopyOut(buf, ReadIndex, fwd)
               B == CopyOut(buf, 0, left)
    <3>1. left \in 1 .. n /\ fwd \in 1 .. n /\ fwd = FifoLen - ReadIndex /\ fwd + left = n
      BY <2>4, <1>1, <1>2
    <3>2. ReadBuf' = A \o B
      BY <2>4, <1>1, <1>2 DEF CommonReadFifo
    <3>3. \A k \in 1 .. fwd : ReadIndex + k - 1 \in Slots
      BY <3>1, <1>1 DEF Slots
    <3>4. \A k \in 1 .. left : 0 + k - 1 \in Slots
      BY <3>1, <1>1, <1>2 DEF Slots
    <3> HIDE DEF left, fwd
    <3>5. A \in [1 .. fwd -> Cell]
      BY <3>3, <1>1 DEF CopyOut
    <3>6. B \in [1 .. left -> Cell]
      BY <3>4, <1>1 DEF CopyOut
    <3>7. A \in Seq(Cell) /\ Len(A) = fwd /\ B \in Seq(Cell) /\ Len(B) = left
      BY <3>1, <3>5, <3>6
    <3>8. \A k \in 1 .. fwd : A[k] = buf[ReadIndex + k - 1]
      BY DEF CopyOut
    <3>9. \A k \in 1 .. left : B[k] = buf[0 + k - 1]
      BY DEF CopyOut
    <3> HIDE DEF A, B
    <3>10. A \o B \in Seq(Cell) /\ Len(A \o B) = n
      BY <3>7, <3>1
    <3>11. ASSUME NEW k \in 1 .. n PROVE (A \o B)[k] = buf[Wrap(ReadIndex + k - 1)]
      <4>1. CASE k <= fwd
        <5>1. (A \o B)[k] = A[k]
          BY <4>1, <3>1, <3>7, <1>2
        <5>2. Wrap(ReadIndex + k - 1) = ReadIndex + k - 1
          BY <4>1, <3>1, <1>1, <1>2 DEF Wrap
        <5>3. k \in 1 .. fwd
          BY <4>1, <3>1, <1>2
        <5> QED
          BY <5>1, <5>2, <5>3, <3>8
      <4>2. CASE k > fwd
        <5>1. (A \o B)[k] = B[k - fwd] /\ k - fwd \in 1 .. left
          BY <4>2, <3>1, <3>7, <1>2, SMTT(30)
        <5>2. Wrap(ReadIndex + k - 1) = 0 + (k - fwd) - 1
          BY <4>2, <3>1, <1>1, <1>2 DEF Wrap
        <5> QED
          BY <5>1, <5>2, <3>9
      <4>3. k <= fwd \/ k > fwd
        BY <3>1, <1>2
      <4> QED
        BY <4>1, <4>2, <4>3
    <3>12. A \o B = [k \in 1 .. n |-> (A \o B)[k]]
      BY <3>10, SeqIsFunction
    <3> QED
      BY <3>2, <3>11, <3>12, <2>1, <2>2
  <2> QED
    BY <2>3, <2>4, <1>1, <1>2
<1>6. Stream' = SubSeq(Stream, n + 1, Len(Stream))
  <2>1. SubSeq(Stream, n + 1, Used) = [k \in 1 .. Used - n |-> Stream[k + n]]
    BY <1>1, <1>2, <1>4
  <2>2. Stream' = [k \in 1 .. Used - n |-> buf[Wrap(ReadIndex' + k - 1)]]
    BY <1>2 DEF Stream, Wrap
  <2>3. \A k \in 1 .. Used - n : Wrap(ReadIndex' + k - 1) = Wrap(ReadIndex + (k + n) - 1)
    BY <1>1, <1>2 DEF CommonReadFifo, Wrap, Advance
  <2>4. \A k \in 1 .. Used - n : Stream[k + n] = buf[Wrap(ReadIndex + (k + n) - 1)]
    BY <1>1, <1>2 DEF Stream
  <2> QED
    BY <2>1, <2>2, <2>3, <2>4, <1>4
<1> QED
  BY <1>2, <1>4, <1>5, <1>6

LEMMA StreamInit == Init => TS!Init
BY FifoLenAssumption DEF Init, TS!Init, Stream, Used

LEMMA StreamStep ==
    ASSUME Inv, [Next]_vars
    PROVE  [TS!Next]_(TS!vars)
<1> USE FifoLenAssumption, MaxBatchAssumption
<1>1. ASSUME NEW d \in Batches, WriteCall(d) PROVE UNCHANGED TS!vars
  BY <1>1 DEF WriteCall, fifo, TS!vars, Stream, Used, Wrap
<1>2. CASE WriteCheck
  BY <1>2 DEF WriteCheck, fifo, TS!vars, Stream, Used, Wrap
<1>3. CASE WriteCritical
  <2>1. WriteBuf \in Batches
    BY <1>3 DEF WriteCritical, Inv, SafeInv
  <2>2. TS!Put(WriteBuf)
    BY <1>3, WriteAppends DEF TS!Put
  <2> QED
    BY <2>1, <2>2 DEF TS!Next
<1>4. ASSUME NEW n \in 1 .. MaxBatch, CommonReadFifo(n) PROVE TS!Next
  <2>1. n \in 1 .. FifoLen
    OBVIOUS
  <2>2. TS!Get(n)
    BY <1>4, ReadTakesOldest DEF TS!Get
  <2> QED
    BY <2>1, <2>2 DEF TS!Next
<1>5. CASE UNCHANGED vars
  BY <1>5 DEF vars, TS!vars, Stream, Used, Wrap
<1> QED
  BY <1>1, <1>2, <1>3, <1>4, <1>5 DEF Next, Write, Read

\* Without a reset the ring of Fifo.c is a bounded stream: for every ring
\* size and every interleaving of the writer's two steps with the interrupt,
\* ticks come out in order, each exactly once.
THEOREM RefinesTickStream == Spec => ImplementsTickStream
<1>1. Init => TS!Init
  BY StreamInit
<1>2. Inv /\ [Next]_vars => [TS!Next]_(TS!vars)
  BY StreamStep
<1> QED
  BY <1>1, <1>2, InvInit, InvStep, PTL DEF Spec, ImplementsTickStream, TS!Spec
=============================================================================
