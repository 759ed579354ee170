-------------------------- MODULE GcodeQueueProofs --------------------------
(***************************************************************************)
(* Proofs about GcodeQueue, for every length of the ring and of the        *)
(* message queue and any number of commands and clears.                    *)
(***************************************************************************)
EXTENDS GcodeQueue, TLAPS

-----------------------------------------------------------------------------
(***************************************************************************)
(* Types.  What TypeOK does not say and needs: the index that was loaded   *)
(* is still one when it is stored, and a command being put has a number.   *)
(***************************************************************************)
TypeInv == /\ TypeOK
           /\ exec = "headstore" => reg \in Slots
           /\ prn = "put" => put > 0

(***************************************************************************)
(* Order.  Pending taken apart: the commands in the ring, the one on its   *)
(* way into it, the queue, and the one being put, each with what it must   *)
(* be greater than.                                                        *)
(***************************************************************************)
Ring(k) == CmdBuff[SlotAt(k)]
Moving == exec \in {"store", "tail"}

RingOrder == /\ \A k \in 1 .. Held : Ring(k) > last
             /\ \A j, k \in 1 .. Held : j < k => Ring(j) < Ring(k)

MovingOrder == Moving => /\ Buff > last
                         /\ \A k \in 1 .. Held : Ring(k) < Buff

QueueOrder ==
    /\ \A i \in 1 .. Len(CmdQueue) :
         /\ CmdQueue[i] > last
         /\ \A k \in 1 .. Held : Ring(k) < CmdQueue[i]
         /\ Moving => Buff < CmdQueue[i]
    /\ \A i, j \in 1 .. Len(CmdQueue) : i < j => CmdQueue[i] < CmdQueue[j]

PutOrder ==
    prn = "put" =>
      /\ put > last
      /\ \A k \in 1 .. Held : Ring(k) < put
      /\ Moving => Buff < put
      /\ \A i \in 1 .. Len(CmdQueue) : CmdQueue[i] < put

\* Without a clear, the numbers pending are all those between last and put.
OneIf(b) == IF b THEN 1 ELSE 0
Fetched == last + Held + OneIf(Moving)
NoneLost ==
    clears = 0 =>
      /\ \A k \in 1 .. Held : Ring(k) = last + k
      /\ Moving => Buff = Fetched
      /\ \A i \in 1 .. Len(CmdQueue) : CmdQueue[i] = Fetched + i
      /\ Fetched + Len(CmdQueue) + OneIf(prn = "put") = put

\* What head, tail and count say, taking into account the update in progress.
RingShape ==
    /\ Held \in 0 .. QUEUE_MSG_NUM
    /\ CmdBuffTail = SlotAt(Held + 1)
    /\ Moving \/ Executed => Held < QUEUE_MSG_NUM
    /\ exec = "tail" => CmdBuff[CmdBuffTail] = Buff
    /\ exec \in {"store+", "store-"} => reg = CmdCount
    /\ exec = "headstore" => reg = CmdBuffHead
    /\ exec \in {"process", "handle"} => Held > 0

\* A clear that found the G-code thread quiet finds it quiet until it is done.
ClearShape ==
    /\ prn \in {"wait", "head", "count", "memset"} => CmdQueue = << >>
    /\ prn \notin {"idle", "put"} => clears > 0
    /\ ~torn /\ prn \in {"count", "memset"} => Quiet /\ CmdBuffHead = CmdBuffTail
    /\ ~torn /\ prn = "memset" => CmdCount = 0

Ordered == RingShape /\ RingOrder /\ MovingOrder /\ QueueOrder /\ PutOrder /\ NoneLost

OrderInv == /\ TypeInv
            /\ ClearShape
            /\ ~torn /\ prn # "count" => Ordered

-----------------------------------------------------------------------------
LEMMA SeqGrows ==
    ASSUME NEW n \in Nat, NEW q \in Seq(1 .. n)
    PROVE  q \in Seq(1 .. n + 1)
<1>1. 1 .. n \subseteq 1 .. n + 1
  OBVIOUS
<1> QED
  BY <1>1

LEMMA NextIndexType ==
    ASSUME NEW i \in Slots
    PROVE  NextCmdIndex(i) \in Slots
BY RingAssumption DEF Slots, NextCmdIndex

LEMMA TailFacts ==
    ASSUME NEW S, NEW q \in Seq(S), q # << >>
    PROVE  /\ Head(q) \in S /\ Head(q) = q[1] /\ Len(q) > 0
           /\ Tail(q) \in Seq(S) /\ Len(Tail(q)) = Len(q) - 1
           /\ \A i \in 1 .. Len(Tail(q)) : Tail(q)[i] = q[i + 1]
OBVIOUS

LEMMA TypeInit == Init => TypeInv
<1> SUFFICES ASSUME Init PROVE TypeInv
  OBVIOUS
<1>1. 0 \in Slots /\ CmdBuff \in [Slots -> 0 .. put]
  BY RingAssumption DEF Init, Slots, Blank
<1>2. CmdQueue \in Seq(1 .. put) /\ Len(CmdQueue) <= QUEUE_MAX_MSG
  BY QueueAssumption DEF Init
<1>3. torn \in BOOLEAN
  BY DEF Init
<1> QED
  BY <1>1, <1>2, <1>3 DEF Init, TypeInv, TypeOK, Blank

LEMMA PutTypes == ASSUME TypeInv, PutGcodeCmd PROVE TypeInv'
<1>1. CASE PutCall
  <2>1. put' \in Nat /\ CmdQueue' \in Seq(1 .. put') /\ Len(CmdQueue') <= QUEUE_MAX_MSG
    BY <1>1, SeqGrows DEF PutCall, TypeInv, TypeOK
  <2>2. CmdBuff' \in [Slots -> 0 .. put'] /\ Buff' \in 0 .. put' /\ last' \in 0 .. put'
    BY <1>1 DEF PutCall, TypeInv, TypeOK, ring, locals
  <2> QED
    BY <1>1, <2>1, <2>2 DEF PutCall, TypeInv, TypeOK, ring, locals
<1>2. CASE PutSend
  BY <1>2, QueueAssumption DEF PutSend, TypeInv, TypeOK, ring, locals
<1> QED
  BY <1>1, <1>2 DEF PutGcodeCmd

LEMMA ClearTypes == ASSUME TypeInv, CrCmdQueueClear PROVE TypeInv'
<1> USE DEF TypeInv, TypeOK, ring, locals
<1>1. CASE ClearCall
  BY <1>1 DEF ClearCall
<1>2. CASE ClearDrain
  <2>1. CASE CmdQueue # << >>
    <3>1. Tail(CmdQueue) \in Seq(1 .. put) /\ Len(Tail(CmdQueue)) <= QUEUE_MAX_MSG
      BY <2>1, TailFacts, QueueAssumption
    <3> QED
      BY <1>2, <2>1, <3>1 DEF ClearDrain
  <2>2. CASE CmdQueue = << >>
    BY <1>2, <2>2 DEF ClearDrain
  <2> QED
    BY <2>1, <2>2
<1>3. CASE ClearWait
  BY <1>3 DEF ClearWait
<1>4. CASE ClearHead
  BY <1>4 DEF ClearHead
<1>5. CASE ClearCount
  BY <1>5, RingAssumption, CountAssumption DEF ClearCount
<1>6. CASE ClearMemset
  BY <1>6 DEF ClearMemset, Blank
<1> QED
  BY <1>1, <1>2, <1>3, <1>4, <1>5, <1>6 DEF CrCmdQueueClear

\* Counting modulo CountMod.
LEMMA CountFacts ==
    ASSUME NEW a \in Int
    PROVE  /\ a % CountMod \in 0 .. CountMod - 1
           /\ a \in 0 .. CountMod - 1 => a % CountMod = a
BY RingAssumption, CountAssumption

LEMMA ExecTypes == ASSUME TypeInv, Exec PROVE TypeInv'
<1> USE DEF TypeInv, TypeOK, ring, locals, printer
<1>1. CASE RecvMsg
  <2>1. Head(CmdQueue) \in 1 .. put /\ Tail(CmdQueue) \in Seq(1 .. put)
          /\ Len(Tail(CmdQueue)) <= QUEUE_MAX_MSG
    BY <1>1, TailFacts, QueueAssumption DEF RecvMsg
  <2> QED
    BY <1>1, <2>1 DEF RecvMsg
<1>2. CASE RecvDone
  BY <1>2 DEF RecvDone
<1>3. CASE StoreCmd
  BY <1>3 DEF StoreCmd
<1>4. CASE OffsetTail
  BY <1>4, NextIndexType DEF OffsetTail
<1>5. CASE LoadCountUp
  BY <1>5 DEF LoadCountUp
<1>6. CASE StoreCountUp
  <2>1. (reg + 1) % CountMod \in 0 .. CountMod - 1
    BY CountFacts
  <2> QED
    BY <1>6, <2>1 DEF StoreCountUp
<1>7. CASE EmptyCheck
  BY <1>7 DEF EmptyCheck
<1>8. CASE SetProcess
  BY <1>8 DEF SetProcess
<1>9. CASE HandleDone
  BY <1>9 DEF HandleDone, Blank
<1>10. CASE HandleWait
  BY <1>10 DEF HandleWait
<1>11. CASE WipeSlot
  BY <1>11 DEF WipeSlot, Blank
<1>12. CASE LoadHead
  <2>1. CmdBuffHead \in Nat
    BY RingAssumption DEF Slots
  <2> QED
    BY <1>12, <2>1 DEF LoadHead
<1>13. CASE StoreHead
  BY <1>13, NextIndexType DEF StoreHead, HeadAfter
<1>14. CASE LoadCountDown
  BY <1>14 DEF LoadCountDown
<1>15. CASE StoreCountDown
  <2>1. (reg - 1) % CountMod \in 0 .. CountMod - 1
    BY CountFacts
  <2> QED
    BY <1>15, <2>1 DEF StoreCountDown
<1>17. CASE TestCount
  BY <1>17 DEF TestCount
<1>16. CASE SetOk
  BY <1>16 DEF SetOk, StatusAfter
<1> QED
  BY <1>1, <1>2, <1>3, <1>4, <1>5, <1>6, <1>7, <1>8, <1>9, <1>10, <1>11, <1>12,
     <1>13, <1>14, <1>15, <1>16, <1>17 DEF Exec

LEMMA TypeStep == TypeInv /\ [Next]_vars => TypeInv'
<1>1. ASSUME TypeInv, UNCHANGED vars PROVE TypeInv'
  BY <1>1 DEF TypeInv, TypeOK, vars
<1> QED
  BY <1>1, PutTypes, ClearTypes, ExecTypes DEF Next

\* Head and tail stay inside the ring, the queue inside its length and every
\* slot holds a command that was put, or nothing, also where a reset of the
\* printer thread meets the G-code thread in the middle of an update.
THEOREM TypeCorrect == Spec => []TypeOK
<1>1. TypeInv => TypeOK
  BY DEF TypeInv
<1> QED
  BY <1>1, TypeInit, TypeStep, PTL DEF Spec

-----------------------------------------------------------------------------
(***************************************************************************)
(* Slots of the ring, counted from a first one.                            *)
(***************************************************************************)
LEMMA FirstType == ASSUME TypeInv PROVE First \in Slots
BY NextIndexType DEF TypeInv, TypeOK, First

\* The k-th slot from slot f on, of which SlotAt(k) is the one from First on.
At(f, k) == IF f + k - 1 >= QUEUE_MSG_NUM THEN f + k - 1 - QUEUE_MSG_NUM ELSE f + k - 1

\* QUEUE_MSG_NUM slots in a row are different, and the next is the first again.
LEMMA AtFacts ==
    ASSUME NEW f \in Slots
    PROVE  /\ \A k \in 1 .. QUEUE_MSG_NUM + 1 : At(f, k) \in Slots
           /\ \A j, k \in 1 .. QUEUE_MSG_NUM : At(f, j) = At(f, k) => j = k
           /\ At(f, 1) = f /\ At(f, 0 + 1) = f
           /\ At(f, QUEUE_MSG_NUM + 1) = f
           /\ \A k \in 1 .. QUEUE_MSG_NUM : NextCmdIndex(At(f, k)) = At(f, k + 1)
           /\ \A k \in 1 .. QUEUE_MSG_NUM : At(NextCmdIndex(f), k) = At(f, k + 1)
BY RingAssumption DEF At, Slots, NextCmdIndex

LEMMA SlotIsAt == \A k : SlotAt(k) = At(First, k)
BY DEF SlotAt, At

LEMMA SlotIsAtNext == \A k : SlotAt(k)' = At(First', k)
BY DEF SlotAt, At

LEMMA TailSlotNext == SlotAt(Held + 1)' = At(First', Held' + 1)
BY DEF SlotAt, At

LEMMA HeldType == ASSUME TypeInv PROVE Held \in Int
BY DEF TypeInv, TypeOK, Held, Stored, Executed

LEMMA FetchedType == ASSUME TypeInv PROVE Fetched \in Int
BY HeldType DEF Fetched, OneIf, TypeInv, TypeOK

\* A step after which the ring holds the same commands as before.
SameRing == /\ Held' = Held
            /\ \A k \in 1 .. Held : Ring(k)' = Ring(k)
            /\ last' = last

LEMMA SameRingWhenUnchanged ==
    ASSUME TypeInv, Held' = Held, First' = First, UNCHANGED <<CmdBuff, last>>
    PROVE  /\ SameRing
           /\ SlotAt(Held + 1)' = SlotAt(Held + 1)
BY DEF SameRing, Ring, SlotAt

\* Then the order is kept as well, if what is not in the ring stays.
LEMMA SameOrder ==
    ASSUME TypeInv, Ordered, SameRing, Moving' = Moving,
           UNCHANGED <<Buff, CmdQueue, printer>>
    PROVE  RingOrder' /\ MovingOrder' /\ QueueOrder' /\ PutOrder' /\ NoneLost'
<1>1. RingOrder' /\ MovingOrder'
  BY DEF Ordered, RingOrder, MovingOrder, SameRing
<1>2. QueueOrder'
  BY DEF Ordered, QueueOrder, SameRing
<1>3. PutOrder'
  BY DEF Ordered, PutOrder, SameRing, printer
<1>4. Fetched' = Fetched
  BY DEF SameRing, Fetched, OneIf
<1>5. NoneLost'
  BY <1>4 DEF Ordered, NoneLost, SameRing, printer
<1> QED
  BY <1>1, <1>2, <1>3, <1>5

LEMMA RingType ==
    ASSUME TypeInv, Held \in 0 .. QUEUE_MSG_NUM
    PROVE  \A k \in 1 .. Held : Ring(k) \in 0 .. put
<1>1. \A k \in 1 .. Held : SlotAt(k) \in Slots
  BY FirstType, SlotIsAt, AtFacts, RingAssumption
<1> QED
  BY <1>1 DEF Ring, TypeInv, TypeOK

-----------------------------------------------------------------------------
(***************************************************************************)
(* The printer thread puts a command.                                      *)
(***************************************************************************)
LEMMA PutOrdered == ASSUME OrderInv, PutGcodeCmd, ~torn PROVE Ordered'
<1> USE DEF OrderInv
<1>0. Ordered
  BY DEF PutGcodeCmd, PutCall, PutSend
<1>1. UNCHANGED <<ring, exec, locals, last, clears>>
  BY DEF PutGcodeCmd, PutCall, PutSend
<1>2. Held' = Held /\ First' = First /\ Moving' = Moving
  BY <1>1 DEF ring, Held, First, Stored, Executed, Moving, locals
<1>3. SameRing /\ SlotAt(Held + 1)' = SlotAt(Held + 1)
  BY <1>1, <1>2, SameRingWhenUnchanged DEF ring
<1>4. RingShape'
  BY <1>0, <1>1, <1>2, <1>3 DEF Ordered, RingShape, Executed, ring, locals
<1>5. RingOrder' /\ MovingOrder'
  BY <1>0, <1>1, <1>2, <1>3 DEF Ordered, RingOrder, MovingOrder, SameRing, locals
<1>6. \A k \in 1 .. Held : Ring(k) \in 0 .. put
  BY <1>0, RingType DEF Ordered, RingShape
<1>9. Fetched' = Fetched /\ Fetched \in Int
  BY <1>1, <1>2, FetchedType DEF Fetched, OneIf
<1> USE DEF TypeInv, TypeOK
<1>7. CASE PutCall
  <2>1. QueueOrder'
    BY <1>0, <1>1, <1>2, <1>3, <1>7 DEF Ordered, QueueOrder, SameRing, PutCall, locals
  <2>2. PutOrder'
    BY <1>0, <1>1, <1>2, <1>3, <1>6, <1>7 DEF Ordered, PutOrder, SameRing, PutCall, locals
  <2>3. NoneLost'
    <3>1. OneIf(prn = "put") = 0 /\ OneIf(prn = "put")' = 1 /\ put' = put + 1
      BY <1>7 DEF PutCall, OneIf
    <3>2. /\ \A k \in 1 .. Held' : Ring(k)' = Ring(k)
          /\ UNCHANGED <<CmdQueue, Buff, last, clears>>
      BY <1>1, <1>3, <1>7 DEF SameRing, PutCall, locals
    <3> QED
      BY <1>0, <1>2, <1>9, <3>1, <3>2 DEF Ordered, NoneLost
  <2> QED
    BY <1>4, <1>5, <2>1, <2>2, <2>3 DEF Ordered
<1>8. CASE PutSend
  <2>0. /\ Len(CmdQueue') = Len(CmdQueue) + 1
        /\ \A i \in 1 .. Len(CmdQueue) : CmdQueue'[i] = CmdQueue[i]
        /\ CmdQueue'[Len(CmdQueue) + 1] = put
    BY <1>8 DEF PutSend
  <2>1. QueueOrder'
    <3> SUFFICES ASSUME NEW i \in 1 .. Len(CmdQueue')
                 PROVE  /\ CmdQueue'[i] > last
                        /\ \A k \in 1 .. Held : Ring(k) < CmdQueue'[i]
                        /\ Moving => Buff < CmdQueue'[i]
                        /\ \A j \in 1 .. Len(CmdQueue') : i < j => CmdQueue'[i] < CmdQueue'[j]
      BY <1>1, <1>2, <1>3 DEF QueueOrder, SameRing, locals
    <3>1. CASE i = Len(CmdQueue) + 1
      BY <3>1, <2>0, <1>0, <1>8 DEF Ordered, PutOrder, PutSend
    <3>2. CASE i \in 1 .. Len(CmdQueue)
      BY <3>2, <2>0, <1>0, <1>8 DEF Ordered, PutOrder, QueueOrder, PutSend
    <3> QED
      BY <3>1, <3>2, <2>0
  <2>2. PutOrder' /\ NoneLost'
    <3>1. prn = "put" /\ prn' = "idle" /\ put' = put
      BY <1>8 DEF PutSend
    <3>2. OneIf(prn = "put") = 1 /\ OneIf(prn = "put")' = 0 /\ Len(CmdQueue) \in Nat
      BY <3>1 DEF OneIf
    <3>3. /\ \A k \in 1 .. Held' : Ring(k)' = Ring(k)
          /\ UNCHANGED <<Buff, last, clears>>
      BY <1>1, <1>3 DEF SameRing, locals
    <3>4. clears = 0 => \A i \in 1 .. Len(CmdQueue') : CmdQueue'[i] = Fetched + i
      <4>1. clears = 0 => put = Fetched + (Len(CmdQueue) + 1)
        BY <1>0, <1>9, <3>2 DEF Ordered, NoneLost
      <4>2. \A i \in 1 .. Len(CmdQueue') : i = Len(CmdQueue) + 1 \/ i \in 1 .. Len(CmdQueue)
        BY <2>0, <3>2
      <4> QED
        BY <1>0, <2>0, <4>1, <4>2 DEF Ordered, NoneLost
    <3>5. clears = 0 => Fetched + Len(CmdQueue') + 0 = put
      BY <1>0, <1>9, <2>0, <3>2 DEF Ordered, NoneLost
    <3>6. NoneLost'
      BY <1>0, <1>2, <1>9, <3>1, <3>2, <3>3, <3>4, <3>5 DEF Ordered, NoneLost
    <3> QED
      BY <3>1, <3>6 DEF PutOrder
  <2> QED
    BY <1>4, <1>5, <2>1, <2>2 DEF Ordered
<1> QED
  BY <1>7, <1>8 DEF PutGcodeCmd

-----------------------------------------------------------------------------
(***************************************************************************)
(* The printer thread clears: the order is that of what is left, and the   *)
(* count of it is not claimed any more.                                    *)
(***************************************************************************)
LEMMA ClearOrdered ==
    ASSUME OrderInv, CrCmdQueueClear, ~torn', prn' # "count"
    PROVE  Ordered'
<1> USE DEF OrderInv
<1>1. CASE ClearCall \/ ClearWait \/ ClearDrain
  <2>1. /\ UNCHANGED <<ring, exec, locals, last, torn>>
        /\ prn' # "put" /\ prn # "count" /\ clears' # 0
    BY <1>1 DEF ClearCall, ClearWait, ClearDrain, ClearShape, TypeInv, TypeOK
  <2>2. Ordered
    BY <2>1
  <2>3. Held' = Held /\ First' = First /\ Moving' = Moving
    BY <2>1 DEF ring, Held, First, Stored, Executed, Moving
  <2>4. SameRing /\ SlotAt(Held + 1)' = SlotAt(Held + 1)
    BY <2>1, <2>3, SameRingWhenUnchanged DEF ring
  <2>5. RingShape'
    BY <2>1, <2>2, <2>3, <2>4 DEF Ordered, RingShape, Executed, ring, locals
  <2>6. RingOrder' /\ MovingOrder' /\ PutOrder' /\ NoneLost'
    BY <2>1, <2>2, <2>3, <2>4
       DEF Ordered, RingOrder, MovingOrder, PutOrder, NoneLost, SameRing, locals
  <2>7. QueueOrder'
    <3>1. CASE CmdQueue' = CmdQueue
      BY <2>1, <2>2, <2>3, <2>4, <3>1 DEF Ordered, QueueOrder, SameRing, locals
    <3>2. CASE CmdQueue # << >> /\ CmdQueue' = Tail(CmdQueue)
      <4>1. /\ Len(CmdQueue) \in Nat /\ Len(CmdQueue') = Len(CmdQueue) - 1
            /\ \A i \in 1 .. Len(CmdQueue') : CmdQueue'[i] = CmdQueue[i + 1]
        BY <3>2, TailFacts DEF TypeInv, TypeOK
      <4> QED
        BY <2>1, <2>2, <2>3, <2>4, <4>1, SMTT(30) DEF Ordered, QueueOrder, SameRing, locals
    <3> QED
      BY <1>1, <3>1, <3>2 DEF ClearCall, ClearWait, ClearDrain
  <2> QED
    BY <2>5, <2>6, <2>7 DEF Ordered
<1>2. CASE ClearCount \/ ClearMemset
  <2>1. /\ Quiet /\ exec' = exec /\ CmdBuffHead' = CmdBuffTail'
        /\ CmdCount' = 0 /\ CmdQueue' = << >> /\ prn' \notin {"put", "count"}
        /\ clears' # 0
    BY <1>2 DEF ClearCount, ClearMemset, ClearShape, TypeInv, TypeOK, locals
  <2>2. Held' = 0 /\ First' = CmdBuffTail' /\ ~Moving'
    BY <2>1 DEF Held, First, Stored, Executed, Moving, Quiet
  <2>3. CmdBuffTail' = SlotAt(Held + 1)'
    <3>1. CmdBuffTail' \in Slots
      BY <1>2 DEF ClearCount, ClearMemset, TypeInv, TypeOK
    <3> QED
      BY <2>2, <3>1, TailSlotNext, AtFacts
  <2>4. RingShape'
    BY <2>1, <2>2, <2>3, RingAssumption DEF RingShape, Quiet
  <2> QED
    BY <2>1, <2>2, <2>4
       DEF Ordered, RingOrder, MovingOrder, QueueOrder, PutOrder, NoneLost
<1> QED
  BY <1>1, <1>2 DEF CrCmdQueueClear, ClearHead

LEMMA ClearShapeStep == ASSUME OrderInv, Next PROVE ClearShape'
<1> USE DEF OrderInv, ClearShape
<1>1. CASE PutGcodeCmd
  BY <1>1 DEF PutGcodeCmd, PutCall, PutSend
<1>2. CASE CrCmdQueueClear
  <2>0. clears \in Nat
    BY DEF TypeInv, TypeOK
  <2>1. CASE ClearCall
    BY <2>0, <2>1 DEF ClearCall
  <2>2. CASE ClearDrain
    BY <2>2 DEF ClearDrain
  <2>3. CASE ClearWait
    BY <2>3 DEF ClearWait
  <2>4. CASE ClearHead
    BY <2>4 DEF ClearHead, Quiet
  <2>5. CASE ClearCount
    BY <2>5 DEF ClearCount, Quiet
  <2>6. CASE ClearMemset
    BY <2>6 DEF ClearMemset
  <2> QED
    BY <1>2, <2>1, <2>2, <2>3, <2>4, <2>5, <2>6 DEF CrCmdQueueClear
<1>3. CASE Exec
  <2>1. UNCHANGED <<prn, clears>> /\ (torn => torn')
    <3>1. UNCHANGED <<prn, clears>> /\ (torn' = torn \/ EmptyCheck)
      BY <1>3 DEF Exec, RecvMsg, RecvDone, StoreCmd, OffsetTail, LoadCountUp, StoreCountUp,
                  EmptyCheck, SetProcess, HandleDone, HandleWait, WipeSlot, LoadHead,
                  StoreHead, TestCount, LoadCountDown, StoreCountDown, SetOk, printer
    <3>2. EmptyCheck /\ torn => torn'
      BY Zenon DEF EmptyCheck
    <3> QED
      BY <3>1, <3>2
  <2>2. CASE RecvMsg
    BY <2>2 DEF RecvMsg, printer
  <2>3. CASE RecvDone
    BY <2>3 DEF RecvDone, printer, ring, Quiet
  <2>4. CASE EmptyCheck
    BY <2>4 DEF EmptyCheck, CrCmdQueueIsEmpty, printer, ring, Quiet
  <2>5. CASE ~(RecvMsg \/ RecvDone \/ EmptyCheck)
    <3>1. ~Quiet /\ CmdQueue' = CmdQueue
      BY <1>3, <2>5 DEF Exec, StoreCmd, OffsetTail, LoadCountUp, StoreCountUp,
                SetProcess, HandleDone, HandleWait, WipeSlot, LoadHead,
                StoreHead, TestCount, LoadCountDown, StoreCountDown, SetOk, Quiet
    <3> QED
      BY <2>1, <3>1
  <2> QED
    BY <2>2, <2>3, <2>4, <2>5
<1> QED
  BY <1>1, <1>2, <1>3 DEF Next

-----------------------------------------------------------------------------
(***************************************************************************)
(* The G-code thread.  Only three of its steps change what is pending:     *)
(* a message leaves the queue, enters the ring, is executed.               *)
(***************************************************************************)
LEMMA RecvMsgOrdered == ASSUME TypeInv, Ordered, RecvMsg PROVE Ordered'
<1>1. /\ ~Moving /\ Moving' /\ Held' = Held /\ First' = First
      /\ exec' = "store" /\ UNCHANGED <<ring, last, prn, put, clears>>
  BY DEF RecvMsg, Moving, Held, First, Stored, Executed, ring, printer
<1>2. SameRing /\ SlotAt(Held + 1)' = SlotAt(Held + 1)
  BY <1>1, SameRingWhenUnchanged DEF ring
<1>3. /\ Len(CmdQueue) \in Nat /\ Len(CmdQueue) > 0 /\ Buff' = CmdQueue[1]
      /\ Len(CmdQueue') = Len(CmdQueue) - 1
      /\ \A i \in 1 .. Len(CmdQueue') : CmdQueue'[i] = CmdQueue[i + 1]
  BY TailFacts DEF RecvMsg, TypeInv, TypeOK
<1>4. Held < QUEUE_MSG_NUM
  <2>1. Held = CmdCount /\ First = CmdBuffHead /\ ~CrCmdQueueIsFull
    BY DEF RecvMsg, Held, First, Stored, Executed, TypeInv, TypeOK
  <2>2. Held \in 0 .. QUEUE_MSG_NUM /\ CmdBuffTail = SlotAt(Held + 1)
    BY DEF Ordered, RingShape
  <2>3. Held # QUEUE_MSG_NUM
    BY <2>1, <2>2, FirstType, SlotIsAt, AtFacts DEF CrCmdQueueIsFull
  <2> QED
    BY <2>2, <2>3, RingAssumption
<1>5. RingShape'
  BY <1>1, <1>2, <1>4 DEF Ordered, RingShape, ring
<1>6. RingOrder' /\ MovingOrder'
  BY <1>1, <1>2, <1>3 DEF Ordered, RingOrder, MovingOrder, QueueOrder, SameRing
<1>7. QueueOrder'
  <2>1. \A i \in 1 .. Len(CmdQueue') : i + 1 \in 1 .. Len(CmdQueue) /\ 1 < i + 1
    BY <1>3
  <2>2. \A i \in 1 .. Len(CmdQueue') : Buff' < CmdQueue'[i] /\ CmdQueue'[i] > last'
    BY <1>1, <1>3, <2>1 DEF Ordered, QueueOrder
  <2>3. \A i \in 1 .. Len(CmdQueue'), k \in 1 .. Held : Ring(k)' < CmdQueue'[i]
    BY <1>2, <1>3, <2>1 DEF Ordered, QueueOrder, SameRing
  <2>4. \A i, j \in 1 .. Len(CmdQueue') : i < j => CmdQueue'[i] < CmdQueue'[j]
    BY <1>3, <2>1 DEF Ordered, QueueOrder
  <2> QED
    BY <1>1, <2>2, <2>3, <2>4 DEF QueueOrder
<1>8. PutOrder'
  BY <1>1, <1>2, <1>3 DEF Ordered, PutOrder, SameRing
<1>9. NoneLost'
  <2>1. Fetched' = Fetched + 1 /\ Fetched \in Int
    BY <1>1, FetchedType, HeldType DEF Fetched, OneIf, TypeInv, TypeOK
  <2>2. clears = 0 => Buff' = Fetched'
    BY <1>3, <2>1 DEF Ordered, NoneLost
  <2>3. clears = 0 => \A i \in 1 .. Len(CmdQueue') : CmdQueue'[i] = Fetched' + i
    <3>1. \A i \in 1 .. Len(CmdQueue') : i + 1 \in 1 .. Len(CmdQueue)
      BY <1>3
    <3> QED
      BY <1>3, <2>1, <3>1 DEF Ordered, NoneLost
  <2>4. OneIf(prn = "put")' = OneIf(prn = "put") /\ OneIf(prn = "put") \in Int
    BY <1>1 DEF OneIf
  <2>5. clears = 0 => Fetched' + Len(CmdQueue') + OneIf(prn = "put")' = put'
    BY <1>1, <1>3, <2>1, <2>4 DEF Ordered, NoneLost
  <2> QED
    BY <1>1, <1>2, <2>2, <2>3, <2>5 DEF Ordered, NoneLost, SameRing
<1> QED
  BY <1>5, <1>6, <1>7, <1>8, <1>9 DEF Ordered

LEMMA OffsetTailOrdered == ASSUME TypeInv, Ordered, OffsetTail PROVE Ordered'
<1> DEFINE n == Held + 1
<1>0. Held \in 0 .. QUEUE_MSG_NUM - 1 /\ CmdBuffTail = SlotAt(n) /\ CmdBuff[CmdBuffTail] = Buff
  BY RingAssumption DEF OffsetTail, Ordered, RingShape, Moving
<1>1. /\ Moving /\ ~Moving' /\ Held' = n /\ First' = First
      /\ exec' = "load+" /\ UNCHANGED <<CmdBuff, CmdQueue, last, prn, put, clears>>
  BY DEF OffsetTail, Moving, Held, First, Stored, Executed, printer, TypeInv, TypeOK
<1>2. \A k : Ring(k)' = Ring(k)
  BY <1>1 DEF Ring, SlotAt
<1>3. Ring(n) = Buff
  BY <1>0 DEF Ring
<1>4. CmdBuffTail' = SlotAt(Held + 1)'
  <2>1. NextCmdIndex(SlotAt(n)) = SlotAt(n + 1)
    BY <1>0, FirstType, SlotIsAt, AtFacts, RingAssumption
  <2>2. SlotAt(Held + 1)' = SlotAt(n + 1)
    BY <1>1 DEF SlotAt
  <2> QED
    BY <1>0, <2>1, <2>2 DEF OffsetTail
<1>5. RingShape'
  <2>1. Held' \in 0 .. QUEUE_MSG_NUM
    BY <1>0, <1>1, RingAssumption
  <2> QED
    BY <1>1, <1>4, <2>1 DEF RingShape, Executed
<1>6. \A k \in 1 .. n : k = n \/ k \in 1 .. Held
  BY <1>0
<1>7. RingOrder'
  <2>1. \A k \in 1 .. n : Ring(k) > last
    BY <1>1, <1>3, <1>6 DEF Ordered, RingOrder, MovingOrder
  <2>2. \A j, k \in 1 .. n : j < k => Ring(j) < Ring(k)
    <3> SUFFICES ASSUME NEW j \in 1 .. n, NEW k \in 1 .. n, j < k
                 PROVE  Ring(j) < Ring(k)
      OBVIOUS
    <3>1. j \in 1 .. Held
      BY <1>0
    <3> QED
      BY <1>1, <1>3, <1>6, <3>1 DEF Ordered, RingOrder, MovingOrder
  <2> QED
    BY <1>1, <1>2, <2>1, <2>2 DEF RingOrder
<1>8. MovingOrder'
  BY <1>1 DEF MovingOrder
<1>9. QueueOrder'
  BY <1>1, <1>2, <1>3, <1>6 DEF Ordered, QueueOrder
<1>10. PutOrder'
  BY <1>1, <1>2, <1>3, <1>6 DEF Ordered, PutOrder
<1>11. NoneLost'
  <2>1. Fetched' = Fetched /\ Fetched = last + n
    <3>1. Held \in Int /\ last \in Int
      BY <1>0 DEF TypeInv, TypeOK
    <3>2. Fetched = last + Held + 1
      BY <1>1 DEF Fetched, OneIf
    <3>3. Fetched' = last + (Held + 1) + 0
      BY <1>1 DEF Fetched, OneIf
    <3> QED
      BY <3>1, <3>2, <3>3
  <2>2. clears = 0 => \A k \in 1 .. n : Ring(k) = last + k
    BY <1>1, <1>3, <1>6, <2>1 DEF Ordered, NoneLost
  <2>3. OneIf(prn = "put")' = OneIf(prn = "put")
    BY <1>1 DEF OneIf
  <2> QED
    BY <1>1, <1>2, <2>1, <2>2, <2>3 DEF Ordered, NoneLost
<1> QED
  BY <1>5, <1>7, <1>8, <1>9, <1>10, <1>11 DEF Ordered

LEMMA HandleDoneOrdered == ASSUME TypeInv, Ordered, HandleDone PROVE Ordered'
<1>0. /\ Held \in 1 .. QUEUE_MSG_NUM /\ CmdBuffTail = SlotAt(Held + 1)
      /\ First = CmdBuffHead /\ Held = CmdCount /\ First \in Slots
  BY RingAssumption DEF HandleDone, Ordered, RingShape, First, Held, Stored, Executed,
                        TypeInv, TypeOK
<1>1. /\ ~Moving /\ ~Moving' /\ Held' = Held - 1 /\ First' = NextCmdIndex(First)
      /\ exec' = "wipe" /\ UNCHANGED <<CmdQueue, ring, prn, put, clears>>
  BY <1>0 DEF HandleDone, Moving, Held, First, Stored, Executed, printer, ring
<1>2. \A k \in 1 .. Held : SlotAt(k)' = SlotAt(k + 1)
  BY <1>0, <1>1, SlotIsAt, SlotIsAtNext, AtFacts, RingAssumption
<1>3. \A k \in 1 .. Held - 1 : Ring(k)' = Ring(k + 1)
  BY <1>0, <1>1, <1>2 DEF Ring, ring
<1>4. Ring(1) = CmdBuff[CmdBuffHead] /\ Ring(1) > last
  BY <1>0, SlotIsAt, AtFacts DEF Ordered, RingOrder, Ring
<1>5. last' = Ring(1) /\ last \in Nat /\ Ring(1) \in Nat
  BY <1>0, <1>4, RingType DEF HandleDone, Blank, TypeInv, TypeOK
<1>6. RingShape'
  <2>1. Held' \in 0 .. QUEUE_MSG_NUM /\ Held' < QUEUE_MSG_NUM
    BY <1>0, <1>1, RingAssumption
  <2>2. SlotAt(Held + 1)' = SlotAt(Held + 1)
    BY <1>0, <1>1, TailSlotNext, SlotIsAt, AtFacts
  <2> QED
    BY <1>0, <1>1, <2>1, <2>2 DEF RingShape, ring
<1>7. \A k \in 1 .. Held - 1 : k + 1 \in 1 .. Held /\ 1 < k + 1
  BY <1>0
<1>8. RingOrder'
  <2>1. \A k \in 1 .. Held - 1 : Ring(k + 1) > Ring(1)
    BY <1>0, <1>5, <1>7, RingType DEF Ordered, RingOrder
  <2>2. \A j, k \in 1 .. Held - 1 : j < k => Ring(j + 1) < Ring(k + 1)
    BY <1>0, <1>7 DEF Ordered, RingOrder
  <2> QED
    BY <1>1, <1>3, <1>5, <2>1, <2>2 DEF RingOrder
<1>9. MovingOrder'
  BY <1>1 DEF MovingOrder
<1>10. QueueOrder'
  BY <1>0, <1>1, <1>3, <1>5, <1>7 DEF Ordered, QueueOrder, TypeInv, TypeOK
<1>11. PutOrder'
  BY <1>0, <1>1, <1>3, <1>5, <1>7 DEF Ordered, PutOrder, TypeInv, TypeOK
<1>12. NoneLost'
  <2>0. clears = 0 => last' = last + 1
    BY <1>0, <1>5 DEF Ordered, NoneLost
  <2>1. clears = 0 => Fetched' = Fetched
    BY <1>0, <1>1, <1>5, <2>0 DEF Fetched, OneIf
  <2>2. clears = 0 => \A k \in 1 .. Held' : Ring(k)' = last' + k
    BY <1>0, <1>1, <1>3, <1>5, <1>7, <2>0 DEF Ordered, NoneLost
  <2>3. OneIf(prn = "put")' = OneIf(prn = "put")
    BY <1>1 DEF OneIf
  <2> QED
    BY <1>1, <2>1, <2>2, <2>3 DEF Ordered, NoneLost
<1> QED
  BY <1>6, <1>8, <1>9, <1>10, <1>11, <1>12 DEF Ordered

\* The other steps leave what is pending alone.  What each of them does to head,
\* tail, count and slots is made up for by where it leaves the thread.
QuietSteps == \/ RecvDone \/ StoreCmd \/ LoadCountUp \/ StoreCountUp \/ EmptyCheck
              \/ SetProcess \/ HandleWait \/ WipeSlot \/ LoadHead \/ StoreHead
              \/ TestCount \/ LoadCountDown \/ StoreCountDown \/ SetOk

LEMMA QuietOrdered == ASSUME TypeInv, Ordered, QuietSteps PROVE Ordered'
<1> USE DEF QuietSteps
<1>0. /\ Held \in 0 .. QUEUE_MSG_NUM /\ CmdBuffTail = SlotAt(Held + 1)
      /\ First \in Slots /\ CmdCount \in Nat /\ CmdBuff \in [Slots -> 0 .. put]
  BY FirstType DEF Ordered, RingShape, TypeInv, TypeOK
<1>1. UNCHANGED <<Buff, CmdQueue, printer, last, CmdBuffTail>>
  BY DEF RecvDone, StoreCmd, LoadCountUp, StoreCountUp, EmptyCheck, SetProcess,
         HandleWait, WipeSlot, LoadHead, StoreHead, TestCount, LoadCountDown,
         StoreCountDown, SetOk,
         locals, ring
<1>2. Moving' = Moving
  BY DEF RecvDone, StoreCmd, LoadCountUp, StoreCountUp, EmptyCheck, SetProcess,
         HandleWait, WipeSlot, LoadHead, StoreHead, TestCount, LoadCountDown,
         StoreCountDown, SetOk,
         Moving
<1>3. First' = First
  <2>1. CASE StoreHead
    BY <2>1 DEF StoreHead, HeadAfter, Ordered, RingShape, First
  <2>2. CASE ~StoreHead
    BY <2>2 DEF RecvDone, StoreCmd, LoadCountUp, StoreCountUp, EmptyCheck, SetProcess,
         HandleWait, WipeSlot, LoadHead, TestCount, LoadCountDown,
         StoreCountDown, SetOk, First, ring
  <2> QED
    BY <2>1, <2>2
<1>4. Held' = Held
  <2>1. CASE StoreCountUp
    <3>1. reg = CmdCount /\ Held = CmdCount + 1
      BY <2>1, <1>0 DEF StoreCountUp, Ordered, RingShape, Held, Stored, Executed
    <3>2. CmdCount' = CmdCount + 1
      <4>1. reg + 1 \in 0 .. CountMod - 1
        BY <3>1, <1>0, RingAssumption, CountAssumption
      <4>2. (reg + 1) % CountMod = reg + 1
        BY <3>1, <1>0, <4>1, CountFacts
      <4> QED
        BY <2>1, <3>1, <4>2 DEF StoreCountUp
    <3> QED
      BY <2>1, <3>1, <3>2, <1>0 DEF StoreCountUp, Held, Stored, Executed
  <2>2. CASE StoreCountDown
    <3>1. reg = CmdCount /\ Held = CmdCount - 1
      BY <2>2, <1>0 DEF StoreCountDown, Ordered, RingShape, Held, Stored, Executed
    <3>2. CmdCount' = CmdCount - 1
      <4>1. reg - 1 \in 0 .. CountMod - 1
        BY <3>1, <1>0, RingAssumption, CountAssumption
      <4>2. (reg - 1) % CountMod = reg - 1
        BY <3>1, <1>0, <4>1, CountFacts
      <4> QED
        BY <2>2, <3>1, <4>2 DEF StoreCountDown
    <3> QED
      BY <2>2, <3>1, <3>2, <1>0 DEF StoreCountDown, Held, Stored, Executed
  <2>4. CASE TestCount
    <3>1. CmdCount > 0
      BY <2>4, <1>0 DEF TestCount, Held, Stored, Executed
    <3> QED
      BY <2>4, <3>1 DEF TestCount, Held, Stored, Executed, ring
  <2>3. CASE ~StoreCountUp /\ ~StoreCountDown /\ ~TestCount
    BY <2>3, <1>0 DEF RecvDone, StoreCmd, LoadCountUp, EmptyCheck, SetProcess, HandleWait,
         WipeSlot, LoadHead, StoreHead, LoadCountDown, SetOk, Held, Stored, Executed, ring
  <2> QED
    BY <2>1, <2>2, <2>3, <2>4
<1>5. \A k : SlotAt(k)' = SlotAt(k)
  BY <1>3, SlotIsAt, SlotIsAtNext
<1>6. SlotAt(Held + 1)' = SlotAt(Held + 1)
  BY <1>3, <1>4, SlotIsAt, TailSlotNext
<1>7. \A k \in 1 .. Held : SlotAt(k) \in Slots
  BY <1>0, SlotIsAt, AtFacts, RingAssumption
<1>8. SameRing
  <2>1. CASE StoreCmd
    <3>1. Held + 1 \in 1 .. QUEUE_MSG_NUM
      BY <2>1, <1>0, RingAssumption DEF StoreCmd, Ordered, RingShape, Moving
    <3>2. \A k \in 1 .. Held : SlotAt(k) # CmdBuffTail
      BY <1>0, <3>1, SlotIsAt, AtFacts, RingAssumption
    <3> QED
      BY <2>1, <1>0, <1>1, <1>4, <1>5, <1>7, <3>2 DEF StoreCmd, SameRing, Ring
  <2>2. CASE WipeSlot
    <3>1. CmdBuffHead \in Slots /\ First = NextCmdIndex(CmdBuffHead)
      BY <2>2 DEF WipeSlot, First, TypeInv, TypeOK
    <3>2. Held < QUEUE_MSG_NUM
      BY <2>2 DEF WipeSlot, Ordered, RingShape, Executed
    <3>3. \A k \in 1 .. Held : SlotAt(k) # CmdBuffHead
      <4> SUFFICES ASSUME NEW k \in 1 .. Held PROVE SlotAt(k) # CmdBuffHead
        OBVIOUS
      <4>1. k + 1 \in 2 .. QUEUE_MSG_NUM /\ k \in 1 .. QUEUE_MSG_NUM /\ 1 \in 1 .. QUEUE_MSG_NUM
        BY <1>0, <3>2, RingAssumption
      <4>2. SlotAt(k) = At(CmdBuffHead, k + 1) /\ At(CmdBuffHead, 1) = CmdBuffHead
        BY <3>1, <4>1, SlotIsAt, AtFacts
      <4>3. At(CmdBuffHead, k + 1) # At(CmdBuffHead, 1)
        BY <3>1, <4>1, AtFacts
      <4> QED
        BY <4>2, <4>3
    <3> QED
      BY <2>2, <1>0, <1>1, <1>4, <1>5, <1>7, <3>1, <3>3 DEF WipeSlot, SameRing, Ring
  <2>3. CASE ~StoreCmd /\ ~WipeSlot
    <3>1. CmdBuff' = CmdBuff
      BY <2>3 DEF RecvDone, LoadCountUp, StoreCountUp, EmptyCheck, SetProcess,
         HandleWait, LoadHead, StoreHead, TestCount, LoadCountDown, StoreCountDown, SetOk, ring
    <3> QED
      BY <3>1, <1>1, <1>4, <1>5 DEF SameRing, Ring
  <2> QED
    BY <2>1, <2>2, <2>3
<1>9. RingShape'
  <2>1. Held' \in 0 .. QUEUE_MSG_NUM /\ CmdBuffTail' = SlotAt(Held + 1)'
    BY <1>0, <1>1, <1>4, <1>6
  <2>2. (Moving \/ Executed)' => Held' < QUEUE_MSG_NUM
    <3>1. Executed' => Executed
      BY DEF RecvDone, StoreCmd, LoadCountUp, StoreCountUp, EmptyCheck, SetProcess,
         HandleWait, WipeSlot, LoadHead, StoreHead, TestCount, LoadCountDown,
         StoreCountDown, SetOk,
         Executed
    <3> QED
      BY <1>2, <1>4, <3>1 DEF Ordered, RingShape
  <2>3. exec' = "tail" => CmdBuff'[CmdBuffTail'] = Buff'
    <3>1. CASE StoreCmd
      BY <3>1, <1>0, <1>1 DEF StoreCmd, TypeInv, TypeOK
    <3>2. CASE ~StoreCmd
      BY <3>2 DEF RecvDone, LoadCountUp, StoreCountUp, EmptyCheck, SetProcess,
         HandleWait, WipeSlot, LoadHead, StoreHead, TestCount, LoadCountDown,
         StoreCountDown, SetOk
    <3> QED
      BY <3>1, <3>2
  <2>4. /\ exec' \in {"store+", "store-"} => reg' = CmdCount'
        /\ exec' = "headstore" => reg' = CmdBuffHead'
    BY DEF RecvDone, StoreCmd, LoadCountUp, StoreCountUp, EmptyCheck, SetProcess,
         HandleWait, WipeSlot, LoadHead, StoreHead, TestCount, LoadCountDown,
         StoreCountDown, SetOk,
         ring
  <2>5. exec' \in {"process", "handle"} => Held' > 0
    <3>1. CASE EmptyCheck
      <4>1. Held = CmdCount /\ First = CmdBuffHead
        BY <3>1, <1>0 DEF EmptyCheck, Held, First, Stored, Executed
      <4>2. Held = 0 => CrCmdQueueIsEmpty
        BY <1>0, <4>1, SlotIsAt, AtFacts DEF CrCmdQueueIsEmpty
      <4> QED
        BY <3>1, <1>0, <1>4, <4>2 DEF EmptyCheck
    <3>2. CASE ~EmptyCheck
      BY <3>2, <1>4 DEF RecvDone, StoreCmd, LoadCountUp, StoreCountUp, SetProcess,
         HandleWait, WipeSlot, LoadHead, StoreHead, TestCount, LoadCountDown,
         StoreCountDown, SetOk,
         Ordered, RingShape
    <3> QED
      BY <3>1, <3>2
  <2> QED
    BY <2>1, <2>2, <2>3, <2>4, <2>5 DEF RingShape
<1> QED
  BY <1>1, <1>2, <1>8, <1>9, SameOrder DEF Ordered

-----------------------------------------------------------------------------
(***************************************************************************)
(* The inductive invariant, and what it says about Pending.                *)
(***************************************************************************)
LEMMA OrderInit == Init => OrderInv
<1> SUFFICES ASSUME Init PROVE OrderInv
  OBVIOUS
<1>1. TypeInv
  BY TypeInit
<1>2. Held = 0 /\ First = 0 /\ ~Moving /\ ~Executed
  BY DEF Init, Held, First, Stored, Executed, Moving
<1>3. SlotAt(Held + 1) = 0 /\ First \in Slots
  BY <1>1, <1>2, FirstType, SlotIsAt, AtFacts
<1>4. RingShape
  BY <1>2, <1>3, RingAssumption DEF Init, RingShape
<1>5. RingOrder /\ MovingOrder /\ QueueOrder /\ PutOrder
  BY <1>2 DEF Init, RingOrder, MovingOrder, QueueOrder, PutOrder
<1>6. NoneLost
  BY <1>2 DEF Init, NoneLost, Fetched, OneIf
<1>7. ClearShape
  BY DEF Init, ClearShape
<1> QED
  BY <1>1, <1>4, <1>5, <1>6, <1>7 DEF OrderInv, Ordered

LEMMA ExecOrdered ==
    ASSUME OrderInv, Exec, ~torn', prn' # "count"
    PROVE  Ordered'
<1>1. TypeInv
  BY DEF OrderInv
<1>2. prn' = prn /\ (torn' = torn \/ EmptyCheck)
  BY DEF Exec, RecvMsg, RecvDone, StoreCmd, OffsetTail, LoadCountUp, StoreCountUp,
         EmptyCheck, SetProcess, HandleDone, HandleWait, WipeSlot, LoadHead,
         StoreHead, TestCount, LoadCountDown, StoreCountDown, SetOk, printer
<1>3. EmptyCheck /\ torn => torn'
  BY Zenon DEF EmptyCheck
<1>4. Ordered
  BY <1>2, <1>3 DEF OrderInv
<1> QED
  BY <1>1, <1>4, RecvMsgOrdered, OffsetTailOrdered, HandleDoneOrdered, QuietOrdered
     DEF Exec, QuietSteps

LEMMA OrderStep == OrderInv /\ [Next]_vars => OrderInv'
<1> SUFFICES ASSUME OrderInv, [Next]_vars PROVE OrderInv'
  OBVIOUS
<1>1. TypeInv'
  BY TypeStep DEF OrderInv
<1>2. CASE UNCHANGED vars
  <2>1. Held' = Held /\ First' = First /\ Moving' = Moving
    BY <1>2 DEF vars, Held, First, Moving, Stored, Executed
  <2>2. ClearShape'
    BY <1>2 DEF OrderInv, ClearShape, vars, Quiet
  <2>3. ASSUME ~torn, prn # "count" PROVE Ordered'
    <3>1. Ordered /\ TypeInv
      BY <2>3 DEF OrderInv
    <3>2. SameRing /\ SlotAt(Held + 1)' = SlotAt(Held + 1)
      BY <1>2, <2>1, <3>1, SameRingWhenUnchanged DEF vars
    <3>3. RingOrder' /\ MovingOrder' /\ QueueOrder' /\ PutOrder' /\ NoneLost'
      BY <1>2, <2>1, <3>1, <3>2, SameOrder DEF vars, printer
    <3>4. RingShape'
      BY <1>2, <2>1, <3>1, <3>2 DEF vars, Ordered, RingShape, Executed
    <3> QED
      BY <3>3, <3>4 DEF Ordered
  <2> QED
    BY <1>1, <1>2, <2>2, <2>3 DEF OrderInv, vars
<1>3. CASE Next
  <2>1. ClearShape'
    BY <1>3, ClearShapeStep
  <2>2. ASSUME ~torn', prn' # "count" PROVE Ordered'
    <3>1. CASE PutGcodeCmd
      BY <2>2, <3>1, PutOrdered DEF PutGcodeCmd, PutCall, PutSend
    <3> QED
      BY <1>3, <2>2, <3>1, ClearOrdered, ExecOrdered DEF Next
  <2> QED
    BY <1>1, <2>1, <2>2 DEF OrderInv
<1> QED
  BY <1>2, <1>3

\* Four sequences in a row, element by element.
LEMMA TwoParts ==
    ASSUME NEW A \in Seq(Int), NEW B \in Seq(Int)
    PROVE  /\ A \o B \in Seq(Int) /\ Len(A) \in Nat /\ Len(B) \in Nat
           /\ Len(A \o B) = Len(A) + Len(B)
           /\ \A k \in 1 .. Len(A) : (A \o B)[k] = A[k]
           /\ \A k \in 1 .. Len(B) : (A \o B)[Len(A) + k] = B[k]
OBVIOUS

HasParts(s, A, B, C, D) ==
    /\ Len(s) = Len(A) + Len(B) + Len(C) + Len(D)
    /\ \A k \in 1 .. Len(A) : s[k] = A[k]
    /\ \A k \in 1 .. Len(B) : s[Len(A) + k] = B[k]
    /\ \A k \in 1 .. Len(C) : s[Len(A) + Len(B) + k] = C[k]
    /\ \A k \in 1 .. Len(D) : s[Len(A) + Len(B) + Len(C) + k] = D[k]

LEMMA ConcatParts ==
    ASSUME NEW A \in Seq(Int), NEW B \in Seq(Int), NEW C \in Seq(Int), NEW D \in Seq(Int)
    PROVE  HasParts(A \o B \o C \o D, A, B, C, D)
<1> DEFINE X == A \o B
           Y == X \o C
           Z == Y \o D
<1>1. /\ X \in Seq(Int) /\ Len(A) \in Nat /\ Len(B) \in Nat /\ Len(X) = Len(A) + Len(B)
      /\ \A k \in 1 .. Len(A) : X[k] = A[k]
      /\ \A k \in 1 .. Len(B) : X[Len(A) + k] = B[k]
  BY TwoParts
<1> HIDE DEF X
<1>2. /\ Y \in Seq(Int) /\ Len(C) \in Nat /\ Len(Y) = Len(X) + Len(C)
      /\ \A k \in 1 .. Len(X) : Y[k] = X[k]
      /\ \A k \in 1 .. Len(C) : Y[Len(X) + k] = C[k]
  BY <1>1, TwoParts
<1> HIDE DEF Y
<1>3. /\ Len(D) \in Nat /\ Len(Z) = Len(Y) + Len(D)
      /\ \A k \in 1 .. Len(Y) : Z[k] = Y[k]
      /\ \A k \in 1 .. Len(D) : Z[Len(Y) + k] = D[k]
  BY <1>2, TwoParts
<1> HIDE DEF Z
<1>4. \A k \in 1 .. Len(X) : k \in 1 .. Len(Y)
  BY <1>1, <1>2
<1>5. \A k \in 1 .. Len(A) : k \in 1 .. Len(X)
  BY <1>1
<1>6. \A k \in 1 .. Len(B) : Len(A) + k \in 1 .. Len(X)
  BY <1>1
<1>7. \A k \in 1 .. Len(C) : Len(X) + k \in 1 .. Len(Y)
  BY <1>1, <1>2
<1>8. /\ \A k \in 1 .. Len(A) : Z[k] = A[k]
      /\ \A k \in 1 .. Len(B) : Z[Len(A) + k] = B[k]
      /\ \A k \in 1 .. Len(C) : Z[Len(X) + k] = C[k]
  BY <1>1, <1>2, <1>3, <1>4, <1>5, <1>6, <1>7
<1> QED
  <2>1. HasParts(Z, A, B, C, D)
    <3>1. /\ Len(Y) = Len(A) + Len(B) + Len(C) /\ Len(X) = Len(A) + Len(B)
          /\ Len(Z) = Len(A) + Len(B) + Len(C) + Len(D)
      BY <1>1, <1>2, <1>3
    <3>2. \A k \in 1 .. Len(C) : Z[Len(A) + Len(B) + k] = C[k]
      BY <1>8, <3>1
    <3>3. \A k \in 1 .. Len(D) : Z[Len(A) + Len(B) + Len(C) + k] = D[k]
      BY <1>3, <3>1
    <3> QED
      BY <1>8, <3>1, <3>2, <3>3, Zenon DEF HasParts
  <2> QED
    BY <2>1 DEF X, Y, Z

\* Every position of Pending is in exactly one part of it.
LEMMA PendingParts ==
    ASSUME TypeInv, Held \in 0 .. QUEUE_MSG_NUM
    PROVE  /\ Len(Pending) = Held + OneIf(Moving) + Len(CmdQueue) + OneIf(prn = "put")
           /\ \A k \in 1 .. Held : Pending[k] = Ring(k)
           /\ Moving => Pending[Held + 1] = Buff
           /\ \A i \in 1 .. Len(CmdQueue) : Pending[Held + OneIf(Moving) + i] = CmdQueue[i]
           /\ prn = "put" => Pending[Held + OneIf(Moving) + Len(CmdQueue) + 1] = put
<1> DEFINE A == [k \in 1 .. Held |-> CmdBuff[SlotAt(k)]]
           B == IF exec \in {"store", "tail"} THEN <<Buff>> ELSE << >>
           D == IF prn = "put" THEN <<put>> ELSE << >>
<1>1. A \in Seq(Int) /\ Len(A) = Held /\ \A k \in 1 .. Held : A[k] = Ring(k)
  <2>1. \A k \in 1 .. Held : CmdBuff[SlotAt(k)] \in Int
    BY RingType DEF Ring, TypeInv, TypeOK
  <2> QED
    BY <2>1 DEF Ring
<1>2. B \in Seq(Int) /\ Len(B) = OneIf(Moving) /\ (Moving => B[1] = Buff)
  BY DEF Moving, OneIf, TypeInv, TypeOK
<1>3. CmdQueue \in Seq(Int)
  <2>1. 1 .. put \subseteq Int
    OBVIOUS
  <2> QED
    BY <2>1 DEF TypeInv, TypeOK
<1>4. D \in Seq(Int) /\ Len(D) = OneIf(prn = "put") /\ (prn = "put" => D[1] = put)
  BY DEF OneIf, TypeInv, TypeOK
<1>5. Pending = A \o B \o CmdQueue \o D
  BY DEF Pending
<1>6. OneIf(Moving) = (IF Moving THEN 1 ELSE 0) /\ OneIf(prn = "put") = (IF prn = "put" THEN 1 ELSE 0)
  BY DEF OneIf
<1> HIDE DEF A, B, D
<1>7. HasParts(Pending, A, B, CmdQueue, D)
  BY <1>1, <1>2, <1>3, <1>4, <1>5, ConcatParts
<1> QED
  BY <1>1, <1>2, <1>4, <1>6, <1>7, SMTT(30) DEF HasParts

LEMMA OrderedIsInOrder ==
    ASSUME TypeInv, Ordered
    PROVE  /\ Held \in 0 .. QUEUE_MSG_NUM
           /\ \A k \in 1 .. Len(Pending) : Pending[k] > last
           /\ \A j, k \in 1 .. Len(Pending) : j < k => Pending[j] < Pending[k]
           /\ clears = 0 => last + Len(Pending) = put
<1> DEFINE m == OneIf(Moving)
           q == Len(CmdQueue)
           p == OneIf(prn = "put")
<1>1. Held \in 0 .. QUEUE_MSG_NUM /\ Held \in Nat
  BY RingAssumption DEF Ordered, RingShape
<1>2. /\ m \in 0 .. 1 /\ (m = 1 <=> Moving) /\ q \in Nat
      /\ p \in 0 .. 1 /\ (p = 1 <=> prn = "put")
  BY DEF OneIf, TypeInv, TypeOK
<1>3. /\ Len(Pending) = Held + m + q + p
      /\ \A k \in 1 .. Held : Pending[k] = Ring(k)
      /\ Moving => Pending[Held + 1] = Buff
      /\ \A i \in 1 .. q : Pending[Held + m + i] = CmdQueue[i]
      /\ prn = "put" => Pending[Held + m + q + 1] = put
  BY <1>1, PendingParts
<1>4. ASSUME NEW k \in 1 .. Len(Pending)
      PROVE  \/ k \in 1 .. Held
             \/ Moving /\ k = Held + 1
             \/ \E i \in 1 .. q : k = Held + m + i
             \/ prn = "put" /\ k = Held + m + q + 1
  <2> HIDE DEF m, p, q
  <2>1. CASE k > Held + m /\ k <= Held + m + q
    <3>1. k - Held - m \in 1 .. q /\ k = Held + m + (k - Held - m)
      BY <2>1, <1>1, <1>2
    <3> QED
      BY <3>1
  <2> QED
    BY <2>1, <1>1, <1>2, <1>3
<1>5. \A k \in 1 .. Len(Pending) : Pending[k] > last
  BY <1>3, <1>4 DEF Ordered, RingOrder, MovingOrder, QueueOrder, PutOrder
<1>6. ASSUME NEW j \in 1 .. Len(Pending), NEW k \in 1 .. Len(Pending), j < k
      PROVE  Pending[j] < Pending[k]
  <2> HIDE DEF m, p, q
  <2>1. CASE k \in 1 .. Held
    BY <2>1, <1>1, <1>3, <1>6 DEF Ordered, RingOrder
  <2>2. CASE Moving /\ k = Held + 1
    BY <2>2, <1>1, <1>3, <1>6 DEF Ordered, MovingOrder
  <2>3. ASSUME NEW i \in 1 .. q, k = Held + m + i PROVE Pending[j] < Pending[k]
    <3>0. Pending[k] = CmdQueue[i]
      BY <2>3, <1>3
    <3>1. CASE j \in 1 .. Held
      BY <3>0, <3>1, <1>3 DEF q, Ordered, QueueOrder
    <3>2. CASE Moving /\ j = Held + 1
      BY <3>0, <3>2, <1>3 DEF q, Ordered, QueueOrder
    <3>3. ASSUME NEW h \in 1 .. q, j = Held + m + h PROVE Pending[j] < Pending[k]
      <4>1. h < i
        BY <2>3, <3>3, <1>1, <1>2, <1>6
      <4>2. CmdQueue[h] < CmdQueue[i]
        BY <4>1 DEF q, Ordered, QueueOrder
      <4> QED
        BY <3>0, <3>3, <4>2, <1>3
    <3>4. j # Held + m + q + 1
      BY <2>3, <1>1, <1>2, <1>6
    <3> QED
      BY <3>1, <3>2, <3>3, <3>4, <1>4
  <2>4. CASE prn = "put" /\ k = Held + m + q + 1
    <3>0. Pending[k] = put
      BY <2>4, <1>3
    <3>1. CASE j \in 1 .. Held
      BY <2>4, <3>0, <3>1, <1>3 DEF Ordered, PutOrder
    <3>2. CASE Moving /\ j = Held + 1
      BY <2>4, <3>0, <3>2, <1>3 DEF Ordered, PutOrder
    <3>3. ASSUME NEW h \in 1 .. q, j = Held + m + h PROVE Pending[j] < Pending[k]
      BY <2>4, <3>0, <3>3, <1>3 DEF q, Ordered, PutOrder
    <3>4. j # Held + m + q + 1
      BY <2>4, <1>1, <1>2, <1>6
    <3> QED
      BY <3>1, <3>2, <3>3, <3>4, <1>4
  <2> QED
    BY <2>1, <2>2, <2>3, <2>4, <1>4
<1>7. clears = 0 => last + Len(Pending) = put
  <2>1. clears = 0 => (last + Held + m) + q + p = put
    BY DEF Ordered, NoneLost, Fetched
  <2>2. last \in Nat
    BY DEF TypeInv, TypeOK
  <2> HIDE DEF m, p, q
  <2> QED
    BY <2>1, <2>2, <1>1, <1>2, <1>3
<1> QED
  BY <1>1, <1>5, <1>6, <1>7

\* InOrder holds for every length of ring and queue, and for commands and clears
\* without bound: a command is executed once and in its turn, and none is lost
\* to the unlocked updates of head, tail, count and slots.
THEOREM ExecutedInOrder == Spec => []InOrder
<1>1. OrderInv => InOrder
  BY OrderedIsInOrder DEF OrderInv, InOrder
<1> QED
  BY <1>1, OrderInit, OrderStep, PTL DEF Spec
=============================================================================
