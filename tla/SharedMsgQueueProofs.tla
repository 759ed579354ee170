----------------------- MODULE SharedMsgQueueProofs ------------------------
(* Proofs about SharedMsgQueue.  RoomKept holds for queues of every size,   *)
(* OrderInv for queues of one message.                                      *)
EXTENDS SharedMsgQueue, TLAPS

\* While the sender is between taking a message out and sending its own, the
\* queue has room: the receiver only takes.
RoomKept == /\ ~refused
            /\ snd \in {"backup", "again"} => Len(Queue) < mq_maxmsg

RoomInv == TypeOK /\ RoomKept

LEMMA TakeOne == ASSUME TypeOK, Queue # << >>
                 PROVE /\ Head(Queue) \in Numbers
                       /\ Tail(Queue) \in Seq(Numbers)
                       /\ Len(Tail(Queue)) = Len(Queue) - 1
                       /\ Len(Queue) \in Nat \ {0}
BY DEF TypeOK

LEMMA AddOne == ASSUME TypeOK, NEW n \in Numbers
                PROVE /\ Append(Queue, n) \in Seq(Numbers)
                      /\ Len(Append(Queue, n)) = Len(Queue) + 1
                      /\ Len(Queue) \in Nat
BY DEF TypeOK

LEMMA RoomInit == Init => RoomInv
<1> SUFFICES ASSUME Init PROVE RoomInv
    OBVIOUS
<1>1. Queue \in Seq(Numbers) /\ Len(Queue) <= mq_maxmsg
    BY SizeAssumption DEF Init
<1>2. 0 \in Numbers
    BY SendAssumption DEF Numbers
<1>3. refused \in BOOLEAN /\ ~refused
    BY Zenon DEF Init
<1> QED
    BY <1>1, <1>2, <1>3 DEF Init, RoomInv, RoomKept, TypeOK

LEMMA RoomStep == RoomInv /\ [Next]_vars => RoomInv'
<1> SUFFICES ASSUME RoomInv, [Next]_vars PROVE RoomInv'
    OBVIOUS
<1> USE SizeAssumption, SendAssumption
<1>t. TypeOK /\ RoomKept
    BY DEF RoomInv
<1>1. CASE SendFirst
    <2>1. sent + 1 \in Numbers
        BY <1>1, <1>t DEF SendFirst, TypeOK, Numbers
    <2>2. CASE HasRoom
        <3>1. Queue' = Append(Queue, sent + 1)
            BY <1>1, <2>2 DEF SendFirst
        <3>2. Queue' \in Seq(Numbers) /\ Len(Queue') <= mq_maxmsg
            BY <1>t, <2>1, <2>2, <3>1, AddOne DEF HasRoom
        <3> QED
            BY <1>1, <1>t, <2>1, <2>2, <3>2
            DEF SendFirst, RoomInv, RoomKept, TypeOK, receiver
    <2>3. CASE ~HasRoom
        BY <1>1, <1>t, <2>1, <2>3
        DEF SendFirst, RoomInv, RoomKept, TypeOK, receiver
    <2> QED
        BY <2>2, <2>3
<1>2. CASE MakeRoom
    <2>1. CASE Queue # << >>
        BY <1>2, <1>t, <2>1, TakeOne
        DEF MakeRoom, TakenOut, RoomInv, RoomKept, TypeOK, receiver
    <2>2. CASE Queue = << >>
        BY <1>2, <1>t, <2>2 DEF MakeRoom, RoomInv, RoomKept, TypeOK, receiver
    <2> QED
        BY <2>1, <2>2
<1>3. CASE SendBackup
    BY <1>3, <1>t DEF SendBackup, RoomInv, RoomKept, TypeOK, receiver
<1>4. CASE SendAgain
    <2>1. HasRoom
        BY <1>4, <1>t DEF SendAgain, RoomKept, HasRoom
    <2>2. Queue' = Append(Queue, sent) /\ refused' = refused /\ snd' = "idle"
        BY <1>4, <1>t, <2>1 DEF SendAgain, Appended, TypeOK, RoomKept
    <2>3. Queue' \in Seq(Numbers) /\ Len(Queue') <= mq_maxmsg
        BY <1>t, <2>1, <2>2, AddOne DEF HasRoom, TypeOK
    <2> QED
        BY <1>4, <1>t, <2>2, <2>3 DEF SendAgain, RoomInv, RoomKept, TypeOK, receiver
<1>5. CASE RecvFirst
    <2>1. CASE Queue # << >>
        BY <1>5, <1>t, <2>1, TakeOne
        DEF RecvFirst, TakenOut, RoomInv, RoomKept, TypeOK, sender
    <2>2. CASE Queue = << >>
        BY <1>5, <1>t, <2>2 DEF RecvFirst, RoomInv, RoomKept, TypeOK, sender
    <2> QED
        BY <2>1, <2>2
<1>6. CASE RecvBackup
    BY <1>6, <1>t DEF RecvBackup, KeptByReceiver, RoomInv, RoomKept, TypeOK, sender
<1>7. CASE RecvCopy
    BY <1>7, <1>t DEF RecvCopy, RoomInv, RoomKept, TypeOK, sender
<1>8. CASE UNCHANGED vars
    BY <1>8, <1>t DEF vars, RoomInv, RoomKept, TypeOK
<1> QED
    BY <1>1, <1>2, <1>3, <1>4, <1>5, <1>6, <1>7, <1>8 DEF Next, CrMsgSend, CrMsgRecv

(* The queue never holds more than it may and every variable keeps its      *)
(* type, for every size of the queue.                                       *)
THEOREM TypeCorrect == Spec => []TypeOK
<1>1. RoomInv => TypeOK
    BY DEF RoomInv
<1> QED
    BY <1>1, RoomInit, RoomStep, PTL DEF Spec

(* CrMsgSend never returns -1 with one sender, for every size of the queue. *)
THEOREM SendsSucceed == Spec => []NoneRefused
<1>1. RoomInv => NoneRefused
    BY DEF RoomInv, RoomKept, NoneRefused
<1> QED
    BY <1>1, RoomInit, RoomStep, PTL DEF Spec

-----------------------------------------------------------------------------
\* What is on its way to the receiver is newer than what it has got: in the
\* queue, with the sender (taken out, or still to be sent) and with the
\* receiver itself, in this order of age.
OrderInv ==
    /\ got <= DataBuff /\ DataBuff <= sent
    /\ rcv = "backup" => got < MsgBuff /\ MsgBuff <= sent
    /\ snd # "idle" => /\ DataBuff < sent
                       /\ rcv = "backup" => MsgBuff < sent
    /\ snd = "backup" => /\ DataBuff < Data /\ Data < sent
                         /\ rcv = "backup" => MsgBuff < Data
    /\ Queue # << >> => /\ DataBuff < Queue[1] /\ Queue[1] <= sent
                        /\ rcv = "backup" => MsgBuff < Queue[1]
                        /\ snd # "idle" => Queue[1] < sent

LEMMA OrderInit == Init => OrderInv
BY DEF Init, OrderInv

LEMMA OneMessage == ASSUME mq_maxmsg = 1, TypeOK
                    PROVE /\ HasRoom <=> Queue = << >>
                          /\ Queue # << >> => /\ Tail(Queue) = << >>
                                              /\ Head(Queue) = Queue[1]
                          /\ \A n : Append(<< >>, n) # << >> /\ Append(<< >>, n)[1] = n
BY DEF TypeOK, HasRoom

LEMMA OrderStep == ASSUME mq_maxmsg = 1
                   PROVE RoomInv /\ OrderInv /\ [Next]_vars => OrderInv'
<1> SUFFICES ASSUME RoomInv, OrderInv, [Next]_vars PROVE OrderInv'
    OBVIOUS
<1>t. TypeOK /\ RoomKept
    BY DEF RoomInv
<1>n. /\ DataBuff \in Int /\ Data \in Int /\ sent \in Int /\ MsgBuff \in Int /\ got \in Int
      /\ Queue # << >> => Queue[1] \in Int
    BY <1>t, SendAssumption, OneMessage, TakeOne DEF TypeOK, Numbers
<1>r. snd \in {"backup", "again"} => Queue = << >>
    BY <1>t, OneMessage DEF RoomKept, HasRoom
<1>1. CASE SendFirst
    <2>1. CASE HasRoom
        BY <1>1, <1>t, <1>n, <2>1, OneMessage DEF SendFirst, OrderInv, receiver
    <2>2. CASE ~HasRoom
        BY <1>1, <1>t, <1>n, <2>2, OneMessage DEF SendFirst, OrderInv, receiver
    <2> QED
        BY <2>1, <2>2
<1>2. CASE MakeRoom
    <2>1. CASE Queue # << >>
        BY <1>2, <1>t, <1>n, <2>1, OneMessage DEF MakeRoom, TakenOut, OrderInv, receiver
    <2>2. CASE Queue = << >>
        BY <1>2, <1>t, <1>n, <2>2 DEF MakeRoom, OrderInv, receiver
    <2> QED
        BY <2>1, <2>2
<1>3. CASE SendBackup
    BY <1>3, <1>n, <1>r DEF SendBackup, OrderInv, receiver
<1>4. CASE SendAgain
    BY <1>4, <1>t, <1>n, <1>r, OneMessage DEF SendAgain, Appended, OrderInv, receiver
<1>5. CASE RecvFirst
    <2>1. CASE Queue # << >>
        BY <1>5, <1>t, <1>n, <1>r, <2>1, OneMessage
        DEF RecvFirst, TakenOut, OrderInv, sender
    <2>2. CASE Queue = << >>
        BY <1>5, <1>t, <1>n, <2>2 DEF RecvFirst, OrderInv, sender
    <2> QED
        BY <2>1, <2>2
<1>6. CASE RecvBackup
    BY <1>6, <1>n DEF RecvBackup, KeptByReceiver, OrderInv, sender
<1>7. CASE RecvCopy
    BY <1>7, <1>n DEF RecvCopy, OrderInv, sender
<1>8. CASE UNCHANGED vars
    BY <1>8 DEF vars, OrderInv
<1> QED
    BY <1>1, <1>2, <1>3, <1>4, <1>5, <1>6, <1>7, <1>8 DEF Next, CrMsgSend, CrMsgRecv

(* What CrMsgRecv returns never goes back in time when the queue holds one  *)
(* message.  With two, a message taken out by the sender can be written to  *)
(* the backup after the receiver got a later one.                           *)
THEOREM ReadsNeverGoBack == ASSUME mq_maxmsg = 1 PROVE Spec => NeverBack
<1>1. RoomInv /\ OrderInv /\ [Next]_vars => [got' >= got]_vars
    <2> SUFFICES ASSUME RoomInv, OrderInv, [Next]_vars, ~ UNCHANGED vars
                 PROVE got' >= got
        OBVIOUS
    <2>n. DataBuff \in Int /\ MsgBuff \in Int /\ got \in Int
        BY SendAssumption DEF RoomInv, TypeOK, Numbers
    <2>1. CASE CrMsgSend
        BY <2>1, <2>n DEF CrMsgSend, SendFirst, MakeRoom, SendBackup, SendAgain, receiver
    <2>2. CASE RecvFirst
        BY <2>2, <2>n DEF RecvFirst
    <2>3. CASE RecvBackup
        BY <2>3, <2>n DEF RecvBackup, OrderInv
    <2>4. CASE RecvCopy
        BY <2>4, <2>n DEF RecvCopy, OrderInv
    <2> QED
        BY <2>1, <2>2, <2>3, <2>4 DEF Next, CrMsgRecv
<1> QED
    BY <1>1, RoomInit, RoomStep, OrderInit, OrderStep, PTL DEF Spec, NeverBack

-----------------------------------------------------------------------------
(***************************************************************************)
(* A sender of such reports: the heater manager.  Its variables are        *)
(* disjoint from those of the queue, of which its model has only the       *)
(* message of the view it answers.                                         *)
(***************************************************************************)
CONSTANTS
    Degree, Temps, Targets, PID_EFFECT_RANGE, UPPER_TEMPERATURE_LIMIT,
    LOWER_TEMPERATURE_LIMIT, Kp, Kd, IntegralTerms, IntegralSaturation,
    SystemSaturation, ReachedPolls, MaxTemps, MaxCmds, MaxMsgs

VARIABLES
    temp, duty, LastError, period, Attr, HeaterManagerStart, IsHeated, CurStatus,
    LastStatus, FirstErrTime, LastErr, main, RecvQueue, gcode, Attributes, how,
    polls, budget

Heater == INSTANCE HeaterManager

Duties == 0 .. SystemSaturation
AttrType == [target : Targets, cur : Int, duty : Duties]

\* Not only the PWM but every copy of its duty is within the limits: a command
\* writes back the duty it read before.  M190 polls at least once more.
HeaterInv ==
    /\ Heater!TypeOK
    /\ LastError \in Int
    /\ Attr \in AttrType /\ Attributes \in AttrType
    /\ gcode = "wait" => polls > 0

LEMMA PidInRange ==
    ASSUME Heater!ConstantTypes, NEW e \in Int, LastError \in Int
    PROVE  Heater!PidCalc(e) \subseteq Duties
<1>1. SystemSaturation \in Nat /\ Kp \in Int /\ Kd \in Int
  BY DEF Heater!ConstantTypes
<1>2. Heater!IntegralTerm(e) \subseteq Int
  BY DEF Heater!IntegralTerm, Heater!ConstantTypes
<1>3. \A v \in Int : Heater!Limit(v) \in Duties
  BY <1>1 DEF Heater!Limit, Duties
<1>4. \A i \in Heater!IntegralTerm(e) : Kp * e + i + Kd * (e - LastError) \in Int
  <2>1. Kp * e \in Int /\ Kd * (e - LastError) \in Int
    BY <1>1
  <2> QED
    BY <1>2, <2>1
<1>5. 0 \in Duties
  BY <1>1 DEF Duties
<1> QED
  BY <1>3, <1>4, <1>5 DEF Heater!PidCalc

LEMMA HeaterInit ==
    ASSUME Heater!ConstantTypes, Heater!Init
    PROVE  HeaterInv
<1>1. 0 \in Targets /\ 0 \in Duties /\ ReachedPolls \in Nat
  BY DEF Heater!ConstantTypes, Duties
<1>2. Attr \in AttrType /\ Attributes \in AttrType
  BY <1>1 DEF Heater!Init, Heater!Zeroed, AttrType
<1>3. HeaterManagerStart \in BOOLEAN /\ IsHeated \in BOOLEAN
  <2>1. HeaterManagerStart = TRUE /\ IsHeated = FALSE
    BY DEF Heater!Init
  <2> QED
    BY <2>1, Zenon
<1>4. Heater!TypeOK
  BY <1>1, <1>3 DEF Heater!Init, Heater!TypeOK, Heater!Zeroed, Heater!Statuses,
     Heater!Nothing, Heater!Query, Duties
<1> QED
  BY <1>2, <1>4 DEF Heater!Init, HeaterInv

\* What CrHeaterManagerStop and the PID leave in the PWM.
LEMMA StopKeepsTypes ==
    ASSUME Heater!ConstantTypes, HeaterInv, Heater!CrHeaterManagerStop
    PROVE  duty' \in Duties /\ period' \in {0, 200} /\ HeaterManagerStart' \in BOOLEAN
<1>1. 0 \in Duties
  BY DEF Heater!ConstantTypes, Duties
<1>2. duty \in Duties /\ period \in {0, 200} /\ HeaterManagerStart \in BOOLEAN
  BY DEF HeaterInv, Heater!TypeOK, Duties
<1>3. HeaterManagerStart' \in BOOLEAN
  BY <1>2, Zenon DEF Heater!CrHeaterManagerStop
<1> QED
  BY <1>1, <1>2, <1>3 DEF Heater!CrHeaterManagerStop

LEMMA HeaterStep ==
    ASSUME Heater!ConstantTypes, HeaterInv, [Heater!Next]_(Heater!vars)
    PROVE  HeaterInv'
<1>t. /\ temp \in Temps /\ temp \in Int /\ duty \in Duties
      /\ Attr \in AttrType /\ Attributes \in AttrType /\ LastError \in Int
      /\ Attr.target \in Targets /\ Attr.target \in Int /\ 0 \in Targets
      /\ HeaterManagerStart \in BOOLEAN /\ IsHeated \in BOOLEAN
      /\ polls \in 0 .. ReachedPolls /\ ReachedPolls \in Nat \ {0}
  <2>1. /\ temp \in Temps /\ duty \in Duties /\ Attr.target \in Targets
        /\ HeaterManagerStart \in BOOLEAN /\ IsHeated \in BOOLEAN
        /\ polls \in 0 .. ReachedPolls
    BY DEF HeaterInv, Heater!TypeOK, Duties
  <2>2. /\ Temps \subseteq Int /\ Targets \subseteq Int /\ 0 \in Targets
        /\ ReachedPolls \in Nat \ {0}
    BY DEF Heater!ConstantTypes
  <2>3. Attr \in AttrType /\ Attributes \in AttrType /\ LastError \in Int
    BY DEF HeaterInv
  <2>4. temp \in Int /\ Attr.target \in Int
    BY <2>1, <2>2
  <2> QED
    BY <2>1, <2>2, <2>3, <2>4
<1> USE DEF Heater!pid, Heater!protection, Heater!command
\* TypeOK asks less of the attributes than AttrType.
<1>a. ASSUME Attr' \in AttrType, Attributes' \in AttrType
      PROVE  Attr'.duty \in 0 .. SystemSaturation /\ Attr'.target \in Targets
               /\ Attributes'.target \in Targets
  BY <1>a DEF AttrType, Duties
<1>1. ASSUME NEW t \in Temps, Heater!Sense(t) PROVE HeaterInv'
  BY <1>1 DEF HeaterInv, Heater!TypeOK, Heater!Sense
<1>2. CASE Heater!TimePasses
  BY <1>2 DEF HeaterInv, Heater!TypeOK, Heater!TimePasses
<1>3. CASE Heater!TimeOutHandle
  <2>1. Attr.target - temp \in Int
    BY <1>t
  <2>2. Heater!PidCalc(Attr.target - temp) \subseteq Duties
    BY <1>t, <2>1, PidInRange
  <2>3. duty' \in Duties /\ LastError' \in Int
    BY <1>3, <2>1, <2>2 DEF Heater!TimeOutHandle
  <2> QED
    BY <1>3, <2>3 DEF HeaterInv, Heater!TypeOK, Heater!TimeOutHandle, Duties
<1>4. CASE Heater!CrHeaterManagerProtection
  <2>1. duty' \in Duties /\ period' \in {0, 200} /\ HeaterManagerStart' \in BOOLEAN
    <3>1. CASE Heater!CrHeaterManagerStop
      BY <3>1, StopKeepsTypes
    <3>2. CASE UNCHANGED <<period, HeaterManagerStart, duty>>
      BY <3>2 DEF HeaterInv, Heater!TypeOK, Duties
    <3> QED
      BY <1>4, <3>1, <3>2 DEF Heater!CrHeaterManagerProtection
  <2>2. Heater!StatusNow \in Heater!Statuses
    BY DEF Heater!StatusNow, HeaterInv, Heater!TypeOK, Heater!Statuses
  <2>3. CurStatus' \in Heater!Statuses /\ LastStatus' \in Heater!Statuses
    BY <1>4, <2>2 DEF Heater!CrHeaterManagerProtection, Heater!Statuses
  <2>4. FirstErrTime' \in {"zero", "past", "future"}
    BY <1>4 DEF Heater!CrHeaterManagerProtection, Heater!FirstErrNow, HeaterInv, Heater!TypeOK
  <2> QED
    BY <1>4, <2>1, <2>3, <2>4
    DEF HeaterInv, Heater!TypeOK, Heater!CrHeaterManagerProtection, Duties
<1>5. CASE Heater!HandleTemperMsg
  <2>1. RecvQueue \in Targets \cup {Heater!Query, Heater!Nothing}
    BY DEF HeaterInv, Heater!TypeOK
  <2>2. Attr' \in AttrType
    <3>1. CASE RecvQueue = Heater!Nothing
      BY <1>5, <1>t, <3>1 DEF Heater!HandleTemperMsg
    <3>2. CASE RecvQueue # Heater!Nothing
      <4> DEFINE g == IF RecvQueue = Heater!Query THEN Attr.target ELSE RecvQueue
      <4>1. g \in Targets
        BY <1>t, <2>1, <3>2
      <4>2. Attr' = [target |-> g, cur |-> temp, duty |-> duty]
        BY <1>5, <3>2 DEF Heater!HandleTemperMsg
      <4> HIDE DEF g
      <4> QED
        BY <1>t, <4>1, <4>2 DEF AttrType
    <3> QED
      BY <3>1, <3>2
  <2> QED
    BY <1>5, <1>t, <1>a, <2>2 DEF HeaterInv, Heater!TypeOK, Heater!HandleTemperMsg
<1>6. ASSUME NEW m \in Targets \cup {Heater!Query}, Heater!ViewSend(m) PROVE HeaterInv'
  BY <1>6 DEF HeaterInv, Heater!TypeOK, Heater!ViewSend
<1>7. ASSUME NEW h, NEW t \in Targets, Heater!GetAttr(h, t) PROVE HeaterInv'
  <2>1. Attributes' \in AttrType
    BY <1>7, <1>t DEF Heater!GetAttr, AttrType
  <2> QED
    BY <1>7, <1>t, <1>a, <2>1 DEF HeaterInv, Heater!TypeOK, Heater!GetAttr
<1>8. CASE Heater!M112
  <2>1. duty' \in Duties /\ period' \in {0, 200} /\ HeaterManagerStart' \in BOOLEAN
    BY <1>8, StopKeepsTypes DEF Heater!M112
  <2> QED
    BY <1>8, <2>1 DEF HeaterInv, Heater!TypeOK, Heater!M112, Duties
<1>9. CASE Heater!SetHeater
  <2>1. duty' \in Duties
    BY <1>9, <1>t DEF Heater!SetHeater, AttrType
  <2> QED
    BY <1>9, <2>1 DEF HeaterInv, Heater!TypeOK, Heater!SetHeater, Duties
<1>10. CASE Heater!SetAttr
  BY <1>10, <1>t, <1>a DEF HeaterInv, Heater!TypeOK, Heater!SetAttr
<1>11. CASE Heater!SetStart
  <2>1. period' \in {0, 200} /\ HeaterManagerStart' \in BOOLEAN
    <3>1. HeaterManagerStart' \in BOOLEAN
      BY <1>11, <1>t, Zenon DEF Heater!SetStart, Heater!CrHeaterManagerStart
    <3> QED
      BY <1>11, <3>1
      DEF HeaterInv, Heater!TypeOK, Heater!SetStart, Heater!CrHeaterManagerStart
  <2>2. IsHeated' \in BOOLEAN
    BY <1>11 DEF Heater!SetStart
  <2>3. Attributes' \in AttrType
    <3>1. 0 \in Duties
      BY DEF Heater!ConstantTypes, Duties
    <3> QED
      BY <1>11, <1>t, <3>1 DEF Heater!SetStart, Heater!Zeroed, AttrType
  <2>4. gcode' \in {"idle", "stop", "wait"}
    BY <1>11 DEF Heater!SetStart, Heater!AfterSet
  <2>5. polls' \in 0 .. ReachedPolls /\ (gcode' = "wait" => polls' > 0)
    BY <1>11, <1>t DEF Heater!SetStart
  <2>6. Attr' = Attr
    BY <1>11 DEF Heater!SetStart
  <2> QED
    BY <1>11, <1>t, <1>a, <2>1, <2>2, <2>3, <2>4, <2>5, <2>6
    DEF HeaterInv, Heater!TypeOK, Heater!SetStart
<1>12. CASE Heater!Poll
  <2>1. polls > 0
    BY <1>12 DEF HeaterInv, Heater!Poll
  <2>2. polls' \in 0 .. ReachedPolls /\ (gcode' = "wait" => polls' > 0)
    BY <1>12, <1>t, <2>1 DEF Heater!Poll
  <2> QED
    BY <1>12, <2>2 DEF HeaterInv, Heater!TypeOK, Heater!Poll
<1>13. CASE Heater!StopAfter
  <2>1. duty' \in Duties /\ period' \in {0, 200} /\ HeaterManagerStart' \in BOOLEAN
    BY <1>13, StopKeepsTypes DEF Heater!StopAfter
  <2> QED
    BY <1>13, <2>1 DEF HeaterInv, Heater!TypeOK, Heater!StopAfter, Duties
<1>14. CASE UNCHANGED Heater!vars
  BY <1>14 DEF HeaterInv, Heater!TypeOK, Heater!vars
<1> QED
  BY <1>t, <1>1, <1>2, <1>3, <1>4, <1>5, <1>6, <1>7, <1>8, <1>9, <1>10, <1>11, <1>12,
     <1>13, <1>14 DEF Heater!Next, Heater!Exec, Heater!Gcode

\* For all temperatures, targets and PID parameters, and whichever thread
\* writes last: the PWM of a heater is never given less than nothing nor more
\* than SystemSaturation, and every variable has its type.
THEOREM HeaterTypeCorrect ==
    ASSUME Heater!ConstantTypes
    PROVE  Heater!Spec => []Heater!TypeOK
<1>1. Heater!Init => HeaterInv
  BY HeaterInit
<1>2. HeaterInv /\ [Heater!Next]_(Heater!vars) => HeaterInv'
  BY HeaterStep
<1>3. HeaterInv => Heater!TypeOK
  BY DEF HeaterInv
<1> QED
  BY <1>1, <1>2, <1>3, PTL DEF Heater!Spec
=============================================================================
