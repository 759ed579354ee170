-------------------------- MODULE SharedMsgQueue ---------------------------
(***************************************************************************)
(* The shared message queue (CrMsgQueue/SharedQueue/CrSharedMsgQueue.c):   *)
(* a model on the main thread reports its latest value with CrMsgSend, a   *)
(* view on the controller thread reads it with CrMsgRecv.  Neither call    *)
(* waits: a sender that finds the queue full takes one message out, a      *)
(* receiver that finds it empty returns the message received last, which   *)
(* the two keep in the backup buffer DataBuff.                             *)
(*                                                                         *)
(* A thread may be preempted between the queue operation and the copy from *)
(* or to DataBuff.  The copy itself is one step: it is made under Mutex.   *)
(*                                                                         *)
(* Abstracted: a message is its number, counted by the sender; 0 is the    *)
(* zero bytes a new DataBuff is filled with (Map.cpp).  Both ends are      *)
(* open; every message has the length of the buffer.                       *)
(***************************************************************************)
EXTENDS Integers, Sequences

CONSTANTS
    mq_maxmsg,   \* messages the queue holds: 1 for the reports of heaters, fans,
                 \* printer and SD card, 2 in CrMotion and CrParam
    MaxSend      \* bound: messages sent in a behaviour

ASSUME SizeAssumption == mq_maxmsg \in Nat \ {0}
ASSUME SendAssumption == MaxSend \in Nat

VARIABLES
    Queue,       \* the message queue
    DataBuff,    \* the backup
    snd,         \* where the sender is
    Data,        \* the sender's local Data: what it took out
    sent,        \* the number of the last message given to CrMsgSend
    rcv,         \* where the receiver is
    MsgBuff,     \* the receiver's buffer
    got,         \* what its last CrMsgRecv returned
    refused      \* a CrMsgSend returned -1

sender == <<snd, Data, sent, refused>>
receiver == <<rcv, MsgBuff, got>>
vars == <<Queue, DataBuff, snd, Data, sent, rcv, MsgBuff, got, refused>>

Init ==
    /\ Queue = << >> /\ DataBuff = 0
    /\ snd = "idle" /\ Data = 0 /\ sent = 0 /\ refused = FALSE
    /\ rcv = "idle" /\ MsgBuff = 0 /\ got = 0

\* Mutant of HasRoom: one message too many.
HasRoomOneMore == Len(Queue) <= mq_maxmsg
HasRoom == Len(Queue) < mq_maxmsg

(***************************************************************************)
(* CrMsgSend.                                                              *)
(***************************************************************************)
SendFirst ==
    /\ snd = "idle"
    /\ sent < MaxSend
    /\ sent' = sent + 1
    /\ Queue' = IF HasRoom THEN Append(Queue, sent') ELSE Queue
    /\ snd' = IF HasRoom THEN "idle" ELSE "makeroom"
    /\ UNCHANGED <<DataBuff, Data, refused, receiver>>

\* Mutant of TakenOut: the oldest message is only looked at.
TakenOutNot == Queue
TakenOut == Tail(Queue)

\* The queue is full: one message is taken out with CrMsgRecv, unless the
\* receiver was faster.
MakeRoom ==
    /\ snd = "makeroom"
    /\ IF Queue # << >>
         THEN /\ Data' = Head(Queue)
              /\ Queue' = TakenOut
              /\ snd' = "backup"
         ELSE /\ snd' = "again"
              /\ UNCHANGED <<Data, Queue>>
    /\ UNCHANGED <<DataBuff, sent, refused, receiver>>

SendBackup ==
    /\ snd = "backup"
    /\ DataBuff' = Data
    /\ snd' = "again"
    /\ UNCHANGED <<Queue, Data, sent, refused, receiver>>

\* Mutant of Appended: the second send is forgotten.
AppendedNot == Queue
Appended == Append(Queue, sent)

SendAgain ==
    /\ snd = "again"
    /\ Queue' = IF HasRoom THEN Appended ELSE Queue
    /\ refused' = (refused \/ ~HasRoom)
    /\ snd' = "idle"
    /\ UNCHANGED <<DataBuff, Data, sent, receiver>>

CrMsgSend == SendFirst \/ MakeRoom \/ SendBackup \/ SendAgain

(***************************************************************************)
(* CrMsgRecv.                                                              *)
(***************************************************************************)
RecvFirst ==
    /\ rcv = "idle"
    /\ IF Queue # << >>
         THEN /\ MsgBuff' = Head(Queue)
              /\ Queue' = TakenOut
              /\ rcv' = "backup"
         ELSE /\ rcv' = "copy"
              /\ UNCHANGED <<MsgBuff, Queue>>
    /\ UNCHANGED <<DataBuff, got, sender>>

\* Mutant of KeptByReceiver: what was received is not backed up.
KeptByReceiverNot == DataBuff
KeptByReceiver == MsgBuff

RecvBackup ==
    /\ rcv = "backup"
    /\ DataBuff' = KeptByReceiver
    /\ got' = MsgBuff
    /\ rcv' = "idle"
    /\ UNCHANGED <<Queue, MsgBuff, sender>>

RecvCopy ==
    /\ rcv = "copy"
    /\ MsgBuff' = DataBuff
    /\ got' = DataBuff
    /\ rcv' = "idle"
    /\ UNCHANGED <<Queue, DataBuff, sender>>

CrMsgRecv == RecvFirst \/ RecvBackup \/ RecvCopy

Next == CrMsgSend \/ CrMsgRecv

Spec == Init /\ [][Next]_vars

\* A call once begun is finished (the threads are scheduled), and the view
\* reads again and again.
FairSpec ==
    /\ Spec
    /\ WF_vars(MakeRoom \/ SendBackup \/ SendAgain)
    /\ WF_vars(CrMsgRecv)

-----------------------------------------------------------------------------
Numbers == 0 .. MaxSend

(* Every variable has its type; the queue never holds more than it may.     *)
TypeOK ==
    /\ Queue \in Seq(Numbers) /\ Len(Queue) <= mq_maxmsg
    /\ DataBuff \in Numbers /\ Data \in Numbers /\ sent \in Numbers
    /\ MsgBuff \in Numbers /\ got \in Numbers
    /\ snd \in {"idle", "makeroom", "backup", "again"}
    /\ rcv \in {"idle", "backup", "copy"}
    /\ refused \in BOOLEAN

(* No call of CrMsgSend returns -1: the room MakeRoom made is still there   *)
(* for the second send, whatever the receiver does in between.              *)
NoneRefused == ~refused

(* What CrMsgRecv returns never goes back in time, though both threads      *)
(* write the backup some time after they took the message: true of a queue  *)
(* of one message, not of one of two.                                       *)
NeverBack == [][got' >= got]_vars

(* The view gets the message sent last, though messages before it may be    *)
(* taken out by the sender and be seen by nobody.                           *)
NewestArrives == \A n \in Numbers : sent >= n ~> got >= n
=============================================================================
