----------------------------- MODULE GcodeQueue -----------------------------
(***************************************************************************)
(* CrGcode (CrModel/CrGcode.cpp): the path of a G-code command from        *)
(* PutGcodeCmd on the printer thread through the message queue CmdQueue    *)
(* into the ring CmdBuff of the G-code thread, which executes it, and      *)
(* CrCmdQueueClear, with which the printer thread empties both.            *)
(*                                                                         *)
(* The two threads have the same priority and share the ring without a     *)
(* lock.  They interleave at every access to a shared variable; a count or *)
(* an index that is incremented is loaded in one step and stored in        *)
(* another.  The memset of CrCmdQueueClear is one step: CmdQueue is empty  *)
(* then, so at most one slot is written while it runs.                     *)
(*                                                                         *)
(* Abstracted: a command is its number, counted by PutGcodeCmd, and 0 is a *)
(* slot of zero bytes.  Waiting is left out: every handler that calls      *)
(* StartWaiting has it cleared before it returns, so Exec finds it 0.      *)
(***************************************************************************)
EXTENDS Integers, Sequences

CONSTANTS
    QUEUE_MSG_NUM,   \* slots of the ring (16 in the firmware)
    QUEUE_MAX_MSG,   \* messages CmdQueue holds (8 in the firmware)
    CountMod,        \* values of CmdCount (a U8: 256)
    MaxPut,          \* bound: commands put in a behaviour
    MaxClears        \* bound: calls of CrCmdQueueClear in a behaviour

ASSUME RingAssumption == QUEUE_MSG_NUM \in Nat \ {0}
ASSUME QueueAssumption == QUEUE_MAX_MSG \in Nat \ {0}
ASSUME CountAssumption == CountMod \in Nat /\ QUEUE_MSG_NUM < CountMod

VARIABLES
    CmdQueue,        \* the message queue
    CmdBuff,         \* the ring
    CmdBuffHead, CmdBuffTail, CmdCount,
    GcodeHandleStatus,
    exec,            \* where the G-code thread is in Exec
    Buff,            \* its local Buff
    reg,             \* what it loaded of a variable it is about to change
    ret,             \* what CrGcodehandle returned
    prn,             \* where the printer thread is
    put,             \* the number of the last command given to PutGcodeCmd
    last,            \* the number of the last command executed
    clears,          \* how many calls of CrCmdQueueClear were begun
    torn             \* a reset met the G-code thread at work on the ring

ring == <<CmdBuff, CmdBuffHead, CmdBuffTail, CmdCount>>
locals == <<Buff, reg, ret>>
printer == <<prn, put, clears>>
vars == <<CmdQueue, CmdBuff, CmdBuffHead, CmdBuffTail, CmdCount, GcodeHandleStatus,
          exec, Buff, reg, ret, prn, put, last, clears, torn>>

Slots == 0 .. QUEUE_MSG_NUM - 1
Blank == 0

\* Mutant of NextCmdIndex: wraps one late.
NextOneLate(i) == IF i >= QUEUE_MSG_NUM THEN 0 ELSE i + 1
NextCmdIndex(i) == IF i + 1 >= QUEUE_MSG_NUM THEN 0 ELSE i + 1

CrCmdQueueIsEmpty == CmdBuffHead = CmdBuffTail /\ CmdCount = 0

\* Mutant of CrCmdQueueIsFull: one command too many.
FullOneLate == CmdBuffHead = CmdBuffTail /\ CmdCount = QUEUE_MSG_NUM + 1
CrCmdQueueIsFull == CmdBuffHead = CmdBuffTail /\ CmdCount = QUEUE_MSG_NUM

\* GcodeHandleStatus is the one variable the constructor leaves alone.
Init ==
    /\ CmdQueue = << >>
    /\ CmdBuff = [s \in Slots |-> Blank]
    /\ CmdBuffHead = 0 /\ CmdBuffTail = 0 /\ CmdCount = 0
    /\ GcodeHandleStatus \in {"OK", "WAIT", "PROCESS"}
    /\ exec = "recv" /\ Buff = Blank /\ reg = 0 /\ ret = "OK"
    /\ prn = "idle"
    /\ put = 0 /\ last = 0 /\ clears = 0 /\ torn = FALSE

(***************************************************************************)
(* The printer thread: PutGcodeCmd, which retries until CmdQueue has room. *)
(***************************************************************************)
PutCall ==
    /\ prn = "idle"
    /\ put < MaxPut
    /\ put' = put + 1
    /\ prn' = "put"
    /\ UNCHANGED <<CmdQueue, ring, GcodeHandleStatus, exec, locals, last, clears, torn>>

PutSend ==
    /\ prn = "put"
    /\ Len(CmdQueue) < QUEUE_MAX_MSG
    /\ CmdQueue' = Append(CmdQueue, put)
    /\ prn' = "idle"
    /\ UNCHANGED <<ring, GcodeHandleStatus, exec, locals, put, last, clears, torn>>

PutGcodeCmd == PutCall \/ PutSend

(***************************************************************************)
(* The printer thread: CrCmdQueueClear.  Only this thread sends, so the    *)
(* queue found empty once is found empty the ten times that follow.        *)
(***************************************************************************)
ClearCall ==
    /\ prn = "idle"
    /\ clears < MaxClears
    /\ clears' = clears + 1
    /\ prn' = "drain"
    /\ UNCHANGED <<CmdQueue, ring, GcodeHandleStatus, exec, locals, put, last, torn>>

ClearDrain ==
    /\ prn = "drain"
    /\ \/ CmdQueue # << >> /\ CmdQueue' = Tail(CmdQueue) /\ prn' = prn
       \/ CmdQueue = << >> /\ CmdQueue' = CmdQueue /\ prn' = "wait"
    /\ UNCHANGED <<ring, GcodeHandleStatus, exec, locals, put, last, clears, torn>>

ClearWait ==
    /\ prn = "wait"
    /\ GcodeHandleStatus # "PROCESS"
    /\ prn' = "head"
    /\ UNCHANGED <<CmdQueue, ring, GcodeHandleStatus, exec, locals, put, last, clears,
                   torn>>

\* The G-code thread is between two commands and not inside an update.
Quiet == exec \in {"recv", "empty?"}

ClearHead ==
    /\ prn = "head"
    /\ CmdBuffHead' = CmdBuffTail
    /\ torn' = (torn \/ ~Quiet)
    /\ prn' = "count"
    /\ UNCHANGED <<CmdQueue, CmdBuff, CmdBuffTail, CmdCount, GcodeHandleStatus, exec,
                   locals, put, last, clears>>

ClearCount ==
    /\ prn = "count"
    /\ CmdCount' = 0
    /\ prn' = "memset"
    /\ UNCHANGED <<CmdQueue, CmdBuff, CmdBuffHead, CmdBuffTail, GcodeHandleStatus, exec,
                   locals, put, last, clears, torn>>

ClearMemset ==
    /\ prn = "memset"
    /\ CmdBuff' = [s \in Slots |-> Blank]
    /\ prn' = "idle"
    /\ UNCHANGED <<CmdQueue, CmdBuffHead, CmdBuffTail, CmdCount, GcodeHandleStatus, exec,
                   locals, put, last, clears, torn>>

CrCmdQueueClear == ClearCall \/ ClearDrain \/ ClearWait \/ ClearHead \/ ClearCount
                     \/ ClearMemset

(***************************************************************************)
(* The G-code thread: the first loop of Exec moves messages to the ring.   *)
(***************************************************************************)
RecvMsg ==
    /\ exec = "recv"
    /\ ~CrCmdQueueIsFull
    /\ CmdQueue # << >>
    /\ Buff' = Head(CmdQueue)
    /\ CmdQueue' = Tail(CmdQueue)
    /\ exec' = "store"
    /\ UNCHANGED <<ring, GcodeHandleStatus, reg, ret, printer, last, torn>>

RecvDone ==
    /\ exec = "recv"
    /\ CrCmdQueueIsFull \/ CmdQueue = << >>
    /\ exec' = "empty?"
    /\ UNCHANGED <<CmdQueue, ring, GcodeHandleStatus, locals, printer, last, torn>>

StoreCmd ==
    /\ exec = "store"
    /\ CmdBuff' = [CmdBuff EXCEPT ![CmdBuffTail] = Buff]
    /\ exec' = "tail"
    /\ UNCHANGED <<CmdQueue, CmdBuffHead, CmdBuffTail, CmdCount, GcodeHandleStatus,
                   locals, printer, last, torn>>

OffsetTail ==
    /\ exec = "tail"
    /\ CmdBuffTail' = NextCmdIndex(CmdBuffTail)
    /\ exec' = "load+"
    /\ UNCHANGED <<CmdQueue, CmdBuff, CmdBuffHead, CmdCount, GcodeHandleStatus, locals,
                   printer, last, torn>>

LoadCountUp ==
    /\ exec = "load+"
    /\ reg' = CmdCount
    /\ exec' = "store+"
    /\ UNCHANGED <<CmdQueue, ring, GcodeHandleStatus, Buff, ret, printer, last, torn>>

StoreCountUp ==
    /\ exec = "store+"
    /\ CmdCount' = (reg + 1) % CountMod
    /\ exec' = "recv"
    /\ UNCHANGED <<CmdQueue, CmdBuff, CmdBuffHead, CmdBuffTail, GcodeHandleStatus, locals,
                   printer, last, torn>>

(***************************************************************************)
(* The second loop of Exec executes the command at the head.               *)
(***************************************************************************)
EmptyCheck ==
    /\ exec = "empty?"
    /\ exec' = IF CrCmdQueueIsEmpty THEN "recv" ELSE "process"
    /\ torn' = (torn \/ (prn = "count" /\ ~CrCmdQueueIsEmpty))
    /\ UNCHANGED <<CmdQueue, ring, GcodeHandleStatus, locals, printer, last>>

SetProcess ==
    /\ exec = "process"
    /\ GcodeHandleStatus' = "PROCESS"
    /\ exec' = "handle"
    /\ UNCHANGED <<CmdQueue, ring, locals, printer, last, torn>>

\* The handler did its work, or refused the command (a blank one always).
HandleDone ==
    LET cmd == CmdBuff[CmdBuffHead]
    IN  /\ exec = "handle"
        /\ \/ cmd # Blank /\ ret' = "OK" /\ last' = cmd
           \/ ret' = "ERR" /\ last' = IF cmd = Blank THEN last ELSE cmd
        /\ exec' = "wipe"
        /\ UNCHANGED <<CmdQueue, ring, GcodeHandleStatus, Buff, reg, printer, torn>>

\* The line ring is full: the command stays and is tried again by the next Exec.
HandleWait ==
    /\ exec = "handle"
    /\ CmdBuff[CmdBuffHead] # Blank
    /\ GcodeHandleStatus' = "WAIT"
    /\ exec' = "recv"
    /\ UNCHANGED <<CmdQueue, ring, locals, printer, last, torn>>

WipeSlot ==
    /\ exec = "wipe"
    /\ CmdBuff' = [CmdBuff EXCEPT ![CmdBuffHead] = Blank]
    /\ exec' = "headload"
    /\ UNCHANGED <<CmdQueue, CmdBuffHead, CmdBuffTail, CmdCount, GcodeHandleStatus,
                   locals, printer, last, torn>>

LoadHead ==
    /\ exec = "headload"
    /\ reg' = CmdBuffHead
    /\ exec' = "headstore"
    /\ UNCHANGED <<CmdQueue, ring, GcodeHandleStatus, Buff, ret, printer, last, torn>>

\* Mutant of HeadAfter: a refused command stays at the head.
HeadAfterErr == IF ret = "ERR" THEN reg ELSE NextCmdIndex(reg)
HeadAfter == NextCmdIndex(reg)

StoreHead ==
    /\ exec = "headstore"
    /\ CmdBuffHead' = HeadAfter
    /\ exec' = "count?"
    /\ UNCHANGED <<CmdQueue, CmdBuff, CmdBuffTail, CmdCount, GcodeHandleStatus, locals,
                   printer, last, torn>>

\* A reset between the test and the load makes the count wrap.
TestCount ==
    /\ exec = "count?"
    /\ exec' = IF CmdCount > 0 THEN "load-" ELSE "status"
    /\ UNCHANGED <<CmdQueue, ring, GcodeHandleStatus, locals, printer, last, torn>>

LoadCountDown ==
    /\ exec = "load-"
    /\ reg' = CmdCount
    /\ exec' = "store-"
    /\ UNCHANGED <<CmdQueue, ring, GcodeHandleStatus, Buff, ret, printer, last, torn>>

StoreCountDown ==
    /\ exec = "store-"
    /\ CmdCount' = (reg - 1) % CountMod
    /\ exec' = "status"
    /\ UNCHANGED <<CmdQueue, CmdBuff, CmdBuffHead, CmdBuffTail, GcodeHandleStatus, locals,
                   printer, last, torn>>

\* Mutant of StatusAfter: not set on the path of a refused command.
StatusAfterErr == IF ret = "ERR" THEN GcodeHandleStatus ELSE "OK"
StatusAfter == "OK"

SetOk ==
    /\ exec = "status"
    /\ GcodeHandleStatus' = StatusAfter
    /\ exec' = IF ret = "OK" THEN "empty?" ELSE "recv"
    /\ UNCHANGED <<CmdQueue, ring, locals, printer, last, torn>>

Exec == \/ RecvMsg \/ RecvDone \/ StoreCmd \/ OffsetTail \/ LoadCountUp \/ StoreCountUp
        \/ EmptyCheck \/ SetProcess \/ HandleDone \/ HandleWait \/ WipeSlot \/ LoadHead
        \/ StoreHead \/ TestCount \/ LoadCountDown \/ StoreCountDown \/ SetOk

Next == PutGcodeCmd \/ CrCmdQueueClear \/ Exec

Spec == Init /\ [][Next]_vars

\* Both threads are scheduled, and a command that waits for a slot of the line
\* ring gets one (Bresenham shows that the motion drains).
FairSpec == Spec /\ WF_vars(PutSend) /\ WF_vars(CrCmdQueueClear) /\ WF_vars(Exec)
                 /\ SF_vars(HandleDone)

-----------------------------------------------------------------------------
\* Every variable has its type: head and tail stay inside the ring whatever a
\* reset met, and the message queue inside its length.
TypeOK ==
    /\ CmdQueue \in Seq(1 .. put) /\ Len(CmdQueue) <= QUEUE_MAX_MSG
    /\ CmdBuff \in [Slots -> 0 .. put]
    /\ CmdBuffHead \in Slots /\ CmdBuffTail \in Slots
    /\ CmdCount \in 0 .. CountMod - 1
    /\ GcodeHandleStatus \in {"OK", "WAIT", "PROCESS"}
    /\ exec \in {"recv", "store", "tail", "load+", "store+", "empty?", "process",
                 "handle", "wipe", "headload", "headstore", "count?", "load-", "store-",
                 "status"}
    /\ Buff \in 0 .. put /\ reg \in Nat /\ ret \in {"OK", "ERR"}
    /\ prn \in {"idle", "put", "drain", "wait", "head", "count", "memset"}
    /\ put \in Nat /\ last \in 0 .. put /\ clears \in Nat /\ torn \in BOOLEAN

\* The commands the ring accounts for: CmdCount, corrected by the command that
\* was stored and is not counted yet or executed and is not discounted yet.
Stored == exec \in {"load+", "store+"}
Executed == exec \in {"wipe", "headload", "headstore", "count?", "load-", "store-"}
Held == CmdCount + (IF Stored THEN 1 ELSE 0) - (IF Executed THEN 1 ELSE 0)
First == IF exec \in {"wipe", "headload", "headstore"} THEN NextCmdIndex(CmdBuffHead)
                                                       ELSE CmdBuffHead
SlotAt(k) == IF First + k - 1 >= QUEUE_MSG_NUM THEN First + k - 1 - QUEUE_MSG_NUM
                                               ELSE First + k - 1

\* Everything put and not executed, oldest first: the ring, the command on its
\* way into it, the queue, and the command being put.
Pending == [k \in 1 .. Held |-> CmdBuff[SlotAt(k)]]
             \o (IF exec \in {"store", "tail"} THEN <<Buff>> ELSE << >>)
             \o CmdQueue
             \o (IF prn = "put" THEN <<put>> ELSE << >>)

\* Commands are executed in the order in which they were put, none twice, and
\* none is lost unless a CrCmdQueueClear was called, although head, tail, count
\* and slots are updated one after the other; also after a clear, provided that
\* its reset found the G-code thread between two commands.
InOrder ==
    ~torn /\ prn # "count" =>
      /\ Held \in 0 .. QUEUE_MSG_NUM
      /\ \A k \in 1 .. Len(Pending) : Pending[k] > last
      /\ \A j, k \in 1 .. Len(Pending) : j < k => Pending[j] < Pending[k]
      /\ clears = 0 => last + Len(Pending) = put

\* A PutGcodeCmd that finds CmdQueue full gets through, and a CrCmdQueueClear
\* ends: the G-code thread never leaves GcodeHandleStatus at PROCESS.  A clear
\* before the first command waits for a variable nobody has set yet, so it is
\* left out.
CallsReturn ==
    (prn = "put" \/ (prn # "idle" /\ last > 0)) ~> (prn = "idle")

\* Whatever a reset in the middle of an update left in head, tail and count,
\* Exec works the ring empty and consistent again once nothing more is put.
Recovers == <>[](CmdQueue = << >> /\ CrCmdQueueIsEmpty /\ Quiet)
=============================================================================
