--------------------------- MODULE PrinterProofs ---------------------------
(***************************************************************************)
(* Proofs about Printer, for every file, every length of the two queues    *)
(* and any number of requests, serial commands and faults.                 *)
(***************************************************************************)
EXTENDS Printer, TLAPS

-----------------------------------------------------------------------------
(***************************************************************************)
(* The invariants below are about Line: handing a command on does not      *)
(* change it, reading one appends it, executing one takes it off the front.*)
(***************************************************************************)
\* A step of the G-code thread.
Steps == Exec \/ HeatReached

\* What the G-code thread is doing is what the command at the head asks for.
HeadShape ==
    /\ gcode \in {"startwaiting", "waiting"} => Head(CmdBuff).c \in {"heat", "bed"}
    /\ gcode = "pausing" => Head(CmdBuff).c = "M25"
    /\ gcode \in {"recover", "resuming"} => Head(CmdBuff).c = "M24"
    /\ gcode = "stopping" => Head(CmdBuff).c = "M524" /\ ~parked

\* The printer thread in CrCmdQueueClear and after it.
ClearShape ==
    /\ prn = "clear" => CmdQueue = << >>
    /\ prn = "stop" => ~NeedClearCmdQueue

Shape == TypeOK /\ HeadShape /\ ClearShape

(***************************************************************************)
(* Order.  b may be executed, or read, next after a.                       *)
(***************************************************************************)
Follows(a, b) ==
    \A k \in 1 .. Len(File) : k < b /\ (a < b => a < k) => File[k] = "M108"

FromFile(s, i) == s[i].by = "file"

\* Command i is the first, the last of the file in s; i and j are neighbours.
FirstOfFile(s, i) == FromFile(s, i) /\ \A m \in 1 .. i - 1 : ~FromFile(s, m)
LastOfFile(s, i) == FromFile(s, i) /\ \A m \in i + 1 .. Len(s) : ~FromFile(s, m)
Neighbours(s, i, j) == /\ i < j /\ FromFile(s, i) /\ FromFile(s, j)
                       /\ \A m \in i + 1 .. j - 1 : ~FromFile(s, m)

InFileOrder(s) ==
    \A i, j \in 1 .. Len(s) : Neighbours(s, i, j) => Follows(s[i].n, s[j].n)
BeginsAfter(s, a) ==
    \A i \in 1 .. Len(s) : FirstOfFile(s, i) => Follows(a, s[i].n)
EndsBefore(s, b) ==
    \A i \in 1 .. Len(s) : LastOfFile(s, i) => Follows(s[i].n, b)
NoneOfFile(s) == \A i \in 1 .. Len(s) : ~FromFile(s, i)

OrderInv ==
    /\ Shape
    /\ InFileOrder(Line)
    /\ ~cleared => BeginsAfter(Line, last)
    /\ prn # "clear" => EndsBefore(Line, FilePos + 1)
    /\ prn # "clear" /\ ~cleared /\ NoneOfFile(Line) => Follows(last, FilePos + 1)

(***************************************************************************)
(* Pause.  Head parked once the first i - 1 commands of s are executed, if *)
(* it is p now.                                                            *)
(***************************************************************************)
Unparks(e) == e.c \in {"M24", "M524"}
ParkedBefore(s, p, i) ==
    \/ p /\ \A m \in 1 .. i - 1 : ~Unparks(s[m])
    \/ \E j \in 1 .. i - 1 : s[j].c = "M25" /\ \A m \in j + 1 .. i - 1 : ~Unparks(s[m])

EndsParked == ParkedBefore(Line, parked, Len(Line) + 1)
NoM25 == \A i \in 1 .. Len(Line) : Line[i].c # "M25"

\* Not parked, or about not to be, with no M25 on its way.
Clean == NoM25 /\ (parked => Resuming)

\* No M24 is on its way that has not set the status yet.
NoM24 == \A i \in 1 .. Len(Line) : ~Unhandled(i)
LastM24 == \A i, j \in 1 .. Len(Line) :
             Unhandled(i) /\ i < j => Line[j].c \notin {"M24", "M25"}

Passing == prn \in {"send", "sent"} /\ cmd.by = "user"

\* The head is not parked when a command of the file is executed, and not when
\* the next one is read.
FilesStill == \A i \in 1 .. Len(Line) :
                FromFile(Line, i) => Line[i].c # "M25" /\ ~ParkedBefore(Line, parked, i)
PrintStill == Status = "PRINTING" \/ prn = "ended" => Clean
StopStill == Status = "STOP" /\ (~ManualPrintAction \/ Passing) =>
               /\ ~EndsParked
               /\ NeedClearCmdQueue \/ prn \in {"drain", "clear"} => Clean

\* At most one M24 is on its way, and none that would end a pause it is not for.
ResumeOnce == /\ Status \in {"PRINTING", "PAUSE"} => NoM24
              /\ Status = "RESUME" /\ ManualPrintAction /\ ~Passing => NoM24
              /\ LastM24

StillInv == FilesStill /\ PrintStill /\ StopStill /\ ResumeOnce
PauseInv == Shape /\ (~hasty => StillInv)

(***************************************************************************)
(* Stop.  The heaters are off and stay so, or there is an M524 on its way  *)
(* that nothing follows which would turn them on.                          *)
(***************************************************************************)
Heats(e) == e.c \in {"heat", "bed", "M24"}
Cold(s, t) ==
    \/ t = AllOff /\ \A i \in 1 .. Len(s) : ~Heats(s[i])
    \/ \E i \in 1 .. Len(s) : s[i].c = "M524" /\ \A j \in i + 1 .. Len(s) : ~Heats(s[j])

ColdInv ==
    /\ Shape
    /\ stopped /\ Status = "STOP" /\ (~ManualPrintAction \/ Passing) =>
         Cold(Line, target) /\ ~NeedClearCmdQueue /\ prn \notin {"drain", "clear"}

-----------------------------------------------------------------------------
LEMMA TailFacts ==
    ASSUME NEW S, NEW q \in Seq(S), q # << >>
    PROVE  /\ Head(q) \in S /\ Head(q) = q[1] /\ Len(q) > 0
           /\ Tail(q) \in Seq(S) /\ Len(Tail(q)) = Len(q) - 1
           /\ \A i \in 1 .. Len(Tail(q)) : Tail(q)[i] = q[i + 1]
OBVIOUS

LEMMA AppendFacts ==
    ASSUME NEW S, NEW q \in Seq(S), NEW e \in S
    PROVE  /\ Append(q, e) \in Seq(S) /\ Len(Append(q, e)) = Len(q) + 1
           /\ Append(q, e) # << >>
           /\ \A i \in 1 .. Len(q) : Append(q, e)[i] = q[i]
           /\ Append(q, e)[Len(q) + 1] = e
<1>1. Append(q, e) \in Seq(S) /\ Len(Append(q, e)) = Len(q) + 1 /\ Len(q) \in Nat
  OBVIOUS
<1>2. Append(q, e) # << >>
  BY <1>1
<1> QED
  BY <1>1, <1>2

LEMMA CmdTypes ==
    /\ NoCmd \in Cmds
    /\ \A n \in 1 .. Len(File) : File[n] # "M108" =>
         Cmd(File[n], "file", n) \in Cmds /\ Cmd(File[n], "file", n) # NoCmd
    /\ \A c \in {"M25", "M24", "M524"} :
         Cmd(c, "user", 0) \in Cmds /\ Cmd(c, "user", 0) # NoCmd
    /\ \A c \in UartCmds : Cmd(c, "uart", 0) \in Cmds /\ Cmd(c, "uart", 0) # NoCmd
<1> USE DEF Cmds, Cmd, NoCmd
<1>1. Len(File) \in Nat
  BY FileAssumption
<1>2. NoCmd \in Cmds
  BY <1>1
<1>3. ASSUME NEW n \in 1 .. Len(File), File[n] # "M108"
      PROVE  Cmd(File[n], "file", n) \in Cmds /\ Cmd(File[n], "file", n) # NoCmd
  <2>1. File[n] \in {"move", "heat", "bed"}
    BY <1>3, FileAssumption
  <2>2. n \in 0 .. Len(File)
    BY <1>1
  <2> QED
    BY <2>1, <2>2
<1>4. ASSUME NEW c \in {"M25", "M24", "M524"}
      PROVE  Cmd(c, "user", 0) \in Cmds /\ Cmd(c, "user", 0) # NoCmd
  BY <1>1
<1>5. ASSUME NEW c \in UartCmds
      PROVE  Cmd(c, "uart", 0) \in Cmds /\ Cmd(c, "uart", 0) # NoCmd
  BY <1>1
<1> QED
  BY <1>2, <1>3, <1>4, <1>5

LEMMA ShapeInit == Init => Shape
<1> SUFFICES ASSUME Init PROVE Shape
  OBVIOUS
<1>1. /\ ManualPrintAction \in BOOLEAN /\ NeedClearCmdQueue \in BOOLEAN
      /\ KeepActive \in BOOLEAN /\ longIdle \in BOOLEAN /\ Waiting \in BOOLEAN
      /\ parked \in BOOLEAN /\ cleared \in BOOLEAN /\ stopped \in BOOLEAN
      /\ hasty \in BOOLEAN
  BY DEF Init
<1>2. target \in [Heaters -> BOOLEAN] /\ saved \in [Heaters -> BOOLEAN]
  BY DEF Init, AllOff
<1>3. /\ CmdQueue \in Seq(Cmds) /\ Len(CmdQueue) <= QUEUE_MAX_MSG
      /\ CmdBuff \in Seq(Cmds) /\ Len(CmdBuff) <= QUEUE_MSG_NUM
      /\ FilePos \in 0 .. Len(File) /\ last \in 0 .. Len(File)
  BY QueueAssumption, FileAssumption DEF Init
<1>4. cmd \in Cmds /\ (cmd = NoCmd <=> prn \notin {"send", "sent"})
  BY CmdTypes DEF Init
<1> QED
  BY <1>1, <1>2, <1>3, <1>4 DEF Init, Shape, TypeOK, HeadShape, ClearShape

LEMMA MainShape == ASSUME Shape, PrintCmdMsgHandle PROVE Shape'
<1> USE DEF Shape, TypeOK, HeadShape, ClearShape, queues, heat, userVars
<1>1. CASE RequestStart
  <2>1. hasty' \in BOOLEAN
    BY <1>1, Zenon DEF RequestStart, PassedOn
  <2>2. /\ Status' = "PRINTING" /\ Waiting' = FALSE /\ requests' = requests + 1
        /\ UNCHANGED <<ManualPrintAction, FilePos, NeedClearCmdQueue, KeepActive, prn, cmd,
                       longIdle, queues, gcode, heat, parked, last, cleared, stopped, uarts>>
    BY <1>1 DEF RequestStart, StopWaiting
  <2>3. Waiting' \in BOOLEAN
    BY <2>2
  <2> QED
    BY <2>1, <2>2, <2>3
<1>2. ASSUME NEW a \in {"PAUSE", "RESUME", "STOP"}, Request(a) PROVE Shape'
  <2>1. stopped' \in BOOLEAN /\ Waiting' \in BOOLEAN /\ ManualPrintAction' \in BOOLEAN
    BY <1>2 DEF Request, StopWaiting
  <2>3. hasty' \in BOOLEAN
    BY <1>2, Zenon DEF Request, ResumeAhead
  <2>2. /\ Status' \in {"PAUSE", "RESUME", "STOP"} /\ requests' = requests + 1
        /\ UNCHANGED <<FilePos, NeedClearCmdQueue, KeepActive, prn, cmd, longIdle, queues,
                       gcode, heat, parked, last, cleared, uarts>>
    BY <1>2 DEF Request
  <2> QED
    BY <2>1, <2>2, <2>3
<1> QED
  BY <1>1, <1>2 DEF PrintCmdMsgHandle

LEMMA PassOnShape ==
    ASSUME Shape, NEW c \in {"M25", "M24", "M524"}, PassOn(c), prn \in {"top", "stop"}
    PROVE  Shape'
<1>1. cmd' \in Cmds /\ (cmd' = NoCmd <=> prn' \notin {"send", "sent"})
  BY CmdTypes DEF PassOn, Shape, TypeOK
<1>2. prn' \in {"send", "active"}
  BY DEF PassOn
<1> QED
  BY <1>1, <1>2 DEF PassOn, Shape, TypeOK, HeadShape, ClearShape, queues, heat, userVars

LEMMA ThreadShape == ASSUME Shape, ThreadHandle PROVE Shape'
<1> USE DEF Shape, TypeOK, HeadShape, ClearShape, queues, heat, userVars
<1>1. CASE ReadCmd
  <2>1. FilePos' \in 0 .. Len(File) /\ FilePos' = FilePos + 1 /\ FilePos' \in 1 .. Len(File)
    BY <1>1, FileAssumption DEF ReadCmd
  <2>2. cmd' \in Cmds /\ (cmd' = NoCmd <=> prn' \notin {"send", "sent"})
    BY <1>1, <2>1, CmdTypes DEF ReadCmd
  <2>3. prn' \in {"active", "send"} /\ Waiting' \in BOOLEAN
    BY <1>1 DEF ReadCmd
  <2>4. NeedClearCmdQueue' \in BOOLEAN
    BY <1>1 DEF ReadCmd
  <2> QED
    BY <1>1, <2>1, <2>2, <2>3, <2>4 DEF ReadCmd
<1>2. CASE ReadEnd
  <2>1. NeedClearCmdQueue' \in BOOLEAN /\ target' \in [Heaters -> BOOLEAN]
    BY <1>2 DEF ReadEnd, AfterStopPrint, AllOff
  <2>2. FilePos' \in 0 .. Len(File)
    BY <1>2, FileAssumption DEF ReadEnd
  <2> QED
    BY <1>2, <2>1, <2>2 DEF ReadEnd
<1>3. CASE ReadError
  <2>1. NeedClearCmdQueue' \in BOOLEAN
    BY <1>3 DEF ReadError
  <2>2. FilePos' \in 0 .. Len(File)
    BY <1>3, FileAssumption DEF ReadError
  <2> QED
    BY <1>3, <2>1, <2>2 DEF ReadError
<1>4. CASE SetStopped
  <2>1. stopped' \in BOOLEAN
    BY <1>4 DEF SetStopped
  <2> QED
    BY <1>4, <2>1 DEF SetStopped, StatusAtEnd
<1>5. CASE Send
  <2>1. CmdQueue' \in Seq(Cmds) /\ Len(CmdQueue') <= QUEUE_MAX_MSG
    BY <1>5, AppendFacts, QueueAssumption DEF Send, SendMsg
  <2> QED
    BY <1>5, <2>1 DEF Send
<1>6. CASE Sent
  <2>1. ManualPrintAction' \in BOOLEAN /\ longIdle' \in BOOLEAN /\ KeepActive' \in BOOLEAN
    BY <1>6, Zenon DEF Sent, Activates
  <2>2. cmd' \in Cmds /\ cmd' = NoCmd /\ prn' \in {"top", "active"}
    BY <1>6, CmdTypes DEF Sent
  <2> QED
    BY <1>6, <2>1, <2>2 DEF Sent
<1>7. CASE PauseBranch
  BY <1>7, PassOnShape DEF PauseBranch
<1>8. CASE ResumeBranch
  BY <1>8, PassOnShape DEF ResumeBranch
<1>9. CASE StopPassOn
  BY <1>9, PassOnShape DEF StopPassOn
<1>10. CASE StopBranch
  BY <1>10 DEF StopBranch
<1>11. CASE DrainQueue
  BY <1>11, QueueAssumption DEF DrainQueue
<1>12. CASE ClearRing
  <2>1. cleared' \in BOOLEAN /\ NeedClearCmdQueue' \in BOOLEAN
    BY <1>12 DEF ClearRing
  <2> QED
    BY <1>12, <2>1, QueueAssumption DEF ClearRing
<1>13. CASE KeepActiveCheck
  <2>1. target' \in [Heaters -> BOOLEAN] /\ prn' \in {"release", "uart"}
    BY <1>13 DEF KeepActiveCheck, Heaters
  <2> QED
    BY <1>13, <2>1 DEF KeepActiveCheck
<1>16. CASE KeepActiveRelease
  <2>1. target' \in [Heaters -> BOOLEAN] /\ KeepActive' \in BOOLEAN /\ parked' \in BOOLEAN
    BY <1>16 DEF KeepActiveRelease, Heaters
  <2> QED
    BY <1>16, <2>1 DEF KeepActiveRelease
<1>14. CASE UartNothing
  BY <1>14 DEF UartNothing
<1>15. ASSUME NEW c \in UartCmds, UartCmd(c) PROVE Shape'
  <2>1. cmd' \in Cmds /\ cmd' # NoCmd
    BY <1>15, CmdTypes DEF UartCmd
  <2>2. stopped' \in BOOLEAN
    BY <1>15 DEF UartCmd
  <2> QED
    BY <1>15, <2>1, <2>2 DEF UartCmd
<1> QED
  BY <1>1, <1>2, <1>3, <1>4, <1>5, <1>6, <1>7, <1>8, <1>9, <1>10, <1>11, <1>12, <1>13,
     <1>14, <1>15, <1>16 DEF ThreadHandle

\* What every action that ends a command does to the ring and to last.
LEMMA DoneShape ==
    ASSUME Shape, Done, CmdBuff # << >>
    PROVE  /\ CmdBuff' \in Seq(Cmds) /\ Len(CmdBuff') <= QUEUE_MSG_NUM
           /\ gcode' = "idle"
           /\ last' \in 0 .. Len(File) /\ cleared' \in BOOLEAN
<1> USE DEF Shape, TypeOK
<1>1. Head(CmdBuff) \in Cmds /\ Tail(CmdBuff) \in Seq(Cmds)
      /\ Len(Tail(CmdBuff)) = Len(CmdBuff) - 1
  BY TailFacts
<1>2. Len(CmdBuff) \in Nat
  OBVIOUS
<1>3. Head(CmdBuff).n \in 0 .. Len(File)
  BY <1>1 DEF Cmds
<1>4. last' \in 0 .. Len(File) /\ cleared' \in BOOLEAN
  BY <1>3 DEF Done
<1> QED
  BY <1>1, <1>2, <1>4, QueueAssumption DEF Done

LEMMA ExecShape == ASSUME Shape, Steps PROVE Shape'
<1> USE DEF Shape, TypeOK, HeadShape, ClearShape, heat, userVars, PrinterUnchanged
<1>1. CASE RecvMsg
  <2>1. /\ CmdBuff' \in Seq(Cmds) /\ Len(CmdBuff') <= QUEUE_MSG_NUM
        /\ CmdQueue' \in Seq(Cmds) /\ Len(CmdQueue') <= QUEUE_MAX_MSG
    BY <1>1, TailFacts, AppendFacts, QueueAssumption DEF RecvMsg
  <2> QED
    BY <1>1, <2>1 DEF RecvMsg
<1>2. CASE Move
  BY <1>2, DoneShape DEF Move, Begins
<1>3. CASE StartWaiting
  <2>1. Waiting' \in BOOLEAN
    BY <1>3 DEF StartWaiting
  <2> QED
    BY <1>3, <2>1 DEF StartWaiting
<1>4. CASE HeatReached
  <2>1. Waiting' \in BOOLEAN
    BY <1>4 DEF HeatReached
  <2> QED
    BY <1>4, <2>1, DoneShape DEF HeatReached
<1>5. CASE HeatBroken
  <2>1. Waiting' \in BOOLEAN
    BY <1>5 DEF HeatBroken
  <2> QED
    BY <1>5, <2>1, DoneShape DEF HeatBroken
<1>6. ASSUME NEW c \in {"heat", "bed"}, HeatSet(c) PROVE Shape'
  <2>1. target' \in [Heaters -> BOOLEAN]
    BY <1>6 DEF HeatSet, Heater, Heaters
  <2> QED
    BY <1>6, <2>1 DEF HeatSet, Begins
<1>7. CASE M25Motion
  <2>1. parked' \in BOOLEAN
    BY <1>7 DEF M25Motion
  <2> QED
    BY <1>7, <2>1 DEF M25Motion, Begins
<1>8. CASE M25PauseHandle
  <2>1. target' \in [Heaters -> BOOLEAN] /\ saved' \in [Heaters -> BOOLEAN]
    BY <1>8 DEF M25PauseHandle, AllOff
  <2> QED
    BY <1>8, <2>1, DoneShape DEF M25PauseHandle
<1>9. CASE M24ResumeHandle
  BY <1>9 DEF M24ResumeHandle, Begins
<1>10. CASE M24Recover
  <2>1. target' \in [Heaters -> BOOLEAN]
    BY <1>10 DEF M24Recover, Heaters
  <2>2. Waiting' \in BOOLEAN
    BY <1>10 DEF M24Recover
  <2> QED
    BY <1>10, <2>1, <2>2 DEF M24Recover
<1>11. CASE M24Motion
  <2>1. parked' \in BOOLEAN
    BY <1>11 DEF M24Motion
  <2> QED
    BY <1>11, <2>1, DoneShape DEF M24Motion
<1>12. CASE M524Motion
  <2>1. parked' \in BOOLEAN
    BY <1>12 DEF M524Motion
  <2> QED
    BY <1>12, <2>1 DEF M524Motion, Begins
<1>13. CASE M524StopHandle
  <2>1. target' \in [Heaters -> BOOLEAN]
    BY <1>13 DEF M524StopHandle, AfterStopPrint, AllOff
  <2> QED
    BY <1>13, <2>1, DoneShape DEF M524StopHandle
<1> QED
  BY <1>1, <1>2, <1>3, <1>4, <1>5, <1>6, <1>7, <1>8, <1>9, <1>10, <1>11, <1>12, <1>13
     DEF Steps, Exec

LEMMA ShapeNext == ASSUME Shape, [Next]_vars PROVE Shape'
<1>1. CASE TenMinutes
  <2>1. longIdle' \in BOOLEAN
    BY <1>1 DEF TenMinutes
  <2> QED
    BY <1>1, <2>1 DEF TenMinutes, Shape, TypeOK, HeadShape, ClearShape, queues, heat, userVars
<1>2. CASE UNCHANGED vars
  BY <1>2 DEF vars, Shape, TypeOK, HeadShape, ClearShape
<1> QED
  BY <1>1, <1>2, MainShape, ThreadShape, ExecShape DEF Next, Steps

\* Every variable has its type, for every file and every length of the queues.
THEOREM TypeCorrect == Spec => []TypeOK
<1>1. Shape => TypeOK
  BY DEF Shape
<1> QED
  BY <1>1, ShapeInit, ShapeNext, PTL DEF Spec

-----------------------------------------------------------------------------
(***************************************************************************)
(* What the steps do to Line.                                              *)
(***************************************************************************)
LEMMA JoinFacts ==
    ASSUME NEW S, NEW a \in Seq(S), NEW b \in Seq(S), NEW c \in Seq(S)
    PROVE  /\ a \o b \o c \in Seq(S)
           /\ Len(a \o b \o c) = Len(a) + Len(b) + Len(c)
           /\ \A i \in 1 .. Len(a) + Len(b) + Len(c) :
                (a \o b \o c)[i] = IF i <= Len(a) THEN a[i]
                                   ELSE IF i <= Len(a) + Len(b) THEN b[i - Len(a)]
                                   ELSE c[i - Len(a) - Len(b)]
OBVIOUS

\* Two sequences are equal when they have the same elements.
LEMMA SameSeq ==
    ASSUME NEW S, NEW s \in Seq(S), NEW t \in Seq(S), Len(s) = Len(t),
           \A i \in 1 .. Len(s) : s[i] = t[i]
    PROVE  s = t
OBVIOUS

LEMMA JoinHanded ==
    ASSUME NEW S, NEW a \in Seq(S), NEW b \in Seq(S), NEW c \in Seq(S), b # << >>
    PROVE  Append(a, Head(b)) \o Tail(b) \o c = a \o b \o c
<1>1. /\ Append(a, Head(b)) \in Seq(S) /\ Tail(b) \in Seq(S) /\ Head(b) = b[1]
      /\ Len(Tail(b)) = Len(b) - 1 /\ \A i \in 1 .. Len(Tail(b)) : Tail(b)[i] = b[i + 1]
      /\ Len(Append(a, Head(b))) = Len(a) + 1 /\ Len(b) > 0
      /\ \A i \in 1 .. Len(a) : Append(a, Head(b))[i] = a[i]
      /\ Append(a, Head(b))[Len(a) + 1] = b[1]
  BY TailFacts, AppendFacts
<1> DEFINE p == Append(a, Head(b))
           q == Tail(b)
<1>2. p \o q \o c \in Seq(S) /\ a \o b \o c \in Seq(S) /\ Len(p \o q \o c) = Len(a \o b \o c)
  BY <1>1, JoinFacts
<1>3. ASSUME NEW i \in 1 .. Len(a) + Len(b) + Len(c)
      PROVE  (p \o q \o c)[i] = (a \o b \o c)[i]
  <2> Len(a) \in Nat /\ Len(b) \in Nat /\ Len(c) \in Nat
    OBVIOUS
  <2>1. (a \o b \o c)[i] = IF i <= Len(a) THEN a[i]
                           ELSE IF i <= Len(a) + Len(b) THEN b[i - Len(a)]
                           ELSE c[i - Len(a) - Len(b)]
    BY JoinFacts
  <2>2. (p \o q \o c)[i] = IF i <= Len(p) THEN p[i]
                           ELSE IF i <= Len(p) + Len(q) THEN q[i - Len(p)]
                           ELSE c[i - Len(p) - Len(q)]
    BY <1>1, JoinFacts, SMTT(30)
  <2> HIDE DEF p, q
  <2>3. Len(p) = Len(a) + 1 /\ Len(q) = Len(b) - 1
    BY <1>1 DEF p, q
  <2>4. CASE i <= Len(a)
    BY <1>1, <2>1, <2>2, <2>3, <2>4 DEF p
  <2>5. CASE i = Len(a) + 1
    BY <1>1, <2>1, <2>2, <2>3, <2>5 DEF p
  <2>6. CASE i > Len(a) + 1 /\ i <= Len(a) + Len(b)
    <3>1. i - Len(p) \in 1 .. Len(q) /\ i - Len(p) + 1 = i - Len(a)
      BY <2>3, <2>6
    <3>2. q[i - Len(p)] = b[i - Len(a)]
      BY <3>1, <1>1 DEF q
    <3> QED
      BY <2>1, <2>2, <2>3, <2>6, <3>2
  <2>7. CASE i > Len(a) + Len(b)
    BY <1>1, <2>1, <2>2, <2>3, <2>7
  <2>8. \/ i <= Len(a) \/ i = Len(a) + 1 \/ i > Len(a) + Len(b)
        \/ i > Len(a) + 1 /\ i <= Len(a) + Len(b)
    OBVIOUS
  <2> QED
    BY <2>4, <2>5, <2>6, <2>7, <2>8
<1>4. Len(a \o b \o c) = Len(a) + Len(b) + Len(c)
  BY JoinFacts
<1> QED
  BY <1>2, <1>3, <1>4, SameSeq

LEMMA JoinTail ==
    ASSUME NEW S, NEW a \in Seq(S), NEW b \in Seq(S), NEW c \in Seq(S), a # << >>
    PROVE  /\ Tail(a) \o b \o c = Tail(a \o b \o c)
           /\ a \o b \o c # << >> /\ (a \o b \o c)[1] = Head(a)
<1>1. /\ Tail(a) \in Seq(S) /\ Head(a) = a[1] /\ Len(a) > 0
      /\ Len(Tail(a)) = Len(a) - 1 /\ \A i \in 1 .. Len(Tail(a)) : Tail(a)[i] = a[i + 1]
  BY TailFacts
<1> DEFINE s == a \o b \o c
<1>2. s \in Seq(S) /\ Len(s) > 0 /\ s # << >> /\ s[1] = Head(a)
  BY <1>1, JoinFacts
<1>3. /\ Tail(s) \in Seq(S) /\ Len(Tail(s)) = Len(s) - 1
      /\ \A i \in 1 .. Len(Tail(s)) : Tail(s)[i] = s[i + 1]
  BY <1>2, TailFacts
<1>4. /\ Tail(a) \o b \o c \in Seq(S) /\ Len(Tail(a) \o b \o c) = Len(Tail(s))
      /\ Len(Tail(s)) = Len(a) + Len(b) + Len(c) - 1
  BY <1>1, <1>3, JoinFacts
<1>5. ASSUME NEW i \in 1 .. Len(a) + Len(b) + Len(c) - 1
      PROVE  (Tail(a) \o b \o c)[i] = Tail(s)[i]
  <2> Len(a) \in Nat /\ Len(b) \in Nat /\ Len(c) \in Nat
    OBVIOUS
  <2>1. s[i + 1] = IF i + 1 <= Len(a) THEN a[i + 1]
                   ELSE IF i + 1 <= Len(a) + Len(b) THEN b[i + 1 - Len(a)]
                   ELSE c[i + 1 - Len(a) - Len(b)]
    BY JoinFacts
  <2>2. (Tail(a) \o b \o c)[i] = IF i <= Len(a) - 1 THEN Tail(a)[i]
                                 ELSE IF i <= Len(a) - 1 + Len(b) THEN b[i - (Len(a) - 1)]
                                 ELSE c[i - (Len(a) - 1) - Len(b)]
    BY <1>1, JoinFacts
  <2>3. Tail(s)[i] = s[i + 1]
    BY <1>3, <1>4
  <2>4. i + 1 - Len(a) = i - (Len(a) - 1)
    OBVIOUS
  <2>5. i <= Len(a) - 1 => Tail(a)[i] = a[i + 1]
    BY <1>1
  <2> DEFINE w == Tail(a) \o b \o c
             u == Tail(a)
  <2>6. w[i] = IF i <= Len(a) - 1 THEN u[i]
               ELSE IF i <= Len(a) - 1 + Len(b) THEN b[i - (Len(a) - 1)]
               ELSE c[i - (Len(a) - 1) - Len(b)]
    BY <2>2
  <2>7. i <= Len(a) - 1 => u[i] = a[i + 1]
    BY <2>5
  <2>8. w[i] = s[i + 1]
    <3> HIDE DEF s, w, u
    <3> QED
      BY <2>1, <2>4, <2>6, <2>7
  <2> QED
    BY <2>3, <2>8, Zenon
<1>6. Tail(a) \o b \o c = Tail(s)
  BY <1>3, <1>4, <1>5, SameSeq
<1> QED
  BY <1>2, <1>6

LEMMA JoinAppended ==
    ASSUME NEW S, NEW a \in Seq(S), NEW b \in Seq(S), NEW e \in S
    PROVE  /\ a \o b \o <<e>> = Append(a \o b \o << >>, e)
           /\ a \o Append(b, e) \o << >> = a \o b \o <<e>>
<1>1. <<e>> \in Seq(S) /\ Len(<<e>>) = 1 /\ <<e>>[1] = e
  OBVIOUS
<1>2. << >> \in Seq(S) /\ Len(<< >>) = 0
  OBVIOUS
<1>3. /\ Append(b, e) \in Seq(S) /\ Len(Append(b, e)) = Len(b) + 1
      /\ \A i \in 1 .. Len(b) : Append(b, e)[i] = b[i]
      /\ Append(b, e)[Len(b) + 1] = e
  BY AppendFacts
<1> DEFINE s == a \o b \o << >>
<1>4. s \in Seq(S) /\ Len(s) = Len(a) + Len(b)
  BY <1>2, JoinFacts
<1>5. /\ Append(s, e) \in Seq(S) /\ Len(Append(s, e)) = Len(s) + 1
      /\ \A i \in 1 .. Len(s) : Append(s, e)[i] = s[i]
      /\ Append(s, e)[Len(s) + 1] = e
  BY <1>4, AppendFacts
<1>6. a \o b \o <<e>> = Append(a \o b \o << >>, e)
  BY <1>1, <1>2, <1>4, <1>5, JoinFacts, SameSeq
<1>7. a \o Append(b, e) \o << >> = a \o b \o <<e>>
  BY <1>1, <1>2, <1>3, JoinFacts, SameSeq
<1> QED
  BY <1>6, <1>7

LEMMA LineType == ASSUME Shape PROVE Line \in Seq(Cmds) /\ Sending \in Seq(Cmds)
<1>1. Sending \in Seq(Cmds)
  BY DEF Sending, Shape, TypeOK
<1> QED
  BY <1>1, JoinFacts DEF Line, Shape, TypeOK

LEMMA LineKept ==
    ASSUME UNCHANGED queues,
           \/ prn # "send" /\ prn' # "send"
           \/ UNCHANGED <<prn, cmd>>
    PROVE  Line' = Line
BY DEF Line, Sending, queues

LEMMA LineHanded ==
    ASSUME Shape, RecvMsg \/ Send
    PROVE  Line' = Line
<1>1. CASE RecvMsg
  BY <1>1, LineType, JoinHanded, SMTT(30) DEF RecvMsg, Line, Sending, Shape, TypeOK
<1>2. CASE Send
  BY <1>2, JoinAppended DEF Send, SendMsg, Line, Sending, Shape, TypeOK
<1> QED
  BY <1>1, <1>2

LEMMA LineAppended ==
    ASSUME Shape, UNCHANGED queues, prn # "send", prn' = "send", cmd' \in Cmds
    PROVE  Line' = Append(Line, cmd')
BY JoinAppended DEF Line, Sending, queues, Shape, TypeOK

LEMMA LineDone ==
    ASSUME Shape, Done, CmdBuff # << >>, UNCHANGED <<CmdQueue, prn, cmd>>
    PROVE  Line' = Tail(Line) /\ Line # << >> /\ Line[1] = Head(CmdBuff)
<1>1. Line' = Tail(CmdBuff) \o CmdQueue \o Sending
  BY DEF Done, Line, Sending
<1>2. CmdBuff \in Seq(Cmds) /\ CmdQueue \in Seq(Cmds) /\ Sending \in Seq(Cmds)
  BY LineType DEF Shape, TypeOK
<1>3. /\ Tail(CmdBuff) \o CmdQueue \o Sending = Tail(CmdBuff \o CmdQueue \o Sending)
      /\ CmdBuff \o CmdQueue \o Sending # << >>
      /\ (CmdBuff \o CmdQueue \o Sending)[1] = Head(CmdBuff)
  BY <1>2, JoinTail
<1> QED
  BY <1>1, <1>3, Zenon DEF Line

LEMMA LineHead ==
    ASSUME Shape, CmdBuff # << >>
    PROVE  Line # << >> /\ Line[1] = Head(CmdBuff) /\ Len(Line) > 0
<1>1. Line # << >> /\ Line[1] = Head(CmdBuff)
  BY LineType, JoinTail DEF Line, Shape, TypeOK
<1> QED
  BY <1>1, LineType, TailFacts

LEMMA LineDrained ==
    ASSUME Shape, DrainQueue
    PROVE  Line' \in Seq(Cmds) /\ Len(Line') <= Len(Line)
           /\ \A i \in 1 .. Len(Line') : Line'[i] = Line[i]
<1>1. << >> \in Seq(Cmds) /\ Len(<< >>) = 0
  OBVIOUS
<1>2. Line = CmdBuff \o CmdQueue \o << >> /\ Line' = CmdBuff \o << >> \o << >>
  BY DEF DrainQueue, Line, Sending
<1> QED
  BY <1>1, <1>2, JoinFacts DEF Shape, TypeOK

LEMMA LineCleared == ASSUME Shape, ClearRing PROVE Line' = << >>
BY DEF ClearRing, Line, Sending, Shape, ClearShape

\* Where the G-code thread ends a command, and what else it may change.
LEMMA ExecLine ==
    ASSUME Shape, Steps
    PROVE  /\ UNCHANGED <<FilePos, prn, cmd, ManualPrintAction, NeedClearCmdQueue, stopped,
                          hasty>>
           /\ \/ Line' = Line /\ UNCHANGED <<last, cleared>>
              \/ Done /\ Line' = Tail(Line) /\ Line # << >> /\ Line[1] = Head(CmdBuff)
<1> USE DEF PrinterUnchanged, userVars
<1>1. CASE RecvMsg
  BY <1>1, LineHanded DEF RecvMsg
<1>2. CASE Move \/ HeatReached \/ HeatBroken \/ M25PauseHandle \/ M24Motion \/ M524StopHandle
  <2>1. /\ Done /\ CmdBuff # << >>
        /\ UNCHANGED <<FilePos, prn, cmd, ManualPrintAction, NeedClearCmdQueue, stopped,
                       hasty, CmdQueue>>
    BY <1>2 DEF Move, Begins, HeatReached, HeatBroken, M25PauseHandle, M24Motion,
                M524StopHandle, Shape, TypeOK
  <2> QED
    BY <2>1, LineDone
<1>3. CASE StartWaiting \/ M25Motion \/ M24ResumeHandle \/ M24Recover \/ M524Motion
           \/ \E c \in {"heat", "bed"} : HeatSet(c)
  <2>1. UNCHANGED <<FilePos, prn, cmd, ManualPrintAction, NeedClearCmdQueue, stopped, hasty,
                    queues, last, cleared>>
    BY <1>3 DEF StartWaiting, M25Motion, M24ResumeHandle, M24Recover, M524Motion, HeatSet,
                queues
  <2> QED
    BY <2>1, LineKept
<1> QED
  BY <1>1, <1>2, <1>3 DEF Steps, Exec

-----------------------------------------------------------------------------
(***************************************************************************)
(* The order of the commands of the file.                                  *)
(***************************************************************************)
LEMMA FollowsFacts ==
    ASSUME NEW a \in Nat, NEW p \in 0 .. Len(File)
    PROVE  /\ Follows(a, 1) /\ Follows(a, a + 1)
           /\ Follows(a, p + 1) /\ p + 1 <= Len(File) /\ File[p + 1] = "M108"
                => Follows(a, p + 1 + 1)
<1>1. Len(File) \in Nat
  BY FileAssumption
<1>2. Follows(a, 1) /\ Follows(a, a + 1)
  BY <1>1 DEF Follows
<1>3. ASSUME Follows(a, p + 1), p + 1 <= Len(File), File[p + 1] = "M108"
      PROVE  Follows(a, p + 1 + 1)
  <2> SUFFICES ASSUME NEW k \in 1 .. Len(File), k < p + 1 + 1, a < p + 1 + 1 => a < k
               PROVE  File[k] = "M108"
    BY DEF Follows
  <2>1. CASE k = p + 1
    BY <1>3, <2>1
  <2>2. CASE k < p + 1
    BY <1>1, <1>3, <2>2 DEF Follows
  <2> QED
    BY <1>1, <2>1, <2>2
<1> QED
  BY <1>2, <1>3

LEMMA NumberType ==
    ASSUME NEW s \in Seq(Cmds), NEW i \in 1 .. Len(s)
    PROVE  s[i] \in Cmds /\ s[i].n \in Nat
<1>1. s[i] \in Cmds
  OBVIOUS
<1>2. \A e \in Cmds : e.n \in Nat
  BY FileAssumption DEF Cmds
<1> QED
  BY <1>1, <1>2

LEMMA OrderTail ==
    ASSUME NEW s \in Seq(Cmds), s # << >>, InFileOrder(s), NEW a, NEW b
    PROVE  /\ InFileOrder(Tail(s))
           /\ EndsBefore(s, b) => EndsBefore(Tail(s), b)
           /\ FromFile(s, 1) =>
                /\ BeginsAfter(Tail(s), s[1].n)
                /\ EndsBefore(s, b) /\ NoneOfFile(Tail(s)) => Follows(s[1].n, b)
           /\ ~FromFile(s, 1) =>
                /\ BeginsAfter(s, a) => BeginsAfter(Tail(s), a)
                /\ NoneOfFile(Tail(s)) => NoneOfFile(s)
<1> DEFINE t == Tail(s)
<1>1. /\ t \in Seq(Cmds) /\ Len(t) = Len(s) - 1 /\ Len(s) \in Nat /\ Len(s) > 0
      /\ \A i \in 1 .. Len(t) : t[i] = s[i + 1]
  BY TailFacts
<1> HIDE DEF t
<1>2. InFileOrder(t)
  <2> SUFFICES ASSUME NEW i \in 1 .. Len(t), NEW j \in 1 .. Len(t), Neighbours(t, i, j)
               PROVE  Follows(t[i].n, t[j].n)
    BY DEF InFileOrder
  <2>1. ASSUME NEW m \in i + 2 .. j PROVE ~FromFile(s, m)
    <3>1. m - 1 \in i + 1 .. j - 1 /\ m - 1 \in 1 .. Len(t) /\ m - 1 + 1 = m
      BY <1>1
    <3> QED
      BY <1>1, <3>1 DEF Neighbours, FromFile
  <2>2. Neighbours(s, i + 1, j + 1)
    BY <1>1, <2>1 DEF Neighbours, FromFile
  <2> QED
    BY <1>1, <2>2, SMTT(30) DEF InFileOrder
<1>3. ASSUME EndsBefore(s, b) PROVE EndsBefore(t, b)
  <2> SUFFICES ASSUME NEW i \in 1 .. Len(t), LastOfFile(t, i) PROVE Follows(t[i].n, b)
    BY DEF EndsBefore
  <2>1. ASSUME NEW m \in i + 2 .. Len(s) PROVE ~FromFile(s, m)
    <3>1. m - 1 \in i + 1 .. Len(t) /\ m - 1 \in 1 .. Len(t) /\ m - 1 + 1 = m
      BY <1>1
    <3> QED
      BY <1>1, <3>1 DEF LastOfFile, FromFile
  <2>2. LastOfFile(s, i + 1)
    BY <1>1, <2>1 DEF LastOfFile, FromFile
  <2> QED
    BY <1>1, <1>3, <2>2 DEF EndsBefore
<1>4. ASSUME FromFile(s, 1) PROVE BeginsAfter(t, s[1].n)
  <2> SUFFICES ASSUME NEW i \in 1 .. Len(t), FirstOfFile(t, i) PROVE Follows(s[1].n, t[i].n)
    BY DEF BeginsAfter
  <2>1. ASSUME NEW m \in 2 .. i PROVE ~FromFile(s, m)
    <3>1. m - 1 \in 1 .. i - 1 /\ m - 1 \in 1 .. Len(t) /\ m - 1 + 1 = m
      BY <1>1
    <3> QED
      BY <1>1, <3>1 DEF FirstOfFile, FromFile
  <2>2. Neighbours(s, 1, i + 1)
    BY <1>1, <1>4, <2>1 DEF Neighbours, FirstOfFile, FromFile
  <2> QED
    BY <1>1, <2>2 DEF InFileOrder
<1>5. ASSUME FromFile(s, 1), EndsBefore(s, b), NoneOfFile(t) PROVE Follows(s[1].n, b)
  <2>1. ASSUME NEW m \in 2 .. Len(s) PROVE ~FromFile(s, m)
    <3>1. m - 1 \in 1 .. Len(t) /\ m - 1 + 1 = m
      BY <1>1
    <3> QED
      BY <1>1, <1>5, <3>1 DEF NoneOfFile, FromFile
  <2> QED
    BY <1>1, <1>5, <2>1 DEF EndsBefore, LastOfFile
<1>6. ASSUME ~FromFile(s, 1), BeginsAfter(s, a) PROVE BeginsAfter(t, a)
  <2> SUFFICES ASSUME NEW i \in 1 .. Len(t), FirstOfFile(t, i) PROVE Follows(a, t[i].n)
    BY DEF BeginsAfter
  <2>1. ASSUME NEW m \in 1 .. i PROVE ~FromFile(s, m)
    <3>1. CASE m = 1
      BY <1>6, <3>1
    <3>2. CASE m > 1
      <4>1. m - 1 \in 1 .. i - 1 /\ m - 1 \in 1 .. Len(t) /\ m - 1 + 1 = m
        BY <1>1, <3>2
      <4> QED
        BY <1>1, <4>1 DEF FirstOfFile, FromFile
    <3> QED
      BY <3>1, <3>2
  <2>2. FirstOfFile(s, i + 1)
    BY <1>1, <2>1 DEF FirstOfFile, FromFile
  <2> QED
    BY <1>1, <1>6, <2>2 DEF BeginsAfter
<1>7. ASSUME ~FromFile(s, 1), NoneOfFile(t) PROVE NoneOfFile(s)
  <2> SUFFICES ASSUME NEW i \in 1 .. Len(s) PROVE ~FromFile(s, i)
    BY DEF NoneOfFile
  <2>1. CASE i > 1
    <3>1. i - 1 \in 1 .. Len(t) /\ i - 1 + 1 = i
      BY <1>1, <2>1
    <3> QED
      BY <1>1, <1>7, <3>1 DEF NoneOfFile, FromFile
  <2> QED
    BY <1>7, <2>1
<1> QED
  BY <1>2, <1>3, <1>4, <1>5, <1>6, <1>7 DEF t

LEMMA OrderAppend ==
    ASSUME NEW s \in Seq(Cmds), NEW e \in Cmds, InFileOrder(s), NEW a, NEW b
    PROVE  /\ e.by # "file" =>
                /\ InFileOrder(Append(s, e))
                /\ BeginsAfter(s, a) => BeginsAfter(Append(s, e), a)
                /\ EndsBefore(s, b) => EndsBefore(Append(s, e), b)
                /\ NoneOfFile(Append(s, e)) => NoneOfFile(s)
           /\ e.by = "file" /\ EndsBefore(s, e.n) =>
                /\ InFileOrder(Append(s, e))
                /\ BeginsAfter(s, a) /\ (NoneOfFile(s) => Follows(a, e.n))
                     => BeginsAfter(Append(s, e), a)
                /\ EndsBefore(Append(s, e), e.n + 1)
                /\ ~NoneOfFile(Append(s, e))
<1> DEFINE t == Append(s, e)
<1>1. /\ t \in Seq(Cmds) /\ Len(t) = Len(s) + 1 /\ Len(s) \in Nat
      /\ \A i \in 1 .. Len(s) : t[i] = s[i]
      /\ t[Len(s) + 1] = e
  BY AppendFacts
<1>2. e.n \in Nat
  BY FileAssumption DEF Cmds
<1> HIDE DEF t
<1>3. ASSUME NEW i \in 1 .. Len(s), NEW j \in 1 .. Len(s)
      PROVE  /\ Neighbours(t, i, j) => Neighbours(s, i, j)
             /\ FirstOfFile(t, i) => FirstOfFile(s, i)
             /\ LastOfFile(t, i) => LastOfFile(s, i)
  BY <1>1 DEF Neighbours, FirstOfFile, LastOfFile, FromFile
<1>4. ASSUME e.by # "file"
      PROVE  /\ InFileOrder(t)
             /\ BeginsAfter(s, a) => BeginsAfter(t, a)
             /\ EndsBefore(s, b) => EndsBefore(t, b)
             /\ NoneOfFile(t) => NoneOfFile(s)
  <2>1. ~FromFile(t, Len(s) + 1)
    BY <1>1, <1>4 DEF FromFile
  <2>2. InFileOrder(t)
    BY <1>1, <1>3, <2>1, SMTT(30) DEF InFileOrder, Neighbours
  <2>3. BeginsAfter(s, a) => BeginsAfter(t, a)
    BY <1>1, <1>3, <2>1 DEF BeginsAfter, FirstOfFile
  <2>4. EndsBefore(s, b) => EndsBefore(t, b)
    BY <1>1, <1>3, <2>1 DEF EndsBefore, LastOfFile
  <2>5. NoneOfFile(t) => NoneOfFile(s)
    BY <1>1 DEF NoneOfFile, FromFile
  <2> QED
    BY <2>2, <2>3, <2>4, <2>5
<1>5. ASSUME e.by = "file", EndsBefore(s, e.n)
      PROVE  /\ InFileOrder(t)
             /\ BeginsAfter(s, a) /\ (NoneOfFile(s) => Follows(a, e.n)) => BeginsAfter(t, a)
             /\ EndsBefore(t, e.n + 1)
             /\ ~NoneOfFile(t)
  <2>1. FromFile(t, Len(s) + 1)
    BY <1>1, <1>5 DEF FromFile
  <2>2. InFileOrder(t)
    <3> SUFFICES ASSUME NEW i \in 1 .. Len(t), NEW j \in 1 .. Len(t), Neighbours(t, i, j)
                 PROVE  Follows(t[i].n, t[j].n)
      BY DEF InFileOrder
    <3>1. CASE j <= Len(s)
      BY <1>1, <1>3, <3>1 DEF InFileOrder, Neighbours
    <3>2. CASE j = Len(s) + 1
      <4>1. i \in 1 .. Len(s) /\ LastOfFile(s, i)
        BY <1>1, <3>2 DEF Neighbours, LastOfFile, FromFile
      <4> QED
        BY <1>1, <1>5, <3>2, <4>1 DEF EndsBefore
    <3> QED
      BY <1>1, <3>1, <3>2
  <2>3. ASSUME BeginsAfter(s, a), NoneOfFile(s) => Follows(a, e.n) PROVE BeginsAfter(t, a)
    <3> SUFFICES ASSUME NEW i \in 1 .. Len(t), FirstOfFile(t, i) PROVE Follows(a, t[i].n)
      BY DEF BeginsAfter
    <3>1. CASE i <= Len(s)
      BY <1>1, <1>3, <2>3, <3>1 DEF BeginsAfter
    <3>2. CASE i = Len(s) + 1
      <4>1. NoneOfFile(s)
        BY <1>1, <3>2 DEF NoneOfFile, FirstOfFile, FromFile
      <4> QED
        BY <1>1, <2>3, <3>2, <4>1
    <3> QED
      BY <1>1, <3>1, <3>2
  <2>4. EndsBefore(t, e.n + 1)
    <3> SUFFICES ASSUME NEW i \in 1 .. Len(t), LastOfFile(t, i) PROVE Follows(t[i].n, e.n + 1)
      BY DEF EndsBefore
    <3>1. i = Len(s) + 1
      BY <1>1, <2>1 DEF LastOfFile
    <3>2. Follows(e.n, e.n + 1)
      BY <1>2, FollowsFacts, FileAssumption, SMTT(30)
    <3> QED
      BY <1>1, <3>1, <3>2
  <2>5. ~NoneOfFile(t)
    BY <1>1, <2>1 DEF NoneOfFile
  <2> QED
    BY <2>2, <2>3, <2>4, <2>5
<1> QED
  BY <1>4, <1>5 DEF t

LEMMA OrderPrefix ==
    ASSUME NEW s \in Seq(Cmds), NEW t \in Seq(Cmds), Len(t) <= Len(s),
           \A i \in 1 .. Len(t) : t[i] = s[i], InFileOrder(s), NEW a
    PROVE  InFileOrder(t) /\ (BeginsAfter(s, a) => BeginsAfter(t, a))
<1>1. Len(s) \in Nat /\ Len(t) \in Nat
  OBVIOUS
<1>2. ASSUME NEW i \in 1 .. Len(t), NEW j \in 1 .. Len(t)
      PROVE  /\ Neighbours(t, i, j) => Neighbours(s, i, j)
             /\ FirstOfFile(t, i) => FirstOfFile(s, i)
             /\ i \in 1 .. Len(s)
  BY <1>1 DEF Neighbours, FirstOfFile, FromFile
<1> QED
  BY <1>2 DEF InFileOrder, BeginsAfter

\* Steps of the printer thread that leave Line alone, and where they go.
Polls == \/ SetStopped \/ Send \/ Sent \/ StopBranch \/ KeepActiveCheck \/ KeepActiveRelease
         \/ UartNothing \/ TenMinutes
         \/ /\ ~ManualPrintAction
            /\ PauseBranch \/ ResumeBranch \/ StopPassOn

LEMMA PollsLine ==
    ASSUME Shape, Polls
    PROVE  /\ Line' = Line
           /\ UNCHANGED <<last, cleared, FilePos>>
           /\ prn' = "clear" => prn = "clear"
           /\ prn = "clear" => prn' = "clear"
<1>1. CASE Send
  BY <1>1, LineHanded DEF Send
<1>2. CASE ~Send
  <2>1. /\ UNCHANGED <<last, cleared, FilePos, queues>>
        /\ \/ prn # "send" /\ prn' # "send"
           \/ UNCHANGED <<prn, cmd>>
        /\ prn' = "clear" => prn = "clear"
        /\ prn = "clear" => prn' = "clear"
    BY <1>2 DEF Polls, SetStopped, Sent, StopBranch, KeepActiveCheck, KeepActiveRelease,
                UartNothing, TenMinutes,
                PauseBranch, ResumeBranch, StopPassOn, PassOn, queues
  <2> QED
    BY <2>1, LineKept
<1> QED
  BY <1>1, <1>2

\* Steps that put a command on its way which is not of the file.
Adds == \/ \E c \in UartCmds : UartCmd(c)
        \/ ManualPrintAction /\ (PauseBranch \/ ResumeBranch \/ StopPassOn)

LEMMA AddsLine ==
    ASSUME Shape, Adds
    PROVE  /\ Line' = Append(Line, cmd') /\ cmd' \in Cmds /\ cmd'.by # "file"
           /\ UNCHANGED <<last, cleared, FilePos>>
           /\ prn # "clear" /\ prn' = "send"
<1>1. ASSUME NEW c \in UartCmds, UartCmd(c)
      PROVE  /\ cmd' = Cmd(c, "uart", 0) /\ prn = "uart" /\ prn' = "send"
             /\ UNCHANGED <<last, cleared, FilePos, queues>>
  BY <1>1 DEF UartCmd
<1>2. ASSUME ManualPrintAction, PauseBranch \/ ResumeBranch \/ StopPassOn
      PROVE  /\ \E c \in {"M25", "M24", "M524"} : cmd' = Cmd(c, "user", 0)
             /\ prn \in {"top", "stop"} /\ prn' = "send"
             /\ UNCHANGED <<last, cleared, FilePos, queues>>
  BY <1>2 DEF PauseBranch, ResumeBranch, StopPassOn, PassOn
<1>3. cmd' \in Cmds /\ cmd'.by # "file"
  BY <1>1, <1>2, CmdTypes DEF Adds, Cmd
<1> QED
  BY <1>1, <1>2, <1>3, LineAppended DEF Adds

LEMMA MainLine ==
    ASSUME PrintCmdMsgHandle
    PROVE  Line' = Line /\ UNCHANGED <<last, cleared, FilePos, prn, cmd>>
<1>1. UNCHANGED <<last, cleared, FilePos, prn, cmd, queues>>
  BY DEF PrintCmdMsgHandle, Request, RequestStart
<1> QED
  BY <1>1, LineKept

LEMMA ReadLine ==
    ASSUME Shape, ReadCmd
    PROVE  /\ FilePos' = FilePos + 1 /\ FilePos' \in 1 .. Len(File) /\ FilePos \in Nat
           /\ prn = "top" /\ prn' # "clear" /\ UNCHANGED <<last, cleared>>
           /\ \/ File[FilePos + 1] = "M108" /\ Line' = Line
              \/ /\ File[FilePos + 1] # "M108" /\ cmd' = Cmd(File[FilePos + 1], "file", FilePos + 1)
                 /\ cmd' \in Cmds /\ Line' = Append(Line, cmd')
<1>1. /\ FilePos' = FilePos + 1 /\ FilePos' \in 1 .. Len(File) /\ FilePos \in Nat
      /\ prn = "top" /\ prn' \in {"active", "send"} /\ UNCHANGED <<last, cleared, queues>>
  BY FileAssumption DEF ReadCmd, Shape, TypeOK
<1>2. CASE File[FilePos + 1] = "M108"
  <2>1. prn' = "active"
    BY <1>2 DEF ReadCmd
  <2> QED
    BY <1>1, <1>2, <2>1, LineKept
<1>3. CASE File[FilePos + 1] # "M108"
  <2>1. prn' = "send" /\ cmd' = Cmd(File[FilePos + 1], "file", FilePos + 1)
    BY <1>3 DEF ReadCmd
  <2>2. cmd' \in Cmds
    BY <1>1, <1>3, <2>1, CmdTypes
  <2> QED
    BY <1>1, <1>3, <2>1, <2>2, LineAppended
<1> QED
  BY <1>2, <1>3

LEMMA ThreadCases ==
    ASSUME ThreadHandle \/ TenMinutes, ManualPrintAction \in BOOLEAN
    PROVE  Polls \/ Adds \/ ReadCmd \/ ReadEnd \/ ReadError \/ DrainQueue \/ ClearRing
BY Zenon DEF ThreadHandle, Polls, Adds

LEMMA OrderInit == Init => OrderInv
<1> SUFFICES ASSUME Init PROVE OrderInv
  OBVIOUS
<1>1. Shape
  BY ShapeInit
<1>2. Line = << >> /\ Len(Line) = 0
  BY DEF Init, Line, Sending
<1>3. Follows(last, FilePos + 1)
  BY FollowsFacts, FileAssumption DEF Init
<1> QED
  BY <1>1, <1>2, <1>3 DEF OrderInv, InFileOrder, BeginsAfter, EndsBefore

LEMMA OrderThread == ASSUME OrderInv, ThreadHandle \/ TenMinutes PROVE OrderInv'
<1>1. Shape /\ Shape'
  BY ShapeNext DEF OrderInv, Next, Steps
<1>2. Line \in Seq(Cmds) /\ InFileOrder(Line)
  BY <1>1, LineType DEF OrderInv
<1>3. last \in Nat /\ FilePos \in 0 .. Len(File)
  BY <1>1, FileAssumption DEF Shape, TypeOK
<1>4. CASE Polls
  BY <1>1, <1>4, PollsLine DEF OrderInv
<1>5. CASE Adds
  BY <1>1, <1>2, <1>5, AddsLine, OrderAppend DEF OrderInv
<1>6. CASE ReadCmd
  <2>1. CASE File[FilePos + 1] = "M108"
    <3>1. /\ Line' = Line /\ FilePos' = FilePos + 1 /\ UNCHANGED <<last, cleared>>
          /\ prn # "clear" /\ FilePos + 1 <= Len(File)
      BY <1>1, <1>6, <2>1, ReadLine
    <3>2. EndsBefore(Line, FilePos + 1 + 1)
      <4> SUFFICES ASSUME NEW i \in 1 .. Len(Line), LastOfFile(Line, i)
                   PROVE  Follows(Line[i].n, FilePos + 1 + 1)
        BY DEF EndsBefore
      <4>1. Line[i].n \in Nat
        BY <1>2, NumberType
      <4>2. Follows(Line[i].n, FilePos + 1)
        BY <3>1 DEF OrderInv, EndsBefore
      <4> QED
        BY <1>3, <2>1, <3>1, <4>1, <4>2, FollowsFacts
    <3>3. Follows(last, FilePos + 1) => Follows(last, FilePos + 1 + 1)
      BY <1>3, <2>1, <3>1, FollowsFacts
    <3> QED
      BY <1>1, <3>1, <3>2, <3>3 DEF OrderInv
  <2>2. CASE File[FilePos + 1] # "M108"
    <3>1. /\ Line' = Append(Line, cmd') /\ FilePos' = FilePos + 1 /\ UNCHANGED <<last, cleared>>
          /\ prn # "clear" /\ cmd' \in Cmds
          /\ cmd'.by = "file" /\ cmd'.n = FilePos + 1
      BY <1>1, <1>6, <2>2, ReadLine DEF Cmd
    <3>2. EndsBefore(Line, cmd'.n)
      BY <3>1 DEF OrderInv
    <3>3. /\ InFileOrder(Line')
          /\ BeginsAfter(Line, last) /\ (NoneOfFile(Line) => Follows(last, cmd'.n))
               => BeginsAfter(Line', last)
          /\ EndsBefore(Line', cmd'.n + 1)
          /\ ~NoneOfFile(Line')
      BY <1>2, <3>1, <3>2, OrderAppend
    <3> QED
      BY <1>1, <3>1, <3>3 DEF OrderInv
  <2> QED
    BY <2>1, <2>2
<1>7. CASE ReadEnd \/ ReadError
  <2>1. /\ UNCHANGED <<queues, last, cleared>> /\ FilePos' = 0
        /\ prn = "top" /\ prn' = "ended"
    BY <1>7 DEF ReadEnd, ReadError
  <2>2. Line' = Line
    BY <2>1, LineKept
  <2>3. EndsBefore(Line, 1)
    <3> SUFFICES ASSUME NEW i \in 1 .. Len(Line) PROVE Follows(Line[i].n, 1)
      BY DEF EndsBefore
    <3>1. Line[i].n \in Nat
      BY <1>2, NumberType
    <3> QED
      BY <1>3, <3>1, FollowsFacts
  <2>4. Follows(last, 1)
    BY <1>3, FollowsFacts
  <2>5. FilePos' + 1 = 1
    BY <2>1
  <2> QED
    BY <1>1, <2>1, <2>2, <2>3, <2>4, <2>5 DEF OrderInv
<1>8. CASE DrainQueue
  <2>1. UNCHANGED <<last, cleared>> /\ prn' = "clear"
    BY <1>8 DEF DrainQueue
  <2> QED
    BY <1>1, <1>2, <1>8, <2>1, LineDrained, OrderPrefix DEF OrderInv
<1>9. CASE ClearRing
  <2>1. cleared' = TRUE /\ Line' = << >>
    BY <1>1, <1>9, LineCleared DEF ClearRing
  <2> QED
    BY <1>1, <2>1 DEF OrderInv, InFileOrder, BeginsAfter, EndsBefore
<1>10. ManualPrintAction \in BOOLEAN
  BY <1>1 DEF Shape, TypeOK
<1> QED
  BY <1>4, <1>5, <1>6, <1>7, <1>8, <1>9, <1>10, ThreadCases

LEMMA OrderExec == ASSUME OrderInv, Steps PROVE OrderInv'
<1>1. Shape /\ Shape'
  BY ShapeNext DEF OrderInv, Next, Steps
<1>2. Line \in Seq(Cmds) /\ InFileOrder(Line)
  BY <1>1, LineType DEF OrderInv
<1>3. UNCHANGED <<FilePos, prn>>
  BY <1>1, ExecLine
<1>4. CASE Line' = Line /\ UNCHANGED <<last, cleared>>
  BY <1>1, <1>3, <1>4 DEF OrderInv
<1>5. CASE Done /\ Line' = Tail(Line) /\ Line # << >> /\ Line[1] = Head(CmdBuff)
  <2>1. CASE FromFile(Line, 1)
    <3>1. last' = Line[1].n /\ cleared' = FALSE
      BY <1>5, <2>1 DEF Done, FromFile
    <3> QED
      BY <1>1, <1>2, <1>3, <1>5, <2>1, <3>1, OrderTail DEF OrderInv
  <2>2. CASE ~FromFile(Line, 1)
    <3>1. UNCHANGED <<last, cleared>>
      BY <1>5, <2>2 DEF Done, FromFile
    <3> QED
      BY <1>1, <1>2, <1>3, <1>5, <2>2, <3>1, OrderTail DEF OrderInv
  <2> QED
    BY <2>1, <2>2
<1> QED
  BY <1>1, <1>4, <1>5, ExecLine

LEMMA OrderNext == ASSUME OrderInv, [Next]_vars PROVE OrderInv'
<1>1. Shape'
  BY ShapeNext DEF OrderInv
<1>2. CASE PrintCmdMsgHandle
  BY <1>1, <1>2, MainLine DEF OrderInv
<1>3. CASE UNCHANGED vars
  <2>1. Line' = Line /\ UNCHANGED <<last, cleared, FilePos, prn>>
    BY <1>3, LineKept DEF vars, queues
  <2> QED
    BY <1>1, <2>1 DEF OrderInv
<1> QED
  BY <1>2, <1>3, OrderThread, OrderExec DEF Next, Steps

\* The file is executed in its order: nothing is skipped without a clear, and
\* only a reading from the start follows a later command.
THEOREM ExecutedInFileOrder == Spec => FileInOrder
<1> DEFINE Step == last' # last /\ ~cleared =>
             \A k \in 1 .. Len(File) :
               k < last' /\ (last < last' => last < k) => File[k] = "M108"
<1>1. ASSUME OrderInv, [Next]_vars PROVE [Step]_vars
  <2> SUFFICES ASSUME last' # last, ~cleared PROVE Follows(last, last')
    BY DEF Follows
  <2>1. Shape
    BY <1>1 DEF OrderInv
  <2>2. CASE Steps
    <3>1. Done /\ Line # << >> /\ Line[1] = Head(CmdBuff)
      BY <2>1, <2>2, ExecLine
    <3>2. FromFile(Line, 1) /\ last' = Line[1].n
      BY <3>1 DEF Done, FromFile
    <3>3. 1 \in 1 .. Len(Line)
      BY <2>1, <3>1, LineType, TailFacts
    <3>4. FirstOfFile(Line, 1)
      BY <3>2 DEF FirstOfFile
    <3> QED
      BY <1>1, <3>2, <3>3, <3>4 DEF OrderInv, BeginsAfter
  <2>3. CASE PrintCmdMsgHandle
    BY <2>3, MainLine
  <2>4. CASE ThreadHandle \/ TenMinutes
    <3>1. UNCHANGED last
      <4>1. ManualPrintAction \in BOOLEAN
        BY <2>1 DEF Shape, TypeOK
      <4> QED
        BY <2>1, <2>4, <4>1, ThreadCases, PollsLine, AddsLine, ReadLine
           DEF ReadEnd, ReadError, DrainQueue, ClearRing
    <3> QED
      BY <3>1
  <2>5. CASE UNCHANGED vars
    BY <2>5 DEF vars
  <2> QED
    BY <1>1, <2>2, <2>3, <2>4, <2>5 DEF Next, Steps
<1> QED
  BY <1>1, OrderInit, OrderNext, PTL DEF Spec, FileInOrder

-----------------------------------------------------------------------------
(***************************************************************************)
(* The heaters after a stop.                                               *)
(***************************************************************************)
LEMMA ColdTail ==
    ASSUME NEW s \in Seq(Cmds), s # << >>, NEW t, Cold(s, t)
    PROVE  /\ Cold(Tail(s), AllOff)
           /\ s[1].c # "M524" => Cold(Tail(s), t)
<1> DEFINE r == Tail(s)
<1>1. /\ r \in Seq(Cmds) /\ Len(r) = Len(s) - 1 /\ Len(s) \in Nat /\ Len(s) > 0
      /\ \A i \in 1 .. Len(r) : r[i] = s[i + 1]
  BY TailFacts
<1> HIDE DEF r
<1>2. CASE t = AllOff /\ \A i \in 1 .. Len(s) : ~Heats(s[i])
  <2>1. \A i \in 1 .. Len(r) : ~Heats(r[i])
    BY <1>1, <1>2
  <2> QED
    BY <1>2, <2>1 DEF Cold, r
<1>3. ASSUME NEW i \in 1 .. Len(s), s[i].c = "M524", \A j \in i + 1 .. Len(s) : ~Heats(s[j])
      PROVE  Cold(r, AllOff) /\ (s[1].c # "M524" => Cold(r, t))
  <2>1. CASE i = 1
    <3>1. \A j \in 1 .. Len(r) : ~Heats(r[j])
      BY <1>1, <1>3, <2>1
    <3> QED
      BY <1>3, <2>1, <3>1 DEF Cold
  <2>2. CASE i > 1
    <3>1. i - 1 \in 1 .. Len(r) /\ i - 1 + 1 = i
      BY <1>1, <2>2
    <3>2. r[i - 1].c = "M524"
      BY <1>1, <1>3, <3>1
    <3>3. ASSUME NEW j \in (i - 1) + 1 .. Len(r) PROVE ~Heats(r[j])
      <4>1. j \in 1 .. Len(r) /\ j + 1 \in i + 1 .. Len(s)
        BY <1>1, <3>1
      <4> QED
        BY <1>1, <1>3, <4>1
    <3> QED
      BY <3>1, <3>2, <3>3 DEF Cold
  <2> QED
    BY <2>1, <2>2
<1> QED
  BY <1>2, <1>3 DEF Cold, r

LEMMA ColdFacts ==
    ASSUME NEW s \in Seq(Cmds), NEW t, NEW u
    PROVE  /\ Cold(s, t) => Cold(s, AllOff)
           /\ Cold(s, t) /\ s # << >> /\ Heats(s[1]) => Cold(s, u)
           /\ \A e \in Cmds : e.c = "M524" => Cold(Append(s, e), t)
<1>1. Cold(s, t) => Cold(s, AllOff)
  BY DEF Cold
<1>2. ASSUME Cold(s, t), s # << >>, Heats(s[1]) PROVE Cold(s, u)
  <2>1. 1 \in 1 .. Len(s)
    BY <1>2, TailFacts
  <2> QED
    BY <1>2, <2>1 DEF Cold
<1>3. ASSUME NEW e \in Cmds, e.c = "M524" PROVE Cold(Append(s, e), t)
  <2> DEFINE r == Append(s, e)
  <2>1. Len(r) = Len(s) + 1 /\ r[Len(s) + 1] = e /\ Len(s) \in Nat
    BY AppendFacts
  <2> HIDE DEF r
  <2>2. Len(s) + 1 \in 1 .. Len(r) /\ \A j \in (Len(s) + 1) + 1 .. Len(r) : ~Heats(r[j])
    BY <2>1
  <2> QED
    BY <1>3, <2>1, <2>2 DEF Cold, r
<1> QED
  BY <1>1, <1>2, <1>3

\* The stop has been passed on.
StopSent == stopped /\ Status = "STOP" /\ (~ManualPrintAction \/ Passing)

LEMMA ColdMain == ASSUME Patient, ColdInv, PrintCmdMsgHandle PROVE ~StopSent'
<1>1. CASE RequestStart
  BY <1>1 DEF RequestStart, StopSent
<1>2. ASSUME NEW a \in {"PAUSE", "RESUME", "STOP"}, Request(a) PROVE ~StopSent'
  <2>1. ManualPrintAction' = TRUE /\ cmd' = cmd /\ cmd.by # "user"
    BY <1>2 DEF Request, MayRequest
  <2> QED
    BY <2>1 DEF StopSent, Passing
<1> QED
  BY <1>1, <1>2 DEF PrintCmdMsgHandle

LEMMA ColdPolls ==
    ASSUME ColdInv, Polls, StopSent'
    PROVE  Cold(Line, target)' /\ ~NeedClearCmdQueue' /\ prn' \notin {"drain", "clear"}
<1>1. Shape
  BY DEF ColdInv
<1>2. Line' = Line
  BY <1>1, PollsLine
<1>3. /\ StopSent /\ ~NeedClearCmdQueue' /\ prn' \notin {"drain", "clear"}
      /\ (target = AllOff => target' = AllOff) /\ Cold(Line, target)
  <2> USE DEF Polls, StopSent, Passing, ColdInv, heat
  <2>1. CASE SetStopped
    BY <2>1 DEF SetStopped
  <2>2. CASE Send
    BY <2>2 DEF Send
  <2>3. CASE Sent
    <3>1. prn' \in {"top", "active"} /\ UNCHANGED <<Status, stopped, target, NeedClearCmdQueue>>
      BY <2>3 DEF Sent
    <3>2. ~ManualPrintAction'
      BY <3>1
    <3>3. ~ManualPrintAction \/ cmd.by = "user"
      BY <2>3, <3>2 DEF Sent
    <3>4. prn = "sent"
      BY <2>3 DEF Sent
    <3> QED
      BY <3>1, <3>3, <3>4
  <2>4. CASE StopBranch
    BY <2>4 DEF StopBranch
  <2>5. CASE KeepActiveCheck
    BY <2>5 DEF KeepActiveCheck, AllOff, Heaters
  <2>9. CASE KeepActiveRelease
    BY <2>9 DEF KeepActiveRelease, AllOff, Heaters
  <2>6. CASE UartNothing
    BY <2>6 DEF UartNothing
  <2>7. CASE TenMinutes
    BY <2>7 DEF TenMinutes
  <2>8. CASE ~ManualPrintAction /\ (PauseBranch \/ ResumeBranch \/ StopPassOn)
    <3>1. /\ prn' = "active" /\ prn \in {"top", "stop"}
          /\ UNCHANGED <<Status, stopped, ManualPrintAction, target, NeedClearCmdQueue>>
      BY <2>8 DEF PauseBranch, ResumeBranch, StopPassOn, PassOn
    <3> QED
      BY <2>8, <3>1
  <2> QED
    BY <2>1, <2>2, <2>3, <2>4, <2>5, <2>6, <2>7, <2>8, <2>9
<1> QED
  BY <1>2, <1>3 DEF Cold

LEMMA ColdThread ==
    ASSUME ColdInv, ThreadHandle \/ TenMinutes, StopSent'
    PROVE  Cold(Line, target)' /\ ~NeedClearCmdQueue' /\ prn' \notin {"drain", "clear"}
<1>1. Shape /\ ManualPrintAction \in BOOLEAN
  BY DEF ColdInv, Shape, TypeOK
<1>2. CASE Polls
  BY <1>2, ColdPolls
<1>3. CASE Adds
  <2>1. CASE \E c \in UartCmds : UartCmd(c)
    BY <2>1 DEF UartCmd, StopSent
  <2>2. CASE PauseBranch \/ ResumeBranch
    BY <2>2 DEF PauseBranch, ResumeBranch, PassOn, StopSent
  <2>3. CASE ManualPrintAction /\ StopPassOn
    <3>1. /\ cmd'.c = "M524" /\ NeedClearCmdQueue' = NeedClearCmdQueue /\ prn = "stop"
          /\ prn' = "send"
      BY <2>3 DEF StopPassOn, PassOn, Cmd
    <3>2. ~NeedClearCmdQueue
      BY <1>1, <3>1 DEF Shape, ClearShape
    <3>3. Line' = Append(Line, cmd') /\ cmd' \in Cmds
      BY <1>1, <1>3, AddsLine
    <3> QED
      BY <1>1, <3>1, <3>2, <3>3, LineType, ColdFacts
  <2> QED
    BY <1>3, <2>1, <2>2, <2>3 DEF Adds
<1>4. CASE ReadCmd \/ ReadEnd \/ ReadError
  BY <1>4 DEF ReadCmd, ReadEnd, ReadError, Feeds, StopSent
<1>5. CASE DrainQueue \/ ClearRing
  BY <1>5 DEF DrainQueue, ClearRing, ColdInv, StopSent, Passing
<1> QED
  BY <1>1, <1>2, <1>3, <1>4, <1>5, ThreadCases

LEMMA ColdExec ==
    ASSUME ColdInv, Steps, StopSent'
    PROVE  Cold(Line, target)' /\ ~NeedClearCmdQueue' /\ prn' \notin {"drain", "clear"}
<1>1. Shape /\ Line \in Seq(Cmds) /\ (gcode # "idle" => CmdBuff # << >>)
  BY LineType DEF ColdInv, Shape, TypeOK
<1>2. /\ UNCHANGED <<prn, cmd, ManualPrintAction, NeedClearCmdQueue, stopped>>
      /\ \/ Line' = Line
         \/ Done /\ Line' = Tail(Line) /\ Line # << >> /\ Line[1] = Head(CmdBuff)
  BY <1>1, ExecLine
<1>3. Status' = Status \/ Status' = "PRINTING"
  BY DEF Steps, Exec, RecvMsg, Move, StartWaiting, HeatReached, HeatBroken, HeatSet, M25Motion,
         M25PauseHandle, M24ResumeHandle, M24Recover, M24Motion, M524Motion, M524StopHandle
<1>4. StopSent
  BY <1>2, <1>3 DEF StopSent, Passing
<1>5. Cold(Line, target) /\ ~NeedClearCmdQueue /\ prn \notin {"drain", "clear"}
  BY <1>4 DEF ColdInv, StopSent
<1>6. Cold(Line', target')
  <2>1. CASE RecvMsg
    BY <1>1, <1>5, <2>1, LineHanded DEF RecvMsg, heat
  <2>2. CASE StartWaiting \/ M25Motion \/ M24ResumeHandle \/ M524Motion
    <3>1. target' = target /\ UNCHANGED queues /\ UNCHANGED <<prn, cmd>>
      BY <2>2 DEF StartWaiting, M25Motion, M24ResumeHandle, M524Motion, PrinterUnchanged,
                  heat, queues
    <3> QED
      BY <1>5, <3>1, LineKept
  <2>3. CASE M24Recover \/ \E c \in {"heat", "bed"} : HeatSet(c)
    <3>1. UNCHANGED queues /\ UNCHANGED <<prn, cmd>>
      BY <2>3 DEF M24Recover, HeatSet, PrinterUnchanged, queues
    <3>2. CmdBuff # << >> /\ Heats(Head(CmdBuff))
      BY <1>1, <2>3 DEF M24Recover, HeatSet, Begins, Heats, Shape, HeadShape
    <3>3. Line # << >> /\ Line[1] = Head(CmdBuff)
      BY <1>1, <3>2, LineHead
    <3> QED
      BY <1>1, <1>5, <3>1, <3>2, <3>3, LineKept, ColdFacts
  <2>4. CASE Move \/ HeatReached \/ HeatBroken \/ M24Motion
    <3>1. /\ Done /\ target' = target /\ UNCHANGED <<CmdQueue, prn, cmd>>
          /\ CmdBuff # << >> /\ Head(CmdBuff).c # "M524"
      BY <1>1, <2>4 DEF Move, HeatReached, HeatBroken, M24Motion, PrinterUnchanged, heat,
                        Begins, Shape, HeadShape
    <3>2. Line' = Tail(Line) /\ Line # << >> /\ Line[1] = Head(CmdBuff)
      BY <1>1, <3>1, LineDone
    <3> QED
      BY <1>1, <1>5, <3>1, <3>2, ColdTail
  <2>5. CASE M25PauseHandle \/ M524StopHandle
    <3>1. /\ Done /\ target' = AllOff /\ UNCHANGED <<CmdQueue, prn, cmd>> /\ CmdBuff # << >>
      BY <1>1, <2>5 DEF M25PauseHandle, M524StopHandle, AfterStopPrint, PrinterUnchanged
    <3>2. Line' = Tail(Line) /\ Line # << >> /\ Line[1] = Head(CmdBuff)
      BY <1>1, <3>1, LineDone
    <3> QED
      BY <1>1, <1>5, <3>1, <3>2, ColdTail
  <2> QED
    BY <2>1, <2>2, <2>3, <2>4, <2>5 DEF Steps, Exec
<1> QED
  BY <1>2, <1>5, <1>6

LEMMA ColdNext == ASSUME Patient, ColdInv, [Next]_vars PROVE ColdInv'
<1>1. Shape'
  BY ShapeNext DEF ColdInv
<1> SUFFICES ASSUME StopSent'
             PROVE  Cold(Line, target)' /\ ~NeedClearCmdQueue' /\ prn' \notin {"drain", "clear"}
  BY <1>1 DEF ColdInv, StopSent
<1>2. CASE UNCHANGED vars
  <2>1. /\ Line' = Line
        /\ UNCHANGED <<Status, ManualPrintAction, stopped, prn, cmd, target, NeedClearCmdQueue>>
    BY <1>2, LineKept DEF vars, queues
  <2> QED
    BY <2>1 DEF ColdInv, StopSent, Passing
<1> QED
  BY <1>2, ColdMain, ColdThread, ColdExec DEF Next, Steps

\* A stop leaves no heater on, whatever was being read, sent, queued, executed or
\* waited for when it came, if no request comes while the printer thread passes
\* one on: between its test of ManualPrintAction and its FinishPrintManualAction,
\* which would take the flag of the new request back.
THEOREM StopLeavesNothingOn == ASSUME Patient PROVE Spec => []StoppedCold
<1>1. Init => ColdInv
  BY ShapeInit DEF Init, ColdInv
<1>2. ColdInv /\ [Next]_vars => ColdInv'
  BY ColdNext
<1>3. ASSUME ColdInv PROVE StoppedCold
  <2> SUFFICES ASSUME Settled, stopped PROVE target = AllOff
    BY DEF StoppedCold
  <2>1. Line = << >> /\ Len(Line) = 0
    BY DEF Settled, Line, Sending
  <2>2. Cold(Line, target)
    BY <1>3 DEF Settled, ColdInv
  <2> QED
    BY <2>1, <2>2 DEF Cold
<1> QED
  BY <1>1, <1>2, <1>3, PTL DEF Spec

-----------------------------------------------------------------------------
(***************************************************************************)
(* The head while the print is paused.                                     *)
(***************************************************************************)
LEMMA ParkedSame ==
    ASSUME NEW s, NEW t, NEW p, NEW i \in Nat, \A m \in 1 .. i - 1 : s[m] = t[m]
    PROVE  ParkedBefore(s, p, i) <=> ParkedBefore(t, p, i)
<1>1. ASSUME NEW j \in 1 .. i - 1, NEW m \in j + 1 .. i - 1 PROVE m \in 1 .. i - 1
  OBVIOUS
<1> QED
  BY <1>1 DEF ParkedBefore

\* Executing the first command, which leaves the head at q.
LEMMA ParkedTail ==
    ASSUME NEW s \in Seq(Cmds), s # << >>, NEW p \in BOOLEAN, NEW q \in BOOLEAN,
           q => p /\ ~Unparks(s[1]),
           NEW i \in 1 .. Len(Tail(s)) + 1, ParkedBefore(Tail(s), q, i)
    PROVE  ParkedBefore(s, p, i + 1)
<1> DEFINE r == Tail(s)
<1>1. /\ Len(r) = Len(s) - 1 /\ Len(s) \in Nat /\ Len(s) > 0
      /\ \A k \in 1 .. Len(r) : r[k] = s[k + 1]
  BY TailFacts
<1>2. ParkedBefore(r, q, i) /\ i \in 1 .. Len(r) + 1
  OBVIOUS
<1> HIDE DEF r
<1>3. ASSUME NEW j \in 0 .. i - 1, \A m \in j + 1 .. i - 1 : ~Unparks(r[m]),
             NEW m \in j + 2 .. i
      PROVE  ~Unparks(s[m])
  <2>1. m - 1 \in j + 1 .. i - 1 /\ m - 1 \in 1 .. Len(r) /\ m - 1 + 1 = m
    BY <1>1, <1>2
  <2> QED
    BY <1>1, <1>3, <2>1
<1>4. CASE q /\ \A m \in 1 .. i - 1 : ~Unparks(r[m])
  <2>1. \A m \in 2 .. i : ~Unparks(s[m])
    BY <1>2, <1>3, <1>4, SMTT(30)
  <2>2. \A m \in 1 .. i + 1 - 1 : ~Unparks(s[m])
    BY <1>1, <1>2, <1>4, <2>1
  <2> QED
    BY <1>4, <2>2 DEF ParkedBefore
<1>5. ASSUME NEW j \in 1 .. i - 1, r[j].c = "M25", \A m \in j + 1 .. i - 1 : ~Unparks(r[m])
      PROVE  ParkedBefore(s, p, i + 1)
  <2>1. j + 1 \in 1 .. i + 1 - 1 /\ s[j + 1].c = "M25"
    BY <1>1, <1>2, <1>5
  <2>2. \A m \in j + 1 + 1 .. i + 1 - 1 : ~Unparks(s[m])
    BY <1>2, <1>3, <1>5
  <2> QED
    BY <2>1, <2>2 DEF ParkedBefore
<1> QED
  BY <1>2, <1>4, <1>5 DEF ParkedBefore

LEMMA ParkedAppend ==
    ASSUME NEW s \in Seq(Cmds), NEW e \in Cmds, NEW p \in BOOLEAN
    PROVE  /\ \A i \in 1 .. Len(s) + 1 :
                ParkedBefore(Append(s, e), p, i) <=> ParkedBefore(s, p, i)
           /\ Unparks(e) => ~ParkedBefore(Append(s, e), p, Len(s) + 1 + 1)
           /\ e.c # "M25" /\ ParkedBefore(Append(s, e), p, Len(s) + 1 + 1)
                => ParkedBefore(s, p, Len(s) + 1)
<1> DEFINE r == Append(s, e)
<1>1. /\ Len(s) \in Nat /\ r[Len(s) + 1] = e
      /\ \A k \in 1 .. Len(s) : r[k] = s[k]
  BY AppendFacts
<1> HIDE DEF r
<1>2. ASSUME NEW i \in 1 .. Len(s) + 1 PROVE ParkedBefore(r, p, i) <=> ParkedBefore(s, p, i)
  <2>1. \A m \in 1 .. i - 1 : r[m] = s[m]
    BY <1>1
  <2> QED
    BY <1>1, <2>1, ParkedSame
<1>3. Unparks(e) => ~ParkedBefore(r, p, Len(s) + 1 + 1)
  BY <1>1 DEF ParkedBefore, Unparks
<1>4. ASSUME e.c # "M25", ParkedBefore(r, p, Len(s) + 1 + 1)
      PROVE  ParkedBefore(s, p, Len(s) + 1)
  <2>1. ParkedBefore(r, p, Len(s) + 1)
    BY <1>1, <1>4 DEF ParkedBefore
  <2> QED
    BY <1>1, <1>2, <2>1
<1> QED
  BY <1>2, <1>3, <1>4 DEF r

LEMMA CleanNotParked == Shape /\ Clean => ~EndsParked
<1> SUFFICES ASSUME Shape, Clean PROVE ~EndsParked
  OBVIOUS
<1>1. Line \in Seq(Cmds) /\ Len(Line) \in Nat
  BY LineType
<1>2. parked => Line[1].c = "M24" /\ 1 \in 1 .. Len(Line)
  <2>1. parked => CmdBuff # << >> /\ Head(CmdBuff).c = "M24"
    BY DEF Clean, Resuming, Shape, TypeOK, HeadShape
  <2> QED
    BY <1>1, <2>1, LineHead
<1> QED
  BY <1>1, <1>2 DEF EndsParked, ParkedBefore, Clean, NoM25, Unparks

\* The predicates are about Line, parked and Resuming only.
LEMMA StillSame ==
    ASSUME Line' = Line, parked' = parked, Resuming' = Resuming
    PROVE  /\ FilesStill' = FilesStill /\ Clean' = Clean /\ EndsParked' = EndsParked
           /\ NoM24' = NoM24 /\ LastM24' = LastM24
BY DEF FilesStill, Clean, NoM25, EndsParked, NoM24, LastM24, Unhandled

LEMMA StillMain ==
    ASSUME Patient, Shape, StillInv, PrintCmdMsgHandle, ~hasty'
    PROVE  StillInv'
<1> USE DEF StillInv, PrintStill, StopStill, ResumeOnce, Passing
<1>1. Line' = Line /\ UNCHANGED <<prn, cmd>>
  BY MainLine
<1>2. parked' = parked /\ gcode' = gcode /\ NeedClearCmdQueue' = NeedClearCmdQueue
  BY DEF PrintCmdMsgHandle, Request, RequestStart
<1>3. /\ FilesStill' = FilesStill /\ Clean' = Clean /\ EndsParked' = EndsParked
      /\ NoM24' = NoM24 /\ LastM24' = LastM24
  BY <1>1, <1>2, StillSame DEF Resuming
<1>4. ASSUME NEW a \in {"PAUSE", "RESUME", "STOP", "START"}, MayRequest(a)
      PROVE  ~Passing /\ Status \in Expected[a]
  BY <1>4 DEF MayRequest
<1>5. CASE RequestStart
  <2>1. ~ManualPrintAction /\ ~PassedOn /\ Status' = "PRINTING" /\ Status = "STOP"
    BY <1>4, <1>5 DEF RequestStart, Expected
  <2>2. \A i \in 1 .. Len(Line) : Line[i].c \notin {"M24", "M25", "M524"}
    BY <2>1 DEF PassedOn
  <2>3. ~EndsParked /\ Len(Line) \in Nat
    BY <2>1, LineType
  <2>4. ~parked
    BY <2>2, <2>3 DEF EndsParked, ParkedBefore, Unparks
  <2>5. Clean /\ NoM24
    BY <2>2, <2>4 DEF Clean, NoM25, NoM24, Unhandled
  <2> QED
    BY <1>1, <1>2, <1>3, <2>1, <2>5
<1>6. CASE Request("PAUSE")
  <2>1. /\ ~ResumeAhead /\ Status \in {"PRINTING", "RESUME"} /\ Status' = "PAUSE"
        /\ ManualPrintAction' = TRUE /\ ~Passing
    BY <1>4, <1>6 DEF Request, Expected
  <2>2. NoM24
    BY <2>1 DEF ResumeAhead, NoM24
  <2>3. prn = "ended" => Clean
    OBVIOUS
  <2> QED
    BY <1>1, <1>2, <1>3, <2>1, <2>2, <2>3
<1>7. CASE Request("RESUME")
  <2>1. Status = "PAUSE" /\ Status' = "RESUME"
    BY <1>4, <1>7 DEF Request, Expected
  <2> QED
    BY <1>1, <1>2, <1>3, <2>1
<1>8. CASE Request("STOP")
  <2>1. Status' = "STOP" /\ ManualPrintAction' = TRUE /\ ~Passing
    BY <1>4, <1>8 DEF Request
  <2> QED
    BY <1>1, <1>2, <1>3, <2>1
<1> QED
  BY <1>5, <1>6, <1>7, <1>8 DEF PrintCmdMsgHandle

LEMMA StillPolls ==
    ASSUME Shape, StillInv, Polls
    PROVE  StillInv'
<1> USE DEF StillInv, PrintStill, StopStill, ResumeOnce, Passing, Polls
<1>1. Line' = Line
  BY PollsLine
<1>2. gcode' = gcode /\ NeedClearCmdQueue' = NeedClearCmdQueue
  BY DEF SetStopped, Send, Sent, StopBranch, KeepActiveCheck, KeepActiveRelease, UartNothing,
         TenMinutes, PauseBranch, ResumeBranch, StopPassOn, PassOn
<1>3. ASSUME ~KeepActiveRelease
      PROVE  /\ FilesStill' = FilesStill /\ Clean' = Clean /\ EndsParked' = EndsParked
             /\ NoM24' = NoM24 /\ LastM24' = LastM24
  <2>1. parked' = parked
    BY <1>3 DEF SetStopped, Send, Sent, StopBranch, KeepActiveCheck, UartNothing,
                TenMinutes, PauseBranch, ResumeBranch, StopPassOn, PassOn
  <2> QED
    BY <1>1, <1>2, <2>1, StillSame DEF Resuming
<1>4. CASE SetStopped
  <2>1. Status' = "STOP" /\ prn = "ended" /\ prn' = "active"
    BY <1>4 DEF SetStopped, StatusAtEnd
  <2>2. Clean /\ ~EndsParked /\ ~KeepActiveRelease
    BY <2>1, CleanNotParked DEF KeepActiveRelease
  <2> QED
    BY <1>2, <1>3, <2>1, <2>2
<1>5. CASE Send
  <2>1. ~KeepActiveRelease
    BY <1>5 DEF Send, KeepActiveRelease
  <2> QED
    BY <1>2, <1>3, <1>5, <2>1 DEF Send
<1>6. CASE Sent
  <2>1. /\ Status' = Status /\ prn = "sent" /\ prn' \in {"top", "active"}
        /\ ManualPrintAction' <=> ManualPrintAction /\ cmd.by # "user"
    BY <1>6 DEF Sent
  <2>2. ~KeepActiveRelease
    BY <2>1 DEF KeepActiveRelease
  <2> QED
    BY <1>2, <1>3, <2>1, <2>2
<1>7. CASE StopBranch
  <2>1. ~KeepActiveRelease
    BY <1>7 DEF StopBranch, KeepActiveRelease
  <2> QED
    BY <1>2, <1>3, <1>7, <2>1 DEF StopBranch
<1>8. CASE KeepActiveCheck \/ UartNothing \/ TenMinutes
           \/ (~ManualPrintAction /\ (PauseBranch \/ ResumeBranch \/ StopPassOn))
  <2>1. /\ UNCHANGED <<Status, ManualPrintAction, cmd>>
        /\ prn \notin {"send", "sent", "ended"} /\ prn' \notin {"send", "sent", "ended"}
        /\ prn' \in {"drain", "clear"} => prn' = prn
    BY <1>8 DEF KeepActiveCheck, UartNothing, TenMinutes, PauseBranch, ResumeBranch,
                StopPassOn, PassOn
  <2>2. ~KeepActiveRelease
    BY <1>8 DEF KeepActiveCheck, UartNothing, TenMinutes, PauseBranch, ResumeBranch,
                StopPassOn, PassOn, KeepActiveRelease
  <2> QED
    BY <1>2, <1>3, <2>1, <2>2
<1>9. CASE KeepActiveRelease
  <2>1. /\ UNCHANGED <<Status, ManualPrintAction, cmd>>
        /\ prn = "release" /\ prn' = "uart" /\ parked' = FALSE
    BY <1>9 DEF KeepActiveRelease
  <2>2. Resuming' = Resuming
    BY <1>2 DEF Resuming
  <2>3. FilesStill' /\ (Clean => Clean') /\ (EndsParked' => EndsParked)
    BY <1>1, <2>1, <2>2 DEF FilesStill, Clean, NoM25, EndsParked, ParkedBefore
  <2>4. NoM24' = NoM24 /\ LastM24' = LastM24
    BY <1>1, <2>2 DEF NoM24, LastM24, Unhandled
  <2> QED
    BY <1>2, <2>1, <2>3, <2>4
<1> HIDE DEF StillInv, PrintStill, StopStill, ResumeOnce, Passing, Polls
<1> QED
  BY <1>4, <1>5, <1>6, <1>7, <1>8, <1>9, Zenon DEF Polls

\* What appending a command to Line does to the predicates.
LEMMA StillAppend ==
    ASSUME Shape, NEW e \in Cmds, Line' = Append(Line, e), UNCHANGED <<parked, gcode>>
    PROVE  /\ Len(Line') = Len(Line) + 1 /\ Len(Line) \in Nat
           /\ FilesStill /\ (e.by = "file" => e.c # "M25" /\ ~EndsParked) => FilesStill'
           /\ e.c # "M25" /\ Clean => Clean'
           /\ e.c # "M25" /\ ~EndsParked => ~EndsParked'
           /\ Unparks(e) => ~EndsParked'
           /\ e.c # "M24" /\ NoM24 => NoM24'
           /\ NoM24 \/ e.c \notin {"M24", "M25"} => (LastM24 => LastM24')
<1>1. Line \in Seq(Cmds) /\ Len(Line) \in Nat /\ parked \in BOOLEAN
  BY LineType DEF Shape, TypeOK
<1>2. /\ Len(Line') = Len(Line) + 1 /\ Line'[Len(Line) + 1] = e
      /\ \A i \in 1 .. Len(Line) : Line'[i] = Line[i]
  BY <1>1, AppendFacts
<1>3. /\ \A i \in 1 .. Len(Line) + 1 :
           ParkedBefore(Line', parked', i) <=> ParkedBefore(Line, parked, i)
      /\ Unparks(e) => ~ParkedBefore(Line', parked', Len(Line) + 1 + 1)
      /\ e.c # "M25" /\ ParkedBefore(Line', parked', Len(Line) + 1 + 1)
           => ParkedBefore(Line, parked, Len(Line) + 1)
  BY <1>1, ParkedAppend
<1>4. EndsParked' <=> ParkedBefore(Line', parked', Len(Line) + 1 + 1)
  BY <1>2 DEF EndsParked
<1>5. EndsParked <=> ParkedBefore(Line', parked', Len(Line) + 1)
  BY <1>1, <1>3 DEF EndsParked
<1>6. ASSUME FilesStill, e.by = "file" => e.c # "M25" /\ ~EndsParked PROVE FilesStill'
  <2> SUFFICES ASSUME NEW i \in 1 .. Len(Line'), FromFile(Line', i)
               PROVE  Line'[i].c # "M25" /\ ~ParkedBefore(Line', parked', i)
    BY DEF FilesStill
  <2>1. CASE i \in 1 .. Len(Line)
    BY <1>1, <1>2, <1>3, <1>6, <2>1 DEF FilesStill, FromFile
  <2>2. CASE i = Len(Line) + 1
    BY <1>2, <1>5, <1>6, <2>2 DEF FromFile
  <2> QED
    BY <1>1, <1>2, <2>1, <2>2
<1>7. e.c # "M25" /\ Clean => Clean'
  BY <1>1, <1>2 DEF Clean, NoM25, Resuming
<1>8. ASSUME NEW i \in 1 .. Len(Line) PROVE Unhandled(i)' = Unhandled(i)
  BY <1>2 DEF Unhandled, Resuming
<1>9. ASSUME NEW i, i = Len(Line) + 1, e.c # "M24" PROVE ~Unhandled(i)'
  BY <1>2, <1>9 DEF Unhandled
<1>10. e.c # "M24" /\ NoM24 => NoM24'
  BY <1>1, <1>2, <1>8, <1>9 DEF NoM24
<1>11. ASSUME NoM24 \/ e.c \notin {"M24", "M25"}, LastM24 PROVE LastM24'
  <2> SUFFICES ASSUME NEW i \in 1 .. Len(Line'), NEW j \in 1 .. Len(Line'),
                      Unhandled(i)', i < j
               PROVE  Line'[j].c \notin {"M24", "M25"}
    BY DEF LastM24
  <2>1. i \in 1 .. Len(Line) /\ Unhandled(i)
    BY <1>1, <1>2, <1>8
  <2>2. CASE j \in 1 .. Len(Line)
    BY <1>2, <1>11, <2>1, <2>2 DEF LastM24
  <2>3. CASE j = Len(Line) + 1
    BY <1>2, <1>11, <2>1, <2>3 DEF NoM24
  <2> QED
    BY <1>1, <1>2, <2>2, <2>3
<1> QED
  BY <1>1, <1>2, <1>3, <1>4, <1>5, <1>6, <1>7, <1>10, <1>11 DEF EndsParked

LEMMA StillAdds ==
    ASSUME UartCmds \cap {"M24", "M25"} = {}, Shape, StillInv, Adds
    PROVE  StillInv'
<1> USE DEF StillInv, PrintStill, StopStill, ResumeOnce, Passing
<1>1. /\ Line' = Append(Line, cmd') /\ cmd' \in Cmds /\ cmd'.by # "file"
      /\ prn' = "send"
  BY AddsLine
<1>2. UNCHANGED <<parked, gcode, Status, ManualPrintAction, NeedClearCmdQueue>>
  BY DEF Adds, UartCmd, PauseBranch, ResumeBranch, StopPassOn, PassOn
<1>3. /\ FilesStill => FilesStill'
      /\ cmd'.c # "M25" /\ Clean => Clean'
      /\ cmd'.c # "M25" /\ ~EndsParked => ~EndsParked'
      /\ Unparks(cmd') => ~EndsParked'
      /\ cmd'.c # "M24" /\ NoM24 => NoM24'
      /\ NoM24 \/ cmd'.c \notin {"M24", "M25"} => (LastM24 => LastM24')
  BY <1>1, <1>2, StillAppend
<1>4. ASSUME NEW c \in UartCmds, UartCmd(c) PROVE StillInv'
  <2>1. cmd'.c \notin {"M24", "M25"} /\ cmd'.by = "uart" /\ prn = "uart"
    BY <1>4 DEF UartCmd, Cmd
  <2> QED
    BY <1>1, <1>2, <1>3, <2>1
<1>5. CASE ManualPrintAction /\ PauseBranch
  <2>1. cmd'.c = "M25" /\ Status = "PAUSE"
    BY <1>5 DEF PauseBranch, PassOn, Cmd
  <2> QED
    BY <1>1, <1>2, <1>3, <2>1
<1>6. CASE ManualPrintAction /\ ResumeBranch
  <2>1. cmd'.c = "M24" /\ cmd'.by = "user" /\ Status = "RESUME" /\ prn = "top"
    BY <1>6 DEF ResumeBranch, PassOn, Cmd
  <2> QED
    BY <1>1, <1>2, <1>3, <1>6, <2>1
<1>7. CASE ManualPrintAction /\ StopPassOn
  <2>1. cmd'.c = "M524" /\ cmd'.by = "user" /\ prn = "stop"
    BY <1>7 DEF StopPassOn, PassOn, Cmd
  <2>2. ~NeedClearCmdQueue
    BY <2>1 DEF Shape, ClearShape
  <2> QED
    BY <1>1, <1>2, <1>3, <2>1, <2>2 DEF Unparks
<1> QED
  BY <1>4, <1>5, <1>6, <1>7 DEF Adds

LEMMA StillRead ==
    ASSUME Shape, StillInv, ReadCmd \/ ReadEnd \/ ReadError
    PROVE  StillInv'
<1> USE DEF StillInv, PrintStill, StopStill, ResumeOnce, Passing
<1>1. Status = "PRINTING" /\ UNCHANGED <<parked, gcode, Status, ManualPrintAction>>
  BY DEF ReadCmd, ReadEnd, ReadError, Feeds
<1>2. Clean /\ ~EndsParked /\ NoM24
  BY <1>1, CleanNotParked
<1>3. CASE Line' = Line
  <2>1. FilesStill' = FilesStill /\ Clean' = Clean /\ NoM24' = NoM24 /\ LastM24' = LastM24
    BY <1>1, <1>3, StillSame DEF Resuming
  <2> QED
    BY <1>1, <1>2, <2>1
<1>4. ASSUME ReadCmd, Line' # Line PROVE StillInv'
  <2>1. /\ FilePos + 1 \in 1 .. Len(File) /\ File[FilePos + 1] # "M108"
        /\ cmd' = Cmd(File[FilePos + 1], "file", FilePos + 1)
        /\ cmd' \in Cmds /\ Line' = Append(Line, cmd')
    BY <1>4, ReadLine
  <2>2. cmd'.c \notin {"M24", "M25"}
    BY <2>1, FileAssumption DEF Cmd
  <2>3. /\ FilesStill /\ (cmd'.by = "file" => cmd'.c # "M25" /\ ~EndsParked) => FilesStill'
        /\ cmd'.c # "M25" /\ Clean => Clean'
        /\ cmd'.c # "M24" /\ NoM24 => NoM24'
        /\ NoM24 \/ cmd'.c \notin {"M24", "M25"} => (LastM24 => LastM24')
    BY <1>1, <2>1, StillAppend
  <2> QED
    BY <1>1, <1>2, <2>2, <2>3
<1>5. ReadEnd \/ ReadError => Line' = Line
  BY LineKept DEF ReadEnd, ReadError
<1> QED
  BY <1>3, <1>4, <1>5

LEMMA StillClear ==
    ASSUME Shape, Shape', StillInv, DrainQueue \/ ClearRing
    PROVE  StillInv'
<1> USE DEF StillInv, PrintStill, StopStill, ResumeOnce, Passing
<1>1. /\ UNCHANGED <<parked, gcode, Status, ManualPrintAction>>
      /\ prn \in {"drain", "clear"} /\ prn' \in {"clear", "stop"}
  BY DEF DrainQueue, ClearRing
<1>2. Line \in Seq(Cmds) /\ Len(Line) \in Nat /\ Line' \in Seq(Cmds) /\ Len(Line') \in Nat
  <2>1. CASE DrainQueue
    BY <2>1, LineType, LineDrained
  <2>2. CASE ClearRing
    BY <2>2, LineType, LineCleared
  <2> QED
    BY <2>1, <2>2
<1>3. Len(Line') <= Len(Line) /\ \A i \in 1 .. Len(Line') : Line'[i] = Line[i]
  BY <1>2, LineDrained, LineCleared
<1>4. FilesStill'
  <2> SUFFICES ASSUME NEW i \in 1 .. Len(Line'), FromFile(Line', i)
               PROVE  Line'[i].c # "M25" /\ ~ParkedBefore(Line', parked', i)
    BY DEF FilesStill
  <2>1. \A m \in 1 .. i - 1 : Line[m] = Line'[m]
    BY <1>2, <1>3
  <2>2. ParkedBefore(Line, parked, i) <=> ParkedBefore(Line', parked, i)
    BY <1>2, <2>1, ParkedSame
  <2> QED
    BY <1>1, <1>2, <1>3, <2>2 DEF FilesStill, FromFile
<1>5. Clean => Clean'
  BY <1>1, <1>2, <1>3 DEF Clean, NoM25, Resuming
<1>6. NoM24 => NoM24'
  BY <1>1, <1>2, <1>3 DEF NoM24, Unhandled, Resuming
<1>7. LastM24'
  <2> SUFFICES ASSUME NEW i \in 1 .. Len(Line'), NEW j \in 1 .. Len(Line'), Unhandled(i)', i < j
               PROVE  Line'[j].c \notin {"M24", "M25"}
    BY DEF LastM24
  <2>1. i \in 1 .. Len(Line) /\ j \in 1 .. Len(Line) /\ Unhandled(i)
    BY <1>1, <1>2, <1>3 DEF Unhandled, Resuming
  <2> QED
    BY <1>3, <2>1 DEF LastM24
<1>8. (Shape /\ Clean => ~EndsParked)'
  BY CleanNotParked, PTL
<1> QED
  BY <1>1, <1>4, <1>5, <1>6, <1>7, <1>8

\* The steps of the G-code thread that do not end a command.
LEMMA StillWorks ==
    ASSUME Shape, Shape', StillInv, Steps, Line' = Line, ~Done
    PROVE  StillInv'
<1> USE DEF StillInv, PrintStill, StopStill, ResumeOnce, Passing
<1>1. UNCHANGED <<prn, cmd, ManualPrintAction, NeedClearCmdQueue>>
  BY ExecLine
<1>2. Line \in Seq(Cmds) /\ Len(Line) \in Nat
  BY LineType
<1>3. CASE RecvMsg \/ StartWaiting \/ M24Recover \/ \E c \in {"heat", "bed"} : HeatSet(c)
  <2>1. parked' = parked /\ Resuming' = Resuming /\ Status' = Status
    BY <1>3 DEF RecvMsg, StartWaiting, M24Recover, HeatSet, Begins, Resuming
  <2>2. /\ FilesStill' = FilesStill /\ Clean' = Clean /\ EndsParked' = EndsParked
        /\ NoM24' = NoM24 /\ LastM24' = LastM24
    BY <2>1, StillSame
  <2> QED
    BY <1>1, <2>1, <2>2
<1>4. ASSUME NEW c \in {"M25", "M24", "M524"}, Begins(c)
      PROVE  Line[1].c = c /\ 1 \in 1 .. Len(Line) /\ ~Resuming
  BY <1>2, <1>4, LineHead DEF Begins, Resuming
<1>5. CASE M25Motion
  <2>1. parked' = TRUE /\ ~Resuming' /\ ~Resuming /\ Line[1].c = "M25" /\ Status' = Status
    BY <1>4, <1>5 DEF M25Motion, Resuming
  <2>2. ~Clean
    BY <1>4, <1>5 DEF M25Motion, Clean, NoM25
  <2>3. ASSUME NEW i \in 2 .. Len(Line) + 1, ParkedBefore(Line, TRUE, i)
        PROVE  ParkedBefore(Line, parked, i)
    <3>1. 1 \in 1 .. i - 1 /\ \A m \in 1 + 1 .. i - 1 : m \in 1 .. i - 1
      BY <1>2
    <3> QED
      BY <2>1, <2>3, <3>1 DEF ParkedBefore
  <2>4. FilesStill'
    <3> SUFFICES ASSUME NEW i \in 1 .. Len(Line), FromFile(Line, i)
                 PROVE  Line[i].c # "M25" /\ ~ParkedBefore(Line, TRUE, i)
      BY <2>1 DEF FilesStill
    <3>1. Line[i].c # "M25" /\ ~ParkedBefore(Line, parked, i)
      BY DEF FilesStill
    <3>2. i \in 2 .. Len(Line) + 1
      BY <1>2, <2>1, <3>1
    <3> QED
      BY <2>3, <3>1, <3>2
  <2>5. EndsParked' => EndsParked
    <3>1. Len(Line) + 1 \in 2 .. Len(Line) + 1
      BY <1>2, <1>4, <1>5 DEF M25Motion
    <3> QED
      BY <2>1, <2>3, <3>1 DEF EndsParked
  <2>6. NoM24' = NoM24 /\ LastM24' = LastM24
    BY <2>1 DEF NoM24, LastM24, Unhandled
  <2> QED
    BY <1>1, <2>1, <2>2, <2>4, <2>5, <2>6
<1>6. CASE M524Motion
  <2>1. parked' = FALSE /\ ~Resuming' /\ ~Resuming /\ Status' = Status
    BY <1>4, <1>6 DEF M524Motion, Resuming
  <2>2. FilesStill' /\ (Clean => Clean') /\ (EndsParked' => EndsParked)
    BY <2>1 DEF FilesStill, Clean, NoM25, EndsParked, ParkedBefore
  <2>3. NoM24' = NoM24 /\ LastM24' = LastM24
    BY <2>1 DEF NoM24, LastM24, Unhandled
  <2> QED
    BY <1>1, <2>1, <2>2, <2>3
<1>7. CASE M24ResumeHandle
  <2>1. parked' = parked /\ Resuming' /\ ~Resuming /\ Line[1].c = "M24" /\ Status' = "PRINTING"
    BY <1>4, <1>7 DEF M24ResumeHandle, Resuming
  <2>2. ASSUME NEW j \in 1 .. Len(Line), j # 1 PROVE Line[j].c \notin {"M24", "M25"}
    BY <1>2, <2>1, <2>2 DEF LastM24, Unhandled
  <2>3. Clean'
    BY <2>1, <2>2 DEF Clean, NoM25
  <2>4. NoM24' /\ LastM24'
    BY <2>1, <2>2 DEF NoM24, LastM24, Unhandled
  <2>5. FilesStill'
    BY <2>1 DEF FilesStill
  <2> QED
    BY <2>1, <2>3, <2>4, <2>5
<1>8. ~(Move \/ HeatReached \/ HeatBroken \/ M25PauseHandle \/ M24Motion \/ M524StopHandle)
  BY DEF Move, HeatReached, HeatBroken, M25PauseHandle, M24Motion, M524StopHandle
<1> HIDE DEF StillInv, PrintStill, StopStill, ResumeOnce, Passing
<1> QED
  BY <1>3, <1>5, <1>6, <1>7, <1>8 DEF Steps, Exec

\* The steps that end one.
LEMMA StillDone ==
    ASSUME Shape, Shape', StillInv, Steps, Done,
           Line' = Tail(Line), Line # << >>, Line[1] = Head(CmdBuff)
    PROVE  StillInv'
<1> USE DEF StillInv, PrintStill, StopStill, ResumeOnce, Passing
<1>1. UNCHANGED <<prn, cmd, ManualPrintAction, NeedClearCmdQueue>>
  BY ExecLine
<1>2. /\ Line \in Seq(Cmds) /\ Len(Line) \in Nat /\ Len(Line') = Len(Line) - 1
      /\ Len(Line) > 0 /\ \A i \in 1 .. Len(Line') : Line'[i] = Line[i + 1]
  BY LineType, TailFacts
<1>3. /\ parked \in BOOLEAN /\ parked' \in BOOLEAN
      /\ parked' => parked /\ ~Unparks(Line[1]) /\ ~Resuming
      /\ ~Resuming' /\ Status' = Status
  <2>1. Move \/ HeatReached \/ HeatBroken \/ M25PauseHandle \/ M24Motion \/ M524StopHandle
    BY DEF Steps, Exec, Done, RecvMsg, StartWaiting, HeatSet, M25Motion, M24ResumeHandle,
           M24Recover, M524Motion
  <2>2. ~Resuming' /\ Status' = Status
    BY <2>1 DEF Done, Resuming, Move, HeatReached, HeatBroken, M25PauseHandle, M24Motion,
                M524StopHandle
  <2>3. Move => (parked' => parked /\ ~Unparks(Line[1]) /\ ~Resuming)
    BY DEF Move, Begins, Unparks, Resuming
  <2>4. (HeatReached \/ HeatBroken) => (parked' => parked /\ ~Unparks(Line[1]) /\ ~Resuming)
    BY DEF HeatReached, HeatBroken, Unparks, Resuming, Shape, HeadShape
  <2>5. M25PauseHandle => (parked' => parked /\ ~Unparks(Line[1]) /\ ~Resuming)
    BY DEF M25PauseHandle, Unparks, Resuming, Shape, HeadShape
  <2>6. M24Motion => (parked' => parked /\ ~Unparks(Line[1]) /\ ~Resuming)
    BY DEF M24Motion
  <2>7. M524StopHandle => (parked' => parked /\ ~Unparks(Line[1]) /\ ~Resuming)
    BY DEF M524StopHandle, Shape, HeadShape
  <2>8. parked \in BOOLEAN /\ parked' \in BOOLEAN
    BY DEF Shape, TypeOK
  <2> QED
    BY <2>1, <2>2, <2>3, <2>4, <2>5, <2>6, <2>7, <2>8
<1>4. ASSUME NEW i \in 1 .. Len(Line') + 1, ParkedBefore(Line', parked', i)
      PROVE  ParkedBefore(Line, parked, i + 1)
  BY <1>2, <1>3, <1>4, ParkedTail
<1>5. FilesStill'
  <2> SUFFICES ASSUME NEW i \in 1 .. Len(Line'), FromFile(Line', i)
               PROVE  Line'[i].c # "M25" /\ ~ParkedBefore(Line', parked', i)
    BY DEF FilesStill
  <2>1. /\ i + 1 \in 1 .. Len(Line) /\ FromFile(Line, i + 1) /\ Line'[i] = Line[i + 1]
        /\ i \in 1 .. Len(Line') + 1
    BY <1>2 DEF FromFile
  <2> QED
    BY <1>4, <2>1 DEF FilesStill
<1>6. EndsParked' => EndsParked
  <2>1. Len(Line') + 1 \in 1 .. Len(Line') + 1 /\ Len(Line') + 1 + 1 = Len(Line) + 1
    BY <1>2
  <2> QED
    BY <1>4, <2>1 DEF EndsParked
<1>7. Clean => Clean'
  BY <1>2, <1>3 DEF Clean, NoM25
<1>8. ASSUME NEW i \in 1 .. Len(Line'), Unhandled(i)' PROVE Unhandled(i + 1)
  BY <1>2, <1>8 DEF Unhandled
<1>9. NoM24 => NoM24'
  BY <1>2, <1>8 DEF NoM24
<1>10. LastM24'
  <2> SUFFICES ASSUME NEW i \in 1 .. Len(Line'), NEW j \in 1 .. Len(Line'), Unhandled(i)', i < j
               PROVE  Line'[j].c \notin {"M24", "M25"}
    BY DEF LastM24
  <2>1. /\ i + 1 \in 1 .. Len(Line) /\ j + 1 \in 1 .. Len(Line) /\ i + 1 < j + 1
        /\ Line'[j] = Line[j + 1]
    BY <1>2
  <2>2. Unhandled(i + 1)
    BY <1>8
  <2> QED
    BY <2>1, <2>2 DEF LastM24
<1> QED
  BY <1>1, <1>3, <1>5, <1>6, <1>7, <1>9, <1>10

LEMMA PauseNext ==
    ASSUME Patient, UartCmds \cap {"M24", "M25"} = {}, PauseInv, [Next]_vars
    PROVE  PauseInv'
<1>1. Shape /\ Shape'
  BY ShapeNext DEF PauseInv
<1> SUFFICES ASSUME ~hasty' PROVE StillInv'
  BY <1>1 DEF PauseInv
<1>2. ~hasty
  BY DEF Next, PrintCmdMsgHandle, RequestStart, Request, ThreadHandle, ReadCmd, ReadEnd,
         ReadError, SetStopped, Send, Sent, PauseBranch, ResumeBranch, StopPassOn, PassOn,
         StopBranch, DrainQueue, ClearRing, KeepActiveCheck, KeepActiveRelease,
         UartNothing, UartCmd, TenMinutes, Steps, Exec, RecvMsg, Move, StartWaiting,
         HeatReached, HeatBroken, HeatSet, M25Motion,
         M25PauseHandle, M24ResumeHandle, M24Recover, M24Motion, M524Motion, M524StopHandle,
         PrinterUnchanged, userVars, vars
<1>3. StillInv
  BY <1>2 DEF PauseInv
<1>4. CASE PrintCmdMsgHandle
  BY <1>1, <1>3, <1>4, StillMain
<1>5. CASE ThreadHandle \/ TenMinutes
  <2>1. ManualPrintAction \in BOOLEAN
    BY <1>1 DEF Shape, TypeOK
  <2> QED
    BY <1>1, <1>3, <1>5, <2>1, ThreadCases, StillPolls, StillAdds, StillRead, StillClear
<1>6. CASE Steps
  <2>1. CASE Done
    <3>1. CmdBuff # << >>
      BY <1>1, <1>6, <2>1 DEF Steps, Exec, Done, RecvMsg, Move, Begins, StartWaiting, HeatReached,
         HeatBroken, HeatSet, M25Motion, M25PauseHandle, M24ResumeHandle, M24Recover,
         M24Motion, M524Motion, M524StopHandle, Shape, TypeOK
    <3>2. UNCHANGED <<prn, cmd, CmdQueue>>
      BY <1>6, <2>1 DEF Steps, Exec, Done, RecvMsg, Move, StartWaiting, HeatReached, HeatBroken,
         HeatSet, M25Motion, M25PauseHandle, M24ResumeHandle, M24Recover, M24Motion,
         M524Motion, M524StopHandle, PrinterUnchanged
    <3> QED
      BY <1>1, <1>3, <1>6, <2>1, <3>1, <3>2, LineDone, StillDone
  <2>2. CASE ~Done
    BY <1>1, <1>3, <1>6, <2>2, ExecLine, StillWorks
  <2> QED
    BY <2>1, <2>2
<1>7. CASE UNCHANGED vars
  <2>1. /\ Line' = Line /\ parked' = parked /\ Resuming' = Resuming
        /\ UNCHANGED <<Status, ManualPrintAction, prn, cmd, NeedClearCmdQueue>>
    BY <1>7, LineKept DEF vars, queues, Resuming
  <2>2. /\ FilesStill' = FilesStill /\ Clean' = Clean /\ EndsParked' = EndsParked
        /\ NoM24' = NoM24 /\ LastM24' = LastM24
    BY <2>1, StillSame
  <2> QED
    BY <1>3, <2>1, <2>2 DEF StillInv, PrintStill, StopStill, ResumeOnce, Passing
<1> QED
  BY <1>4, <1>5, <1>6, <1>7 DEF Next, Steps

\* No command of the file is executed while the head is parked, whatever was
\* being read, sent or queued when the pause came, if no request comes while the
\* printer thread passes one on and no M24 or M25 comes by the serial port.  What
\* hasty excludes is in the property itself: prints started with a request, an
\* M24, an M25 or an M524 of the last one pending, pauses with an M24 on its way.
THEOREM PausedPrintIsStill ==
    ASSUME Patient, UartCmds \cap {"M24", "M25"} = {}
    PROVE  Spec => PausedMeansStill
<1> DEFINE Step == last' # last /\ ~hasty => ~parked
<1>1. Init => PauseInv
  <2> SUFFICES ASSUME Init PROVE PauseInv
    OBVIOUS
  <2>1. Line = << >> /\ Len(Line) = 0 /\ ~parked /\ ~ManualPrintAction
    BY DEF Init, Line, Sending
  <2>2. Clean /\ NoM24 /\ LastM24 /\ FilesStill /\ ~EndsParked
    BY <2>1 DEF Clean, NoM25, NoM24, LastM24, FilesStill, EndsParked, ParkedBefore
  <2> QED
    BY <2>2, ShapeInit DEF PauseInv, StillInv, PrintStill, StopStill, ResumeOnce
<1>2. PauseInv /\ [Next]_vars => PauseInv'
  BY PauseNext
<1>3. PauseInv /\ [Next]_vars => [Step]_vars
  <2> SUFFICES ASSUME PauseInv, [Next]_vars, last' # last, ~hasty PROVE ~parked
    OBVIOUS
  <2>1. Shape /\ FilesStill
    BY DEF PauseInv, StillInv
  <2>2. Steps
    <3>1. ManualPrintAction \in BOOLEAN
      BY <2>1 DEF Shape, TypeOK
    <3>2. PrintCmdMsgHandle => last' = last
      BY MainLine
    <3>3. ThreadHandle \/ TenMinutes => last' = last
      BY <2>1, <3>1, ThreadCases, PollsLine, AddsLine, ReadLine
         DEF ReadEnd, ReadError, DrainQueue, ClearRing
    <3>4. UNCHANGED vars => last' = last
      BY DEF vars
    <3> QED
      BY <3>2, <3>3, <3>4 DEF Next, Steps
  <2>3. Done /\ Line # << >> /\ Line[1] = Head(CmdBuff)
    BY <2>1, <2>2, ExecLine
  <2>4. FromFile(Line, 1) /\ 1 \in 1 .. Len(Line)
    BY <2>1, <2>3, LineType, TailFacts DEF Done, FromFile
  <2>5. ~ParkedBefore(Line, parked, 1)
    BY <2>1, <2>4 DEF FilesStill
  <2> QED
    BY <2>5 DEF ParkedBefore
<1> QED
  BY <1>1, <1>2, <1>3, PTL DEF Spec, PausedMeansStill
=============================================================================
