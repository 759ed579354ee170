------------------------------ MODULE Printer ------------------------------
(***************************************************************************)
(* CrPrinter (CrModel/CrPrinter.cpp) with the threads it works with: the   *)
(* printer thread reads the file and the serial port and feeds the G-code  *)
(* thread, which executes the commands one after the other; the main       *)
(* thread turns the requests of the user into a status and a flag, which   *)
(* the printer thread polls.                                               *)
(*                                                                         *)
(* The main thread has the higher priority, so the handler of a request is *)
(* one step.  The other two threads have equal priority and interleave.    *)
(* CmdQueue and CmdBuff are sequences, and a clear resets the ring in one  *)
(* step between two commands (GcodeQueue takes both apart).                *)
(*                                                                         *)
(* Abstracted: a target temperature is on or off; reading the status for   *)
(* each branch of ThreadHandle anew can only skip a round and is one read; *)
(* a branch reads the status and the flag in one step; StopPrint and       *)
(* PauseHandle set both heaters in one step; print times, progress and the *)
(* report of them are left out.                                            *)
(***************************************************************************)
EXTENDS Integers, Sequences

CONSTANTS
    File,          \* the commands of the file: "move", "heat", "bed" or "M108"
    UartCmds,      \* commands that may arrive on the serial port
    Faults,        \* what may fail: a subset of {"open", "read"}
    QUEUE_MAX_MSG, QUEUE_MSG_NUM,  \* lengths of CmdQueue and CmdBuff
    Patient,       \* no request comes while the printer thread passes one on
    SlowCmds,      \* a command may take longer than KeepActiveTime
    MaxRequests, MaxUart           \* bounds: requests, serial commands

ASSUME FileAssumption == File \in Seq({"move", "heat", "bed", "M108"})
ASSUME QueueAssumption == QUEUE_MAX_MSG \in Nat \ {0} /\ QUEUE_MSG_NUM \in Nat \ {0}

VARIABLES
    Status,              \* PrintStatus_t
    ManualPrintAction,
    FilePos,             \* commands read since the file was opened
    NeedClearCmdQueue, KeepActive,   \* locals of ThreadHandle
    prn,                 \* where the printer thread is
    cmd,                 \* the command it is sending
    longIdle,            \* more than KeepActiveTime since LastCmdParse
    CmdQueue, CmdBuff,
    gcode,               \* where the G-code thread is
    Waiting,
    target,              \* TargetTemper of the two heaters: on or not
    saved,               \* NozzleTemp, BedTemp
    parked,              \* MotionPause was executed and no MotionResume since
    last,                \* number in the file of the last command executed
    cleared,             \* a clear was made since that command
    stopped,             \* a stop was requested, and no read error or serial command since
    hasty,               \* a request came before an earlier one was carried out
    requests, uarts      \* how many requests and serial commands there were

userVars == <<requests, uarts, hasty>>
queues == <<CmdQueue, CmdBuff>>
heat == <<target, saved>>
vars == <<Status, ManualPrintAction, FilePos, NeedClearCmdQueue, KeepActive, prn, cmd,
          longIdle, CmdQueue, CmdBuff, gcode, Waiting, target, saved, parked, last,
          cleared, stopped, hasty, requests, uarts>>

Heaters == {"nozzle", "bed"}
AllOff == [h \in Heaters |-> FALSE]

\* A command: what it is, who sent it, and its number in the file, or 0.
Cmd(c, by, n) == [c |-> c, by |-> by, n |-> n]
NoCmd == Cmd("none", "nobody", 0)

Init ==
    /\ Status = "STOP" /\ ManualPrintAction = FALSE
    /\ FilePos = 0
    /\ NeedClearCmdQueue = FALSE /\ KeepActive = FALSE
    /\ prn = "top" /\ cmd = NoCmd /\ longIdle = FALSE
    /\ CmdQueue = << >> /\ CmdBuff = << >>
    /\ gcode = "idle" /\ Waiting = FALSE
    /\ target = AllOff /\ saved = AllOff
    /\ parked = FALSE
    /\ last = 0 /\ cleared = FALSE /\ stopped = FALSE
    /\ hasty = FALSE /\ requests = 0 /\ uarts = 0

(***************************************************************************)
(* PrintCmdMsgHandle on the main thread.  It takes any request; the menu   *)
(* shows the items that go with the status.                                *)
(***************************************************************************)
Expected == [PAUSE |-> {"PRINTING", "RESUME"}, RESUME |-> {"PAUSE"},
             STOP |-> {"PRINTING", "PAUSE", "RESUME"}, START |-> {"STOP"}]

\* Patient: from the tests of a branch to its FinishPrintManualAction.
MayRequest(a) ==
    /\ requests < MaxRequests
    /\ Status \in Expected[a]
    /\ Patient => cmd.by # "user"

\* The commands on their way, the oldest first: the ring, the queue and the one
\* the printer thread is about to send.
Sending == IF prn = "send" THEN <<cmd>> ELSE << >>
Line == CmdBuff \o CmdQueue \o Sending

\* There is a command on its way by which a request is passed on.
PassedOn == \E i \in 1 .. Len(Line) : Line[i].c \in {"M24", "M25", "M524"}

\* An M24 is on its way that has not set the status yet.
Resuming == gcode \in {"recover", "resuming"}
Unhandled(i) == Line[i].c = "M24" /\ ~(i = 1 /\ Resuming)
ResumeAhead == \E i \in 1 .. Len(Line) : Unhandled(i)

\* Mutant of StopWaiting: a heater that is waited for is waited for further.
WaitFurther == Waiting' = Waiting
StopWaiting == Waiting' = FALSE

Request(a) ==
    /\ a # "START"
    /\ MayRequest(a)
    /\ Status' = a
    /\ ManualPrintAction' = TRUE
    /\ StopWaiting
    /\ hasty' = (hasty \/ (a = "PAUSE" /\ ResumeAhead))
    /\ stopped' = IF a = "STOP" THEN TRUE ELSE stopped
    /\ requests' = requests + 1
    /\ UNCHANGED <<FilePos, NeedClearCmdQueue, KeepActive, prn, cmd, longIdle, queues,
                   gcode, heat, parked, last, cleared, uarts>>

RequestStart ==
    /\ MayRequest("START")
    /\ Status' = "PRINTING"
    /\ StopWaiting
    /\ hasty' = (hasty \/ ManualPrintAction \/ PassedOn)
    /\ requests' = requests + 1
    /\ UNCHANGED <<ManualPrintAction, FilePos, NeedClearCmdQueue, KeepActive, prn, cmd,
                   longIdle, queues, gcode, heat, parked, last, cleared, stopped, uarts>>

PrintCmdMsgHandle == RequestStart \/ \E a \in {"PAUSE", "RESUME", "STOP"} : Request(a)

(***************************************************************************)
(* ThreadHandle, branch PRINTING: ReadCmdFromFile and what follows.        *)
(***************************************************************************)
\* Mutant of Feeds: the file is fed on once a pause was passed on.
FeedsPaused == Status = "PRINTING" \/ (Status = "PAUSE" /\ ~ManualPrintAction)
Feeds == Status = "PRINTING"

ReadCmd ==
    LET n == FilePos + 1
    IN  /\ prn = "top"
        /\ Feeds
        /\ n <= Len(File)
        /\ NeedClearCmdQueue' = TRUE
        /\ FilePos' = n
        /\ IF File[n] = "M108"
             THEN Waiting' = FALSE /\ prn' = "active" /\ cmd' = cmd
             ELSE Waiting' = Waiting /\ prn' = "send" /\ cmd' = Cmd(File[n], "file", n)
        /\ UNCHANGED <<Status, ManualPrintAction, KeepActive, longIdle, queues, gcode,
                       heat, parked, last, cleared, stopped, userVars>>

\* Mutant of AfterStopPrint: StopPrint leaves the heaters alone.
AfterStopPrintOn == target
AfterStopPrint == AllOff

\* The file is at its end, or it cannot be opened: StopPrint.
ReadEnd ==
    /\ prn = "top"
    /\ Feeds
    /\ FilePos = Len(File) \/ (FilePos = 0 /\ "open" \in Faults)
    /\ NeedClearCmdQueue' = TRUE
    /\ FilePos' = 0
    /\ target' = AfterStopPrint
    /\ prn' = "ended"
    /\ UNCHANGED <<Status, ManualPrintAction, KeepActive, cmd, longIdle, queues, gcode,
                   Waiting, saved, parked, last, cleared, stopped, userVars>>

ReadError ==
    /\ prn = "top"
    /\ Feeds
    /\ "read" \in Faults
    /\ NeedClearCmdQueue' = TRUE
    /\ FilePos' = 0
    /\ prn' = "ended"
    /\ UNCHANGED <<Status, ManualPrintAction, KeepActive, cmd, longIdle, queues, gcode,
                   Waiting, heat, parked, last, cleared, stopped, userVars>>

\* Mutant of StatusAtEnd: the end of the file does not stop the print.
StatusAtEndKept == Status
StatusAtEnd == "STOP"

SetStopped ==
    /\ prn = "ended"
    /\ Status' = StatusAtEnd
    /\ stopped' = FALSE
    /\ prn' = "active"
    /\ UNCHANGED <<ManualPrintAction, FilePos, NeedClearCmdQueue, KeepActive, cmd,
                   longIdle, queues, gcode, Waiting, heat, parked, last, cleared,
                   userVars>>

(***************************************************************************)
(* PutGcodeCmd, and what ThreadHandle does after it returned.              *)
(***************************************************************************)
\* Mutants of SendMsg: the queue has no bound; a full queue loses the command
\* instead of refusing it.
SendMsgUnbounded == CmdQueue' = Append(CmdQueue, cmd)
SendMsgOnce == CmdQueue' = IF Len(CmdQueue) < QUEUE_MAX_MSG THEN Append(CmdQueue, cmd)
                                                            ELSE CmdQueue
SendMsg == Len(CmdQueue) < QUEUE_MAX_MSG /\ CmdQueue' = Append(CmdQueue, cmd)

Send ==
    /\ prn = "send"
    /\ SendMsg
    /\ prn' = "sent"
    /\ UNCHANGED <<Status, ManualPrintAction, FilePos, NeedClearCmdQueue, KeepActive, cmd,
                   longIdle, CmdBuff, gcode, Waiting, heat, parked, last, cleared,
                   stopped, userVars>>

\* Mutant of Activates: a command from the file does not set KeepActive.
ActivatesManual(c) == c.by # "file" /\ c.c # "M25"
\* Every branch but that of the pause sets KeepActive.
Activates(c) == ~(c.by = "user" /\ c.c = "M25")

Sent ==
    /\ prn = "sent"
    /\ ManualPrintAction' = (ManualPrintAction /\ cmd.by # "user")
    /\ longIdle' = FALSE
    /\ KeepActive' = (KeepActive \/ Activates(cmd))
    /\ prn' = IF cmd.by = "uart" THEN "top" ELSE "active"
    /\ cmd' = NoCmd
    /\ UNCHANGED <<Status, FilePos, NeedClearCmdQueue, queues, gcode, Waiting, heat,
                   parked, last, cleared, stopped, userVars>>

(***************************************************************************)
(* Branches PAUSE_PRINT, RESUME_PRINT and STOP_PRINT.                      *)
(***************************************************************************)
\* A request that is pending is passed on as a command.
PassOn(c) ==
    /\ IF ManualPrintAction THEN prn' = "send" /\ cmd' = Cmd(c, "user", 0)
                            ELSE prn' = "active" /\ cmd' = cmd
    /\ UNCHANGED <<Status, ManualPrintAction, FilePos, NeedClearCmdQueue, KeepActive,
                   longIdle, queues, gcode, Waiting, heat, parked, last, cleared,
                   stopped, userVars>>

PauseBranch == prn = "top" /\ Status = "PAUSE" /\ PassOn("M25")
ResumeBranch == prn = "top" /\ Status = "RESUME" /\ PassOn("M24")

StopBranch ==
    /\ prn = "top"
    /\ Status = "STOP"
    /\ prn' = IF NeedClearCmdQueue THEN "drain" ELSE "stop"
    /\ UNCHANGED <<Status, ManualPrintAction, FilePos, NeedClearCmdQueue, KeepActive, cmd,
                   longIdle, queues, gcode, Waiting, heat, parked, last, cleared,
                   stopped, userVars>>

\* CrCmdQueueClear: the queue, then the ring once no command is in progress.
DrainQueue ==
    /\ prn = "drain"
    /\ CmdQueue' = << >>
    /\ prn' = "clear"
    /\ UNCHANGED <<Status, ManualPrintAction, FilePos, NeedClearCmdQueue, KeepActive, cmd,
                   longIdle, CmdBuff, gcode, Waiting, heat, parked, last, cleared,
                   stopped, userVars>>

ClearRing ==
    /\ prn = "clear"
    /\ gcode = "idle"
    /\ CmdBuff' = << >>
    /\ cleared' = TRUE
    /\ NeedClearCmdQueue' = FALSE
    /\ prn' = "stop"
    /\ UNCHANGED <<Status, ManualPrintAction, FilePos, KeepActive, cmd, longIdle,
                   CmdQueue, gcode, Waiting, heat, parked, last, stopped, userVars>>

StopPassOn == prn = "stop" /\ PassOn("M524")

(***************************************************************************)
(* The keep-active timeout and the serial port.                            *)
(***************************************************************************)
\* Ten minutes pass without a command while the thread only polls.
TenMinutes ==
    /\ ~longIdle
    /\ \/ prn = "top" /\ Status # "PRINTING"
       \/ prn = "clear"
    /\ SlowCmds \/ (gcode = "idle" /\ CmdQueue = << >> /\ CmdBuff = << >>)
    /\ longIdle' = TRUE
    /\ UNCHANGED <<Status, ManualPrintAction, FilePos, NeedClearCmdQueue, KeepActive, prn,
                   cmd, queues, gcode, Waiting, heat, parked, last, cleared, stopped,
                   userVars>>

\* The bed off, then the nozzle off and MotionStop.
KeepActiveCheck ==
    /\ prn = "active"
    /\ IF longIdle /\ KeepActive
         THEN target' = [target EXCEPT !["bed"] = FALSE] /\ prn' = "release"
         ELSE target' = target /\ prn' = "uart"
    /\ UNCHANGED <<Status, ManualPrintAction, FilePos, NeedClearCmdQueue, KeepActive, cmd,
                   longIdle, queues, gcode, Waiting, saved, parked, last, cleared,
                   stopped, userVars>>

KeepActiveRelease ==
    /\ prn = "release"
    /\ target' = [target EXCEPT !["nozzle"] = FALSE]
    /\ parked' = FALSE
    /\ KeepActive' = FALSE
    /\ prn' = "uart"
    /\ UNCHANGED <<Status, ManualPrintAction, FilePos, NeedClearCmdQueue, cmd, longIdle,
                   queues, gcode, Waiting, saved, last, cleared, stopped, userVars>>

UartNothing ==
    /\ prn = "uart"
    /\ prn' = "top"
    /\ UNCHANGED <<Status, ManualPrintAction, FilePos, NeedClearCmdQueue, KeepActive, cmd,
                   longIdle, queues, gcode, Waiting, heat, parked, last, cleared,
                   stopped, userVars>>

UartCmd(c) ==
    /\ prn = "uart"
    /\ uarts < MaxUart
    /\ uarts' = uarts + 1
    /\ stopped' = FALSE
    /\ cmd' = Cmd(c, "uart", 0)
    /\ prn' = "send"
    /\ UNCHANGED <<Status, ManualPrintAction, FilePos, NeedClearCmdQueue, KeepActive,
                   longIdle, queues, gcode, Waiting, heat, parked, last, cleared,
                   requests, hasty>>

ThreadHandle == \/ ReadCmd \/ ReadEnd \/ ReadError \/ SetStopped \/ Send \/ Sent
                \/ PauseBranch \/ ResumeBranch \/ StopBranch \/ DrainQueue \/ ClearRing
                \/ StopPassOn \/ KeepActiveCheck \/ KeepActiveRelease \/ UartNothing
                \/ \E c \in UartCmds : UartCmd(c)

(***************************************************************************)
(* The G-code thread.  A command stays in the ring until it is done; a     *)
(* move that finds the line ring full is simply tried again later.         *)
(***************************************************************************)
RecvMsg ==
    /\ gcode = "idle"
    /\ CmdQueue # << >>
    /\ Len(CmdBuff) < QUEUE_MSG_NUM
    /\ CmdBuff' = Append(CmdBuff, Head(CmdQueue))
    /\ CmdQueue' = Tail(CmdQueue)
    /\ UNCHANGED <<Status, ManualPrintAction, FilePos, NeedClearCmdQueue, KeepActive, prn,
                   cmd, longIdle, gcode, Waiting, heat, parked, last, cleared, stopped,
                   userVars>>

Begins(c) == gcode = "idle" /\ CmdBuff # << >> /\ Head(CmdBuff).c = c

\* The command at the head has been executed.
Done ==
    /\ IF Head(CmdBuff).by = "file"
         THEN last' = Head(CmdBuff).n /\ cleared' = FALSE
         ELSE last' = last /\ cleared' = cleared
    /\ CmdBuff' = Tail(CmdBuff)
    /\ gcode' = "idle"

PrinterUnchanged == UNCHANGED <<ManualPrintAction, FilePos, NeedClearCmdQueue, KeepActive,
                                prn, cmd, longIdle, CmdQueue, stopped, userVars>>

Move ==
    /\ Begins("move")
    /\ Done
    /\ PrinterUnchanged /\ UNCHANGED <<Status, Waiting, heat, parked>>

\* M109 ("heat") and M190 ("bed"): set the target, StartWaiting, wait.
Heater(c) == IF c = "bed" THEN "bed" ELSE "nozzle"

HeatSet(c) ==
    /\ Begins(c)
    /\ target' = [target EXCEPT ![Heater(c)] = TRUE]
    /\ gcode' = "startwaiting"
    /\ PrinterUnchanged /\ UNCHANGED <<Status, CmdBuff, Waiting, saved, parked, last, cleared>>

StartWaiting ==
    /\ gcode = "startwaiting"
    /\ Waiting' = TRUE
    /\ gcode' = "waiting"
    /\ PrinterUnchanged /\ UNCHANGED <<Status, CmdBuff, heat, parked, last, cleared>>

\* The loops of M109 and M190 end when the temperature is reached or somebody
\* called StopWaiting.
HeatReached ==
    /\ gcode = "waiting"
    /\ Waiting' = FALSE
    /\ Done
    /\ PrinterUnchanged /\ UNCHANGED <<Status, heat, parked>>

HeatBroken ==
    /\ gcode = "waiting"
    /\ ~Waiting
    /\ Waiting' = FALSE
    /\ Done
    /\ PrinterUnchanged /\ UNCHANGED <<Status, heat, parked>>

\* M25: MotionPause, then PauseHandle.
M25Motion ==
    /\ Begins("M25")
    /\ parked' = TRUE
    /\ gcode' = "pausing"
    /\ PrinterUnchanged /\ UNCHANGED <<Status, CmdBuff, Waiting, heat, last, cleared>>

M25PauseHandle ==
    /\ gcode = "pausing"
    /\ saved' = target
    /\ target' = AllOff
    /\ Done
    /\ PrinterUnchanged /\ UNCHANGED <<Status, Waiting, parked>>

\* M24: ResumeHandle, WaitTemperatureRecover, MotionResume.  With HOTENDS = 1
\* the branch for the nozzle is not taken, and nothing is waited for.
M24ResumeHandle ==
    /\ Begins("M24")
    /\ Status' = "PRINTING"
    /\ gcode' = "recover"
    /\ PrinterUnchanged /\ UNCHANGED <<CmdBuff, Waiting, heat, parked, last, cleared>>

M24Recover ==
    /\ gcode = "recover"
    /\ target' = [target EXCEPT !["bed"] = saved["bed"]]
    /\ Waiting' = FALSE
    /\ gcode' = "resuming"
    /\ PrinterUnchanged /\ UNCHANGED <<Status, CmdBuff, saved, parked, last, cleared>>

M24Motion ==
    /\ gcode = "resuming"
    /\ parked' = FALSE
    /\ Done
    /\ PrinterUnchanged /\ UNCHANGED <<Status, Waiting, heat>>

\* M524: MotionStop, then StopHandle.
M524Motion ==
    /\ Begins("M524")
    /\ parked' = FALSE
    /\ gcode' = "stopping"
    /\ PrinterUnchanged /\ UNCHANGED <<Status, CmdBuff, Waiting, heat, last, cleared>>

M524StopHandle ==
    /\ gcode = "stopping"
    /\ target' = AfterStopPrint
    /\ Done
    /\ PrinterUnchanged /\ UNCHANGED <<Status, Waiting, saved, parked>>

Exec == \/ RecvMsg \/ Move \/ StartWaiting \/ HeatBroken
        \/ \E c \in {"heat", "bed"} : HeatSet(c)
        \/ M25Motion \/ M25PauseHandle \/ M24ResumeHandle \/ M24Recover \/ M24Motion
        \/ M524Motion \/ M524StopHandle

Next == PrintCmdMsgHandle \/ ThreadHandle \/ TenMinutes \/ Exec \/ HeatReached

Spec == Init /\ [][Next]_vars

\* Both threads are scheduled, and time passes.  Nothing makes a heater reach its
\* target: HeatReached is not fair, since the loops have no timeout.
FairSpec == Spec /\ WF_vars(ThreadHandle) /\ WF_vars(Exec) /\ SF_vars(TenMinutes)

-----------------------------------------------------------------------------
Cmds == [c : {"none", "move", "heat", "bed", "M25", "M24", "M524"} \cup UartCmds,
         by : {"nobody", "file", "user", "uart"}, n : 0 .. Len(File)]

\* Every variable has its type: the queues keep their lengths, and a command is
\* being sent or executed exactly where the two threads are inside one.
TypeOK ==
    /\ Status \in {"STOP", "PRINTING", "PAUSE", "RESUME"}
    /\ ManualPrintAction \in BOOLEAN
    /\ FilePos \in 0 .. Len(File)
    /\ NeedClearCmdQueue \in BOOLEAN /\ KeepActive \in BOOLEAN
    /\ prn \in {"top", "ended", "send", "sent", "drain", "clear", "stop", "active", "release",
               "uart"}
    /\ cmd \in Cmds /\ (cmd = NoCmd <=> prn \notin {"send", "sent"})
    /\ longIdle \in BOOLEAN
    /\ CmdQueue \in Seq(Cmds) /\ Len(CmdQueue) <= QUEUE_MAX_MSG
    /\ CmdBuff \in Seq(Cmds) /\ Len(CmdBuff) <= QUEUE_MSG_NUM
    /\ gcode \in {"idle", "startwaiting", "waiting", "pausing", "recover", "resuming",
                  "stopping"}
    /\ gcode # "idle" => CmdBuff # << >>
    /\ Waiting \in BOOLEAN
    /\ target \in [Heaters -> BOOLEAN] /\ saved \in [Heaters -> BOOLEAN]
    /\ parked \in BOOLEAN /\ cleared \in BOOLEAN /\ stopped \in BOOLEAN /\ hasty \in BOOLEAN
    /\ last \in 0 .. Len(File) /\ requests \in Nat /\ uarts \in Nat

\* The printer is stopped and has nothing left to do about it.
Settled == /\ prn = "top" /\ gcode = "idle"
           /\ Status = "STOP" /\ ~ManualPrintAction /\ ~NeedClearCmdQueue
           /\ CmdQueue = << >> /\ CmdBuff = << >>

\* A stop that the user requested leaves no heater on, whatever commands were
\* being read, queued, executed or waited for when it came: the clear and M524
\* come after all of them.
StoppedCold == Settled /\ stopped => target = AllOff

\* Commands of the file are executed in its order: none is skipped without a
\* clear (M108 is not queued), and only the first one may follow a later one.
FileInOrder ==
    [][last' # last /\ ~cleared =>
         \A k \in 1 .. Len(File) :
           k < last' /\ (last < last' => last < k) => File[k] = "M108"]_vars

\* No command of the file is executed while the head is parked: M25 comes after
\* everything read before the pause, and M24 before everything read after it.
\* Not so once a print was started while a request of the last one or its M24,
\* M25 or M524 was still pending (such an M24 resumes, such an M25 parks the wrong
\* print, and an M524 that a clear drops leaves the head parked), or a pause was
\* requested with an M24 under way, which sets the status back to PRINTING.
PausedMeansStill == [][last' # last /\ ~hasty => ~parked]_vars

\* Every heater that is waited for reaches its target, or the wait is broken off.
HeatersReach == []<>(gcode # "waiting")

\* A requested stop and a requested pause are carried out unless a new print is
\* started first or the user resumes, although the printer thread may be blocked by
\* a full queue and the G-code thread by a heater.  If the heater never reaches its
\* target, a request still ends the wait that is under way (the last request, since
\* the ones before may come before the wait).  Not so when an M24 is under way,
\* whose ResumeHandle writes PRINTING over the request.  (A pause that meets the
\* end of the file is carried out as a stop.)
Pending(a) == Status = a /\ ManualPrintAction /\ cmd.by # "user" /\ ~ResumeAhead
RequestsCarriedOut ==
    /\ HeatersReach =>
         /\ Pending("STOP") ~> (gcode = "stopping" \/ Status = "PRINTING")
         /\ Pending("PAUSE") ~> (gcode \in {"pausing", "stopping"} \/ Status = "PRINTING")
    /\ (gcode = "waiting" /\ requests < MaxRequests)
         ~> (gcode # "waiting" \/ [](requests < MaxRequests))

\* A print ends if the heaters reach their targets.
PrintEnds == HeatersReach => <>[](Status # "PRINTING")

\* The heaters do not stay on: outside a print some path always turns them off,
\* at the latest the keep-active timeout.
HeatersEndOff == HeatersReach => []<>(Status = "PRINTING" \/ target = AllOff)
=============================================================================
