--------------------------- MODULE HeaterManager ---------------------------
(***************************************************************************)
(* CrHeaterManager (CrModel/CrHeaterManager.cpp): one heater, its sensor,  *)
(* its PID and the three threads at work on it.                            *)
(*                                                                         *)
(*   timer thread   TimeOutHandle, every 200 ms: the PID sets the PWM      *)
(*   main thread    Exec: protection, then a message of the view           *)
(*   G-code thread  M190, M140, M81 and M112 on the bed                    *)
(*                                                                         *)
(* The timer thread has the highest priority and the G-code thread the     *)
(* lowest: TimeOutHandle is one step, and so are CrHeaterManagerStop and   *)
(* the protection, during which only the timer may run and change what     *)
(* they overwrite; CrHeaterMagagerSetAttr is one step per shared variable. *)
(*                                                                         *)
(* Abstracted: temperatures are integers, Degree of them to a degree; the  *)
(* sum of errors of the PID is not kept, its term is any of IntegralTerms; *)
(* the clock is reduced to whether FirstErrTime is 0, at most a minute     *)
(* ahead of the clock ("past") or further ahead ("future").                *)
(***************************************************************************)
EXTENDS Integers

CONSTANTS
    Degree,                  \* units of temperature in a degree
    Temps, Targets,          \* what the sensor reads and what is asked for
    PID_EFFECT_RANGE, UPPER_TEMPERATURE_LIMIT, LOWER_TEMPERATURE_LIMIT,
    Kp, Kd, IntegralTerms,   \* PidAttr
    IntegralSaturation, SystemSaturation,   \* PidParam; DeadZone is 0
    ReachedPolls,            \* polls M190 wants reached (120 in the code)
    MaxTemps, MaxCmds, MaxMsgs   \* bounds: changes of the temperature, G-code
                                 \* commands and messages of the view

ConstantTypes ==
    /\ Temps \subseteq Int /\ Targets \subseteq Nat /\ 0 \in Targets
    /\ Degree \in Nat \ {0}
    /\ Kp \in Int /\ Kd \in Int /\ IntegralTerms \subseteq Int
    /\ SystemSaturation \in Nat
    /\ ReachedPolls \in Nat \ {0}

ASSUME ConstantsAssumption == ConstantTypes

VARIABLES
    temp,               \* what the sensor reads
    duty,               \* the duty of the PWM: the attribute of the heater
    LastError,          \* of the PID
    period,             \* of the timer
    Attr,               \* TargetTemper, CurTemper and HeaterAttr.Duty
    HeaterManagerStart, IsHeated,
    CurStatus, LastStatus, FirstErrTime, LastErr,
    main,               \* where Exec is
    RecvQueue,          \* the message of the view, of which there is one at most
    gcode,              \* where the G-code thread is
    Attributes,         \* its copy of Attr
    how,                \* what its command is: M190 S, M190 R, M140 or M81
    polls,              \* the I of M190
    budget              \* what is left of MaxTemps, MaxCmds and MaxMsgs

pid == <<duty, LastError>>
protection == <<CurStatus, LastStatus, FirstErrTime, LastErr>>
command == <<gcode, Attributes, how, polls>>
vars == <<temp, duty, LastError, period, Attr, HeaterManagerStart, IsHeated,
          CurStatus, LastStatus, FirstErrTime, LastErr, main, RecvQueue,
          gcode, Attributes, how, polls, budget>>

Nothing == -1   \* no message; targets are not negative
Query == -2     \* GET_HEATER_MANAGER_ATTR
Statuses == {"IDLE", "HEATING", "PID_KEEP", "COOLDOWN", "RUNAWAY"}
Zeroed == [target |-> 0, cur |-> 0, duty |-> 0]
Magnitude(n) == IF n < 0 THEN -n ELSE n

(***************************************************************************)
(* The constructor starts the timer.  It leaves LastStatus, FirstErrTime   *)
(* and LastErr alone; LastErr is never written at all.                     *)
(***************************************************************************)
Init ==
    /\ temp \in Temps
    /\ duty = 0 /\ LastError = 0
    /\ period = 200 /\ HeaterManagerStart = TRUE
    /\ Attr = Zeroed
    /\ IsHeated = FALSE
    /\ CurStatus = "IDLE"
    /\ LastStatus \in {"IDLE", "HEATING", "COOLDOWN"}
    /\ FirstErrTime \in {"zero", "future"}
    /\ LastErr \in {-1000, 1000}
    /\ main = "protect" /\ RecvQueue = Nothing
    /\ gcode = "idle" /\ Attributes = Zeroed /\ how = "M140" /\ polls = 0
    /\ budget = [temp |-> MaxTemps, cmd |-> MaxCmds, msg |-> MaxMsgs]

(***************************************************************************)
(* The environment: the temperature changes, a recorded time passes.       *)
(***************************************************************************)
Sense(t) ==
    /\ budget.temp > 0 /\ t # temp
    /\ temp' = t
    /\ budget' = [budget EXCEPT !.temp = @ - 1]
    /\ UNCHANGED <<pid, period, Attr, HeaterManagerStart, IsHeated, protection,
                   main, RecvQueue, command>>

TimePasses ==
    /\ FirstErrTime = "future"
    /\ FirstErrTime' = "past"
    /\ UNCHANGED <<temp, pid, period, Attr, HeaterManagerStart, IsHeated,
                   CurStatus, LastStatus, LastErr, main, RecvQueue, command, budget>>

(***************************************************************************)
(* CrPositionalPid::PidCalc and the timer that calls it.                   *)
(***************************************************************************)
\* Mutant of Limit: no lower limit.
LimitAbove(v) == IF v > SystemSaturation THEN SystemSaturation ELSE v
Limit(v) == IF v < 0 THEN 0 ELSE IF v > SystemSaturation THEN SystemSaturation ELSE v

IntegralTerm(e) == IF Magnitude(e) < IntegralSaturation THEN IntegralTerms ELSE {0}

PidCalc(e) ==
    IF e = 0 THEN {0}
    ELSE {Limit(Kp * e + i + Kd * (e - LastError)) : i \in IntegralTerm(e)}

\* The software timer of RT-Thread: rt_timer_start arms it whatever the period
\* is; with a period of 0 it expires at the next tick, and again and again.
TimerArmed == period \in {0, 200}

\* Mutant of Regulates: a heater whose target is 0 is left alone.
RegulatesTargets == Attr.target > 0
Regulates == TRUE

TimeOutHandle ==
    /\ TimerArmed
    /\ Regulates
    /\ \E d \in PidCalc(Attr.target - temp) : duty' = d
    /\ LastError' = Attr.target - temp
    /\ UNCHANGED <<temp, period, Attr, HeaterManagerStart, IsHeated, protection,
                   main, RecvQueue, command, budget>>

CrHeaterManagerStart ==
    /\ period' = 200
    /\ HeaterManagerStart' = TRUE

CrHeaterManagerStop ==
    IF HeaterManagerStart
      THEN period' = 0 /\ HeaterManagerStart' = FALSE /\ duty' = 0
      ELSE UNCHANGED <<period, HeaterManagerStart, duty>>

(***************************************************************************)
(* Exec on the main thread: CrHeaterManagerProtection, then a message of   *)
(* the view.                                                               *)
(***************************************************************************)
\* None of the three tests holds at a distance of exactly PID_EFFECT_RANGE.
StatusNow ==
    LET err == Attr.target - temp IN
    IF err > PID_EFFECT_RANGE THEN "HEATING"
    ELSE IF err < -PID_EFFECT_RANGE THEN "COOLDOWN"
    ELSE IF Magnitude(err) < PID_EFFECT_RANGE THEN "PID_KEEP"
    ELSE CurStatus

FirstErrNow == IF StatusNow # LastStatus THEN "zero" ELSE FirstErrTime

\* There is an error whose time is to be taken, or compared with FirstErrTime.
Erring == \/ StatusNow = "HEATING" /\ Attr.target - temp > LastErr
          \/ StatusNow = "COOLDOWN" /\ Attr.duty # 0

\* FirstErrTime.tv_sec - Time.tv_sec > 60
Aged == FirstErrNow = "future"

Abnormal == temp >= UPPER_TEMPERATURE_LIMIT \/ temp < LOWER_TEMPERATURE_LIMIT

CrHeaterManagerProtection ==
    /\ main = "protect"
    /\ LastStatus' = StatusNow
    /\ FirstErrTime' = IF Erring /\ FirstErrNow = "zero" THEN "past" ELSE FirstErrNow
    /\ CurStatus' = IF Erring /\ Aged THEN "RUNAWAY" ELSE StatusNow
    /\ IF StatusNow = "RUNAWAY" \/ Abnormal
         THEN CrHeaterManagerStop
         ELSE UNCHANGED <<period, HeaterManagerStart, duty>>
    /\ main' = "recv"
    /\ UNCHANGED <<temp, LastError, Attr, IsHeated, LastErr, RecvQueue, command, budget>>

\* A message sets the target, without IsHeated, or only asks for the attributes.
HandleTemperMsg ==
    /\ main = "recv"
    /\ Attr' = IF RecvQueue = Nothing THEN Attr
               ELSE [target |-> IF RecvQueue = Query THEN Attr.target ELSE RecvQueue,
                     cur |-> temp, duty |-> duty]
    /\ RecvQueue' = Nothing
    /\ main' = "protect"
    /\ UNCHANGED <<temp, pid, period, HeaterManagerStart, IsHeated, protection,
                   command, budget>>

Exec == CrHeaterManagerProtection \/ HandleTemperMsg

\* The view on the controller thread: a message that finds the queue full is lost.
ViewSend(m) ==
    /\ budget.msg > 0
    /\ RecvQueue' = IF RecvQueue = Nothing THEN m ELSE RecvQueue
    /\ budget' = [budget EXCEPT !.msg = @ - 1]
    /\ UNCHANGED <<temp, pid, period, Attr, HeaterManagerStart, IsHeated, protection,
                   main, command>>

(***************************************************************************)
(* The commands of the G-code thread.                                      *)
(***************************************************************************)
Begin == /\ gcode = "idle" /\ budget.cmd > 0
         /\ budget' = [budget EXCEPT !.cmd = @ - 1]

\* M190, M140 and M81 (with the target 0): the attributes are read ...
GetAttr(h, t) ==
    /\ Begin
    /\ Attributes' = [Attr EXCEPT !.target = t]
    /\ how' = h
    /\ gcode' = "setheater"
    /\ UNCHANGED <<temp, pid, period, Attr, HeaterManagerStart, IsHeated, protection,
                   main, RecvQueue, polls>>

\* ... and CrHeaterMagagerSetAttr writes all of them back.
SetHeater ==
    /\ gcode = "setheater"
    /\ duty' = Attributes.duty
    /\ gcode' = "setattr"
    /\ UNCHANGED <<temp, LastError, period, Attr, HeaterManagerStart, IsHeated, protection,
                   main, RecvQueue, Attributes, how, polls, budget>>

SetAttr ==
    /\ gcode = "setattr"
    /\ Attr' = Attributes
    /\ gcode' = "start"
    /\ UNCHANGED <<temp, pid, period, HeaterManagerStart, IsHeated, protection,
                   main, RecvQueue, Attributes, how, polls, budget>>

\* M190 S skips the wait when the attributes it read say the bed is hot enough.
SkipsWait == how = "M190S" /\ Attributes.cur >= Attributes.target

AfterSet == IF how = "M140" \/ SkipsWait THEN "idle"
            ELSE IF how = "M81" THEN "stop" ELSE "wait"

SetStart ==
    /\ gcode = "start"
    /\ IsHeated' = (temp < Attributes.target)
    /\ IF HeaterManagerStart THEN UNCHANGED <<period, HeaterManagerStart>>
       ELSE CrHeaterManagerStart
    /\ gcode' = AfterSet
    /\ polls' = IF gcode' = "wait" THEN ReachedPolls ELSE 0
    /\ Attributes' = Zeroed /\ how' = "M140"   \* not read again
    /\ UNCHANGED <<temp, pid, Attr, protection, main, RecvQueue, budget>>

\* Mutant of ReachedTargetTemper: heating ends a degree above the target.
ReachedAbove ==
    LET deviation == temp - Attr.target IN
    \/ Attr.target = 0
    \/ IF IsHeated THEN deviation >= Degree ELSE Magnitude(deviation) < Degree
ReachedTargetTemper ==
    LET deviation == temp - Attr.target IN
    \/ Attr.target = 0
    \/ IF IsHeated THEN deviation > 0 ELSE Magnitude(deviation) < Degree

\* The loop of M190; M108 and the stop of a print leave it too (module Printer).
Poll ==
    /\ gcode = "wait"
    /\ polls' = IF ReachedTargetTemper THEN polls - 1 ELSE polls
    /\ gcode' = IF polls' = 0 THEN "idle" ELSE "wait"
    /\ UNCHANGED <<temp, pid, period, Attr, HeaterManagerStart, IsHeated, protection,
                   main, RecvQueue, Attributes, how, budget>>

StopAfter ==
    /\ gcode = "stop"
    /\ CrHeaterManagerStop
    /\ gcode' = "idle"
    /\ UNCHANGED <<temp, LastError, Attr, IsHeated, protection, main, RecvQueue,
                   Attributes, how, polls, budget>>

M112 ==
    /\ Begin
    /\ CrHeaterManagerStop
    /\ UNCHANGED <<temp, LastError, Attr, IsHeated, protection, main, RecvQueue, command>>

Gcode == SetHeater \/ SetAttr \/ SetStart \/ Poll \/ StopAfter

Next ==
    \/ \E t \in Temps : Sense(t)
    \/ TimePasses
    \/ TimeOutHandle
    \/ Exec
    \/ \E m \in Targets \cup {Query} : ViewSend(m)
    \/ \E h \in {"M190S", "M190R", "M140"}, t \in Targets : GetAttr(h, t)
    \/ GetAttr("M81", 0)
    \/ M112
    \/ Gcode

Spec == Init /\ [][Next]_vars

\* The timer expires again and again, the main loop calls Exec every second,
\* a command once begun goes on.
FairSpec ==
    /\ Spec
    /\ WF_vars(TimeOutHandle)
    /\ WF_vars(CrHeaterManagerProtection) /\ WF_vars(HandleTemperMsg)
    /\ WF_vars(Gcode)

-----------------------------------------------------------------------------
(* Every variable has its type: the PWM is never given less than nothing    *)
(* nor more than SystemSaturation.                                          *)
TypeOK ==
    /\ temp \in Temps
    /\ duty \in 0 .. SystemSaturation /\ Attr.duty \in 0 .. SystemSaturation
    /\ Attr.target \in Targets /\ Attributes.target \in Targets
    /\ period \in {0, 200} /\ HeaterManagerStart \in BOOLEAN /\ IsHeated \in BOOLEAN
    /\ CurStatus \in Statuses /\ LastStatus \in Statuses
    /\ FirstErrTime \in {"zero", "past", "future"}
    /\ main \in {"protect", "recv"} /\ RecvQueue \in Targets \cup {Query, Nothing}
    /\ gcode \in {"idle", "setheater", "setattr", "start", "wait", "stop"}
    /\ polls \in 0 .. ReachedPolls

(* A heater that stays hotter than its target by more than the range of the *)
(* integral is off in the end, though every command writes an old duty back *)
(* to the PWM: TimeOutHandle overwrites it.                                 *)
HotEndsOff ==
    \A t \in Temps, g \in Targets :
        g + IntegralSaturation <= t
            => (<>[](temp = t /\ Attr.target = g) => <>[](duty = 0))

(* M190 ends when the bed settles less than a degree above its target, even *)
(* where a message of the view moved the target and IsHeated was left as it *)
(* was for the old one.                                                     *)
WaitEnds ==
    \A t \in Temps, g \in Targets :
        t > g /\ t < g + Degree
            => (<>[](temp = t /\ Attr.target = g) => []<>(gcode # "wait"))

(* After CrHeaterManagerStop, which the protection calls at an abnormal     *)
(* temperature, the heater stays off until it is started again.             *)
StopKeepsOff == ~HeaterManagerStart => duty = 0
=============================================================================
