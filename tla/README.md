# Verification of the cxsw printer firmware

TLA+ models of the motion core, the G-code path, the printer and the heaters of
the firmware in `src/optim_crspark_407/applications` (paths below are relative to that
directory), the TLC configurations that check them and TLAPS proofs of the
properties that matter most.

## 1. The system

The firmware runs on RT-Thread on one core. These contexts share state:

| context | code | what it does |
|---|---|---|
| main thread | `main.cpp` | the `Exec` of the models: messages of the views, menu moves and homing through `CrMotion::HandleStepperMoveMsg`, requests through `CrPrinter::PrintCmdMsgHandle` |
| G-code thread | `CrModel/CrGcode.cpp` | takes commands from a ring, executes the handlers of `CrGcode/GcodeHandle`, which plan lines and home |
| printer thread | `CrModel/CrPrinter.cpp` | reads the file, feeds the G-code ring, pauses, stops |
| calculation thread | `CrMotion::CalcTicksThread` | `Bresenham::Calc`: takes planned lines, produces ticks |
| step interrupt | `CrMotion/CrStepperRun.cpp` | consumes ticks, sets direction and step pins |
| timer thread | `CrHeaterManager::TimeOutHandle` | every 200 ms: PID, PWM of a heater |
| controller thread | `CrController.cpp` | views and menus: sends requests, reads the reports of the models |

At this commit `main.cpp:462-470` comments the creation of views, menu and
controller out: the last context is not started in this build, and with it
nobody sends print requests, menu moves or menu homing. The receiving ends are
complete and run; the models take what the menu sends as their input, so that
they describe the firmware with its menu. What depends on such a message is
marked: the finding of `planlinebuff_stop`, the requests of `Printer`, the jogs
of `MotionCoord` and `Homing`, and the messages of the view in `HeaterManager`.

A move travels through four stores, none of which has a lock for all its users:

```
 G1/G28/menu -> CrMotion (LatestCoord) -> LineBuff -> Bresenham (Line, statics) -> AxisFifo -> pins
                PutMotionCoord            PlanLine    Calc                         StepperInterrupt
```

`SteppersStopQuick` (pause, stop, end stop found) empties all of them from the
outside. Before that a command travels

```
 file, serial port -> printer thread -> CmdQueue -> CmdBuff -> handler on the G-code thread
                      PutGcodeCmd                   Exec
```

and `CrCmdQueueClear` on the printer thread empties both queues. Requests of the
user reach the printer as a status and a flag, reports reach the views through
shared message queues that keep the latest message.

### Inventory

| component | state | operations | what is hard | what makes it correct |
|---|---|---|---|---|
| Motion tick FIFO, `CrMotion/Fifo.c` | ring, two indices, free count | create, write, read, reset, empty test | written by a thread, read by an interrupt, reset by another thread; wrap-around | a bounded FIFO; indices and count agree; a blocked writer gets through |
| Tick calculation, `CrMotion/Bresenham.cpp`, `CrStepperRun.cpp` | current line, phase, error accumulators in statics; direction pins | `Calc`, `DiscardCurrentLine`, `StepperInterrupt` | a line spread over several calls; phase boundaries out of order; discard from another thread | every line makes exactly its steps, in its direction |
| Planned-line ring, `CrMotion/CrMotionPlanner.cpp`, `SmoothAlgorithm.cpp` | slots with `Usable`, head, tail | `PlanLine`, `TrapezoidCalculate`, `GetNextPlanLine`, `PlanLineBuffClear`, `IsMotionComplete` | no lock; the planner withdraws `Usable` of queued lines; two threads advance the head | every line handed over once, in order; waiting callers are released |
| Motion model, `CrModel/CrMotion.cpp` | `LatestCoord`, `PauseCoord`, `Deltamm`, unit, static `OldTarget` | `PutMotionCoord`, `SetLatestCoord`, menu moves, `AutoMoveHome`, units, pause, resume | rounding over thousands of moves; state left behind by other commands | the believed position is the real one |
| Homing, `CrMotion/StepperApi.cpp`, `CrEndStop.c` | `Enable` of the end stops, `HomeSetFlag` | `AutoMoveHome`, `MoveHomeX/Y/Z` | polling against lines executed concurrently; failing switches; no timeouts | homing ends; a homed axis is at its switch |
| Look-ahead, `CrMotion/SmoothAlgorithm.cpp` | speeds of queued lines | backward and forward scan | the same slots are being taken | speeds reachable within the line; none above the maximum |
| G-code queue, `CrModel/CrGcode.cpp` | message queue, command ring, status of the command in execution | put, execute, clear | clear from another thread; head, tail and count updated separately | commands executed once, in order; put and clear return; the ring recovers |
| Printer, `CrModel/CrPrinter.cpp` and M24, M25, M109, M190, M524 | status, request flag, file position, keep-active | start, pause, resume, stop, end of file, read error, timeout | requests against a thread blocked by a full queue and another blocked by a heater | file in order and not while parked; requests carried out; heaters end off |
| Shared message queues, `CrMsgQueue/SharedQueue` | queue, backup of the last message | send, receive | backup written after the queue is left, by both ends | a reader never goes back to an older value and gets the newest |
| Heater manager, `CrModel/CrHeaterManager.cpp`, `CrHeater/Pid` and M81, M112, M140, M190 | attributes with target and duty, status, time of the first error, timer | set, control, protection, wait | attributes read, changed and written back while the timer runs; two clock reads | a heater too hot ends off; waits end; a stopped heater stays off |
| SD card, G-code sources, serial | open file, receive buffer | read line, receive | text of one thread | |
| Timer wrapper, `Common/RtthreadSrc` | timers | create, set time, start | a failing set time frees the timer; a period of 0 | |

Fans, servo, beeper, parameters, menus, views and start-up are single
assignments or presentation; `3d-lib` is a browser viewer without shared state;
RT-Thread, the STM32 HAL, Klipper and Moonraker are vendored.

## 2. Modules

| module | models | role |
|---|---|---|
| `TickStream` | | abstract: a bounded stream, batches appended and taken in order |
| `StepFifo` | `CrMotion/Fifo.c` | implements `TickStream` |
| `Bresenham` | `Bresenham.cpp`, `CrStepperRun.cpp` | line queue, Calc, FIFO, interrupt |
| `PlanLineBuff` | `CrMotionPlanner.cpp`, locking of `SmoothAlgorithm.cpp` | ring at the granularity of shared accesses; implements `TickStream` as well |
| `MotionCoord` | `CrMotion.cpp`, `CorrectTargetCoordinate`, `GcodeG28Handle.cpp` | coordinates |
| `Homing` | `AutoMoveHome`, `StepperApi.cpp`, `CrEndStop.c` | homing against the pipeline |
| `GcodeQueue` | `CrGcode.cpp` | command path at the granularity of shared accesses |
| `Printer` | `CrPrinter.cpp`, five M handlers | printer thread, G-code thread and user composed |
| `SharedMsgQueue` | `CrSharedMsgQueue.c` | latest-value queue |
| `HeaterManager` | `CrHeaterManager.cpp`, `CrPid.cpp`, four M handlers | one heater and three threads |
| `MC...` | | instances for TLC |
| `StepFifoProofs`, `BresenhamProofs`, `PlanLineBuffProofs`, `MotionCoordProofs`, `HomingProofs`, `GcodeQueueProofs`, `PrinterProofs`, `SharedMsgQueueProofs` | | theorems about the module of that name; the last one also about `HeaterManager` |

Each module abstracts the neighbours that another module takes apart: in
`Bresenham` the ring is a sequence (what `PlanLineBuff` implements) and in
`PlanLineBuff` the FIFO is a count (what `StepFifo` implements); in `Printer` the
two command queues are sequences and a clear resets the ring between two
commands (the case in which `GcodeQueue` shows that this is so).

### StepFifo

`buf`, `ReadIndex`, `WriteIndex`, `LeftSlot` are the fields of `CommonFiFo_t`.
`CommonWriteFifo` is two actions, because it tests `FifoLeftSlot` before
`rt_hw_interrupt_disable` and copies after it; the read is one, it runs in the
interrupt; `CommonRstFifo` is four, one per assignment, with interrupts enabled.
`Spec` is the pipeline without a reset, `StopSpec` adds it.

### Bresenham

One action per case of the `switch` in `Calc` (`LineEnds` is STOP, then
`Accelerate`, `Uniform`, `Decelerate`, `DecelerateDone`), `TakeLine` for the
beginning of a line, `WriteTick` for the write at the end of the loop body,
`Call` and `Return` for the boundaries of a call. Statics keep their values
between calls, locals (`MaxSteps`, `StepInterval`, `LoopIndex`) are reset in
`Call`. Step
rates are floating point; all the control looks at is whether a rate has been
computed in this call, so `StepInterval` is 0 or positive. The phase boundaries
of a line are arbitrary numbers: `PlanLine` publishes a line (`Usable`, tail)
before `TrapezoidCalculate` has computed them, so a slot may still have those
of an earlier line. `StepperInterrupt` includes the comparison of direction
words and `SetStepperDir`. `SteppersStopQuick` is an action of its own: `Spec` is
without it, `StopSpec` and the run let it come between two calls of `Calc`,
`AnyStopSpec` at any moment (section 5 on a stop during a call).

### PlanLineBuff

Every access to `Usable`, `LineBuffHead`, `LineBuffTail` or a slot is one
action; `cmd` and `calc` are the program counters of the command thread and of
the calculation thread. `IsMotionComplete` is three reads. `SteppersStopQuick`
is in `StopSpec` at any moment and in `GcodeStopSpec` outside `GetNextPlanLine`
only: the calculation thread has priority 10 (`CrMotion.cpp:263`), the G-code
thread the default of 24 (`CrGcode.cpp:82` is commented out; a larger number is
a lower priority), so that G28, M410 and M524 cannot stop in the middle of it. A
homing from the menu is on the main thread, also of priority 10, and can (this
commit does not create the menu). Lines are numbers; what `TrapezoidCalculate`
computes is left out, what it does to `Usable` is kept.

### MotionCoord

Coordinates in units of 1/K step. X and E are rounded to steps, Z is truncated,
and `Deltamm` collects what was cut off, as `CorrectTargetCoordinate` does; Y is
X again. `head` is where the planned lines take the head. A command is atomic:
the G-code thread executes one at a time. `PutMotionCoord` takes the axes a G1
names; one that names only E is a retract, planned by `PlanRetract`.

The distance that is planned (`Moved`) and the one that is entered in
`LatestCoord` (`Corrected`) are computed at different places of the code, and
the model keeps where they differ. `StuffLineBuff` multiplies E by the flow ratio
of M221 (`Flowed`) and `CorrectTargetCoordinate` does not; `PlanLine` and
`CorrectTargetCoordinate` drop an E distance below `MIN_E_CHANGE` (`Long`) and
`PlanRetract` does not; a menu move of E by 0.1 mm is 9.3 of its 93 steps/mm.
After any of these `LatestCoord.E` is the length asked for and not the steps
planned; the history variable `eOff` records it. Homing, G92 and menu moves set
`LatestCoord.Z` and not `OldTarget.Z` (`zSet`), and the next move without Z stores
the old one; a G28 drops `Deltamm` also when it does not home Z, and its lift
(option R) is not entered: `zOff` records that Z was put off by one of these, until
Z is homed again. The properties claim of E and Z what holds outside these cases.

`Spec` has all commands; `PrintSpec` leaves out inches and the pauses, after
which the claims fail for the reasons of section 5.

### Homing

`pos` is the distance from the edge of the switch. One action per statement of
`MoveHomeX` that reads or writes shared state; the three functions differ only
in the axis and in that `MoveHomeZ` polls the end stop of X in its second probe
(`Polled`). `IsMotionComplete` has both answers where `PlanLineBuff` shows that
both are possible: TRUE also while the last line is on its way from the ring to
`Calc`. The switches work, are dead, or were never opened. Moves planned before
a G28 are still in the queue when it begins. The frame holds an axis at both
ends of its travel.

### GcodeQueue

`exec` and `prn` are the program counters of the G-code thread and of the
printer thread, which have equal priority: every access to head, tail, count,
status, ring or message queue is one action, and an increment is a load and a
store. The three branches of `Exec` after a handler (done, refused, unknown)
make the same updates and share their actions; `ret` says where they go on.
`GcodeHandleStatus` starts with any value, since the constructor leaves it alone.
`torn` records that the reset of a clear met the G-code thread inside an update.
`CmdCount` is a U8 and counts modulo `CountMod`: its test at `CrGcode.cpp:154` and
its decrement at 155 are separate reads, and a clear between them makes it wrap.

### Printer

The loop of `ThreadHandle` with one action per branch: reading the file, the
three requests, the clear, the keep-active check, the serial port. `Send` is
`PutGcodeCmd`, enabled when the queue has room; `Sent` is what the branch does
after it has returned. The keep-active timeout is two actions: the bed is turned
off, then the nozzle, and `MotionStop` drops what is planned (`parked` becomes
FALSE, as for the `MotionStop` of M524). On the G-code thread a heater command is
three actions (target, `StartWaiting`, end of the wait), M24, M25 and M524 one per
call that changes shared state. A target is on or off. `Line` is the ring, the
queue and the command being put, one behind the other.

`PrintCmdMsgHandle` itself takes any request. The statuses in which one is made
(`Expected`) are those in which `GetPrintInfo` (`CrMenu/Show/ShowAction.cpp:231-296`)
shows the item of the menu; that the menu may show a status a little old is left
out. A request may come at every step of the two threads, also while the printer
thread is blocked in `PutGcodeCmd` with a command of the file or of the serial
port. `Patient` forbids one window only: between the printer thread's test of
`ManualPrintAction` and its `FinishPrintManualAction`, where that call would erase
the new request.

The loops of M109 and M190 have no timeout. `HeatReached` is therefore not fair:
a heater may stay cold for ever. The liveness properties that need warm heaters
say so (`HeatersReach`), and `RequestsCarriedOut` says of the others that a request
ends the wait. `Faults` are a file that cannot be opened and a read error.
`SlowCmds` is explained under the bounds. `last`, `cleared`, `stopped` and `hasty` are
history variables of the properties; `hasty` records that a print was started
while a request of the one before, or its M24, M25 or M524, was pending, or a pause
was requested with an M24 under way (`ResumeAhead`).

### SharedMsgQueue

`CrMsgSend` is up to four steps (send, take one out, back it up, send again),
`CrMsgRecv` two (take or find nothing, then copy from or to the backup). A
message is its number, so that older and newer can be told apart.

### HeaterManager

`TimeOutHandle` (timer thread, highest priority) is one action; the protection
and the handling of a message are the two halves of `Exec`; a command is one
action per shared variable that `CrHeaterMagagerSetAttr` writes, then the
polling of M190. The PID keeps its proportional, differential and limiting
parts; its integral term is any of a set. `TimerArmed` says that a software
timer set to period 0 is armed like any other. Only what the code can tell of
the clock is kept: the time of the first error is unset, at most a minute ahead
of now, or further ahead (possible as long as it is uninitialised).

## 3. Runs

| run | expects | what it shows |
|---|---|---|
| `stepfifo` | pass | the ring implements `TickStream`, its counters agree, the space checked before the critical section is still there inside it, a blocked writer gets through |
| `bresenham` | pass | every line up to 4 steps on two axes, with all phase boundaries, makes exactly its steps although a call ends after 3 ticks; no tick with period 0 pulses a motor; with several lines in both directions and stops between calls steps are conserved from `PlanLine` to the motor, and all motion drains |
| `planlinebuff` | pass | without a stop the ring implements the stream and a poller of `IsMotionComplete` is released |
| `planlinebuff_stop` | violation | a stop during `GetNextPlanLine` leaves a ring that counts as full |
| `motioncoord` | pass | with moves, retracts, G92, menu moves, every G28 and M221 in any order: X is exact, E as long as it is planned as it is asked for, Z within a step with `Deltamm` the whole difference until a named command puts it off; a move without Z moves no Z |
| `motioncoord_pause` | violation | resume does not return to where the print was paused |
| `homing` | pass | every G28 ends, and an axis reported as homed comes to rest at its switch, whatever IsMotionComplete answered in between |
| `gcodequeue` | pass | commands are executed once and in order, also after a clear between two commands; put and clear return; whatever a reset inside an update left, the ring ends empty and consistent |
| `printer` | pass | a stop leaves the heaters off; the file is executed in order and never while parked; pause and stop are carried out unless an M24 is under way, and end the wait for a heater that stays cold; if heaters get warm a print ends, and outside a print they do not stay on |
| `sharedqueue` | pass | sends never fail, reads never go back, the newest value arrives |
| `heater` | pass | a heater that stays too hot ends off; M190 ends also after the view moved the target |
| `heater_stop` | violation | a heater stopped by the protection is turned on again by its timer |

Every property of a passing run has a mutant: a changed copy of a definition,
as a plausible bug would change it, with which the property fails.

### Bounds

* `stepfifo`: 3 slots, 2 distinguishable ticks, batches of up to 3: every offset,
  a batch that ends at, before and behind the last slot, and one that fills the
  ring. The theorems lift the bound, and cover resets at any moment.
* `bresenham`: 2 axes (the axes do not interact except through the longest
  one), up to 4 steps, 3 ticks per call, so a call ends in every phase. A
  behaviour executes one line of any shape, or up to three of six chosen lines.
  The theorems lift all of it, except for `MotionDrains`.
* `planlinebuff`: 4 slots (3 usable), 9 lines: the indices go round the ring
  twice, the ring is full and empty, a slot is reused while the recalculation
  still looks at it. Two ticks per line and a FIFO of two, so that a line is
  calculated while the ticks of the one before are waiting. The theorems lift
  all of it, except for `PollingEnds`.
* `motioncoord`: a step has K = 3 parts, so remainders of both signs add up to a
  step in two and in three moves; moves to four places, menu moves of a step (of E by
  a step and a third), flow ratios of 0 (not applied) and 50 percent,
  `MIN_E_CHANGE` about a step as in the code (0.93). `Near` bounds how far the head
  goes and lets the axes, which share no state, leave the origin one at a time. The
  theorems lift all of it.
* `homing`: travel of 4 steps, back-off of 2, two lines in the ring, one step
  between two actions of the homing thread (`Lag`): long enough that the switch
  closes or opens between any two of its reads. X and Z, because the code
  treats Z in a special way; both working, X dead, and Z absent. The theorems
  lift the lengths and the set of end stops, except for `HomingEnds`.
* `gcodequeue`: a ring of 3 and a message queue of 2, 5 commands, one clear: the
  ring fills, wraps and runs empty, and the clear meets every one of its steps.
  `CountMod` is 6 instead of 256: the count wraps as it does in the code, and runs
  down in a few steps (7 and 9 were checked as well).
  The theorems lift all of it for the safety properties.
* `printer`: queues of one command, so that both threads block; a file that heats
  bed and nozzle, contains M108 and moves; 4 requests (start, pause, resume,
  stop, or a stop and a restart) and a serial command. `Patient` is TRUE (section 2);
  `SlowCmds` is FALSE: no command takes ten minutes. Section 5 says what happens
  without them. For the safety properties the theorems lift the file, the queues
  and the number of requests.
* `sharedqueue`: one message, 6 sends; the theorems lift the number of sends and,
  except for `NeverBack`, the size.
* `heater`: in half degrees a broken sensor, a bed at exactly `PID_EFFECT_RANGE`
  below the target, one half a degree above it and one beyond the upper limit,
  one change of temperature, one command and one message of the view. M190 polls
  once instead of 120 times; more polls only repeat the same step. A theorem
  lifts all of it for the type invariant.

### Fairness

Weak fairness of both threads: RT-Thread schedules threads of one priority in
turn, and every waiting loop sleeps. Weak fairness of the step interrupt:
`StepperTimerStop` only stretches the period of the timer, the interrupt keeps
firing. Nothing is assumed about commands arriving. In `Homing` a poll that
changes nothing is a stutter; fairness then says that a thread whose loop can
be left will leave it, and a loop can be left for good once the queue is empty.

In `GcodeQueue` strong fairness says that a command which waits for a slot of
the line ring gets one in the end, which `MotionDrains` shows of the motion. In
`Printer` strong fairness of `TenMinutes` says that time passes: a thread that
again and again finds nothing to do has done so for ten minutes in the end.
Nothing says that a heater gets warm: `HeatReached` is not part of the fair `Exec`.
In `HeaterManager` the timer, the main loop and a command under way are fair,
the temperature and the user are not.

Deadlock is checked in every run but `gcodequeue`, where the printer thread has
no more commands to put and the G-code thread nothing to execute in the end.

## 4. Proofs

All theorems hold for every value of the constants under the named assumptions
of the modules.

**StepFifoProofs** (`FifoLen` positive, batches not longer than the ring).
`SafeInv` = `TypeOK`, `CheckedSpaceStays`, and a writer under way has a legal
batch. It is inductive for `StopSpec`: a read or a reset between check and copy
only adds free slots. This gives `StopTypeCorrect` and `StopCheckedSpace`.
`Inv` adds `IndexConsistent` and is inductive for `Spec` only (a reset breaks
it), giving `IndexesAgree`. `RefinesTickStream` maps the slots from the read
index on, `Used` of them, to the abstract stream, and shows that
`WriteCritical` appends, `CommonReadFifo` takes the oldest and everything else
stutters; the lemmas `WriteAppends` and `ReadTakesOldest` treat the two wrap
cases.

**BresenhamProofs** (any number of axes, any set of lines, any call length).
`LineDoneExact` alone is not inductive. `IInv` adds `Control` (what each program
counter implies; in particular that the local `MaxSteps` is 0 whenever a line is
about to be taken), `LongestAxisFound`, `Divisor` (`NewDevision` is twice the
steps M of the longest axis), and `Counting`: after k counted steps, an axis with
s steps and c pulses given is on track, its accumulator being 2sk - 2Mc - M and
below zero, at or above -2M. At k = M this leaves only c = s. `IInv` is inductive
for `StopSpec` and gives `TypeCorrect`, `LongestAxis_Found`, `LinesExact` and
`ZeroPeriodHarmless`.

`StepsAreConserved` is about sums over queues of any length. `Everyone` is
induction over the natural numbers, derived from the well-foundedness of `<`
(`WFMin` of the library takes a set and not a predicate); with it a sequence has
partial sums (`PartialSumsExist`), which the least place of a difference shows to be
what the recursive function in `Sum` computes (`SolutionUnique`, `SumIs`). After
that `Append` and `Tail` add and take one term (`SumOneMore`, `SumOneLess`), and
each action moves steps from one store to the next: `TakeLine` from the queue
to the current line (or the line has none), the ticks from the line to the FIFO,
the interrupt from the FIFO to the motor. `LineDoneExact` is used where a line is
dropped as finished. `Agree` adds that the pins follow the direction word of the
interrupt, that ticks have the direction of their line and that no old tick is
left over. That every line has a first longest axis is proved by the same
induction (`LongestExists`).

With stops at any moment `LongestAxisFound` does not hold, and neither do the
accumulators stay on track. `AnyStopInv` keeps the types and that no axis gets more
pulses than its line has steps, which then rests on the limit in `Moves` alone;
it gives `AnyStopTypeCorrect` and `NoneTooManyPulses` for `AnyStopSpec`.

**MotionCoordProofs** (any resolution K, any coordinates, flow ratios and
`MIN_E_CHANGE`; menu distances are whole steps of X and Z and not below
`MIN_E_CHANGE` of E, which holds for 0.1, 1 and 10 mm of X and E and for 0.025 mm of
Z at the default 80, 400 and 93 steps/mm). `PrintInv` adds to the properties that
the unit is mm and that `OldTargetZ` is `LatestCoord.Z` unless `zSet`; the latter is
needed because every move without Z copies it back. It gives `TypeCorrect`,
`RemainderExact`, `LatestTracks` and, as an action property, `ZKept`, for
`PrintSpec`: all commands but inches and the pauses. What the theorems do not claim
is in `eOff`, `zSet` and `zOff` (section 2).

**PlanLineBuffProofs** (any ring of at least two slots, any number of lines,
ticks and FIFO). `RingInv` adds to `TypeOK` what the unlocked checks found out:
`RoomStays` (between `StuffLineBuff` and the advance of the tail the ring is not
full and the tail slot holds the new line) and `LineStays` (between the test of
`GetNextPlanLine` and its advance of the head the ring is not empty, and the copy
is the head slot). Each is kept by the other thread because that thread only
advances the other index away from it. It gives `TypeCorrect`, `CopiesCheckedLine`
and `RefinesLineStream`: of all steps only the advance of the tail appends to the
stream and only the advance of the head takes from it. The index lemmas
(`TailSlot`, `AdvanceTail`, `AdvanceHead`) do the modular arithmetic once. With
stops neither half of `RingInv` holds; `StopTypeCorrect` shows for `StopSpec` that
the indices nevertheless stay inside the ring. With the stops of `GcodeStopSpec`
both hold again, and `GcodeInv` adds `Clearing` (the slot a stop is about to skip
is not empty and not usable, so the other thread leaves the head alone; once
found empty, the ring stays empty until the stop is over) and `Numbered` (the ring
holds the last planned lines in a row, not more than were planned since the last
stop, all newer than the last one taken). It gives `GcodeStopEmptiesRing` and,
as an action property, `TakesOnlyNewLines`. These two have no run of their own:
`planlinebuff_stop` shows the same property violated without the restriction to
`GcodeStopSpec`, so the restriction is what the theorems rest on.

**HomingProofs** (all lengths of travel, back-off, raise, lag and ring, any
mixture of working, dead and absent switches, any moves before). `HomeInv` follows
the second probe: stopped within `Lag` steps of the edge (`AtStop`), ring empty
and axis at rest there (`AtBackOff`), and then an account of the one or two lines
the ring may hold with the place where the axis will be when they are done
(`BackingOff`, `Returning`). It is needed because `IsMotionComplete` may answer
before the line has been executed, so that the return is planned behind a back-off
still under way. It gives `TypeCorrect` and `HomedAxisEndsAtSwitch`. The sum over
the lines in the ring, a fold, is unfolded for at most two of them (`SumOfTwo`).

**GcodeQueueProofs** (any ring and queue, any number of commands and clears).
`TypeInv` holds in every state, torn or not, and gives `TypeCorrect`. `OrderInv`
says, unless `torn`, how head, tail, count and slots relate at every program
counter of the G-code thread (`RingShape`), orders the ring, the command on its
way into it, the queue and the command being put (`RingOrder` to `PutOrder`),
counts them as long as nothing was cleared (`NoneLost`; `CountFacts` does the
arithmetic modulo `CountMod`) and says that a clear
which found the G-code thread quiet finds it quiet until it is done (`ClearShape`).
Three steps change what is pending; the others are shown to make up for what
they do to the ring by where they leave the thread. It gives `ExecutedInOrder`.

**PrinterProofs** (any file, any queues, any number of requests and serial
commands). Everything is said of one sequence, `Line`: the ring, the queue and the
command being sent, so that handing a command from one to the next is a stutter.
`Shape` adds to `TypeOK` which command is at the head while the G-code thread is
inside one (`HeadShape`) and what a clear under way has emptied (`ClearShape`); it
gives `TypeCorrect`. `OrderInv` says that `Line` is in file order, begins after
`last` and ends before `FilePos`; it gives the action property
`ExecutedInFileOrder`. `ColdInv` says that after a stop was passed on the heaters
are off and nothing in `Line` turns them on, or an M524 is in `Line` and nothing
behind it does; it gives `StopLeavesNothingOn` under `Patient`. A stop may find a
command of the file or of the serial port being put: it is in `Line`, and the M524
comes behind it. `PauseInv` says of each command in `Line` whether the head will be
parked when its turn comes, the command being put when a pause comes included, and
that an M24 on its way belongs to the pause it will end; it gives the action
property `PausedPrintIsStill` under `Patient` and with a serial port that sends
neither M24 nor M25 (`UartCmds`), except after what `hasty` records. These
assumptions are about the environment, are met by the run, and cannot be dropped:
section 5 says what happens otherwise.

**SharedMsgQueueProofs** (any size of the queue unless stated, any number of
messages). `RoomInv` adds to `TypeOK` that the queue has room while the sender is
between taking a message out and sending its own; it is needed for `SendsSucceed`
because the second send is not retried. `OrderInv` orders what is on its way by
age: what was read, the backup, the message the receiver holds, the one the
sender took out, the queue. Its step uses that the queue holds one message; it
gives `ReadsNeverGoBack` under this assumption.

The same module proves `HeaterTypeCorrect` about an instance of `HeaterManager`,
which reports through such a queue, from the assumption of that module
(`ConstantTypes`: integers for temperatures and PID parameters). `HeaterInv` adds to
`TypeOK` that the copies of the duty a command holds are within the limits as
well, since `SetHeater` writes one back after the timer has changed the PWM, and
that M190 has a poll left while it waits.

The inductive invariants were found with TLC, which checked their candidates with
the constants of the runs before they were proved.

Only model-checked: liveness (`WriteEnds`, `MotionDrains`, `PollingEnds`,
`HomingEnds`, `CallsReturn`, `Recovers`, `RequestsCarriedOut`, `PrintEnds`,
`HeatersEndOff`, `NewestArrives`, `HotEndsOff`, `WaitEnds`), which the prover
does not handle.

## 5. What was found

Three disagreements between the code and its own comments are violation runs;
PROJECT.json quotes the lines. In short: a stop and `GetNextPlanLine` both
advance the head of the line ring (`CrMotionPlanner.cpp:821`; it takes a stop on
a thread of the calculation thread's priority, section 2, that is, a menu homing,
whose menu this commit does not create); `MotionPause`
saves the coordinates it left and `MotionResume` moves by nothing
(`CrMotion.cpp:1280`); `CrHeaterManagerStop` sets its timer to period 0, which
does not stop it (`CrHeaterManager.cpp:288`).

Met while modelling and not made into runs. Motion:

* A reset between the check and the copy of `CommonWriteFifo` can leave indices
  and free count that disagree; the interrupt then executes zeroed slots.
* `MaxSteps` is reset per call of `Calc` and not per line (`Bresenham.cpp:609`):
  after a quick stop while `Calc` sleeps in front of a full FIFO the longest axis
  of the next line is not found.
* `IsMotionComplete` looks for a line in the direction against which it travels
  (`CrMotionPlanner.cpp:853`) and can answer TRUE with a line on its way;
  `Homing` contains this answer.
* `OldTarget.Z` survives G28, G92 Z and menu moves of Z
  (`CrMotionPlanner.cpp:717`): the next move without Z writes it into `LatestCoord`.
  `ZKeptByOtherMoves` says exactly this; `LatestCoord.Z` is then wrong until Z is
  homed and moved again.
* E steps are rounded after the flow ratio of M221 was applied
  (`CrMotionPlanner.cpp:191`), `LatestCoord.E` before it: with a ratio other than 100
  percent the position of E is the length asked for, and the rounding errors of
  the planned steps add up without a bound. Retracts below `MIN_E_CHANGE`, which
  are planned and not entered, and menu moves of E by 0.1 mm (9.3 steps) add up as well.
* G28 without Z, or with O when everything is homed, clears `Deltamm`: up to a step
  of Z is lost each time.
* `PlanLine` publishes a line before its phase boundaries are computed.
  `LinesExact` shows that no step is lost by it; the speed profile is wrong.
* In inch mode `PutMotionCoord` stores millimetres in `LatestCoord`.
* `PutMotionCoord` returns -1 on a full ring; G26, G30 and others drop the
  result, and with it the move (`GcodeG30Handle.cpp:179`).
* G28 without axis letters drops the options O and R; the lift of G28 R is not
  entered in `LatestCoord.Z`.
* The first probe of a homing fails when `IsMotionComplete` answers TRUE too
  early; its approach line stays in the ring and runs unsupervised.
* A homing that finds its switch closed at once discards queued moves of the
  other axes, which `LatestCoord` already counts.

G-code path and printer:

* A clear whose reset meets the G-code thread inside an update (`torn`) lets the
  head pass the tail or the count exceed the ring; commands are then executed
  out of order. `InOrder` makes no claim about this; `Recovers` shows that the state
  does not last, also when `CmdCount` wrapped from 0 to 255.
* `GcodeHandleStatus` is not initialised: a clear before the first command may
  wait until one is executed, which is why `CallsReturn` starts after it. M32
  during a print calls the clear on the G-code thread itself, which waits for a
  status only this thread could change (`GcodeM32Handle.cpp:134`).
* `CrGcode.cpp:243` says that a larger priority is served first; the message
  queue of RT-Thread ignores the priority.
* A stop requested while M25 is being put is erased by
  `FinishPrintManualAction` (`CrPrinter.cpp:268`); without `Patient`,
  `StoppedCold` is violated.
* A stop is lost also with `Patient`: START, PAUSE, RESUME, STOP. The M24 of the
  resume is in the queue when the stop comes; the G-code thread executes it before
  the printer thread has polled the status, and `ResumeHandle`
  (`CrPrinter.cpp:711`) writes PRINTING over STOP. The print goes on although nobody
  started it, with `ManualPrintAction` still set. That
  only a request takes the status from STOP to PRINTING is violated within ten
  steps of the run; `RequestsCarriedOut` therefore excludes requests with an M24
  under way (`ResumeAhead`). A pause requested at
  that moment is overwritten in the same way, or a second M25 saves the targets
  the first one had set to zero. No comment of the code speaks of this order, so it
  is recorded as a hazard and here.
* A StopWaiting that comes before the StartWaiting of the command in execution, or
  before the next M109 or M190 in the ring, is lost; if that heater never reaches
  its target the stop behind it waits for ever, as the loops have no timeout.
  `RequestsCarriedOut` has the condition `HeatersReach` for this reason.
* The proof of `PausedMeansStill` failed at first, for a reason that needs more
  requests than the run makes. A print started while an M24, M25 or M524 of the
  one before is still queued takes its commands over: START, PAUSE, RESUME, STOP,
  START, PAUSE lets the M24 of the first print end the pause of the second, which
  then feeds the file to a parked head; an M25 left in the ring parks the new
  print; and when the new file ends, or cannot be opened, before the M524 was
  executed, the clear drops it and the head stays parked. The property therefore
  excludes what follows such a start (`hasty`), and a pause requested with an M24
  under way. An
  M24 or M25 from the serial port has the same effects.
* At the end of the file the clear discards the commands still queued; a pause
  that meets the end is overwritten by the stop; after a user's stop the file
  stays open and a new print goes on where the old one stopped. A line longer
  than the command buffer is cut in two, and a last line without an end of line
  is dropped (`ReadCmdFromFile`).
* `HOTENDS > 1` (`GcodeM24Handle.cpp:136`) is false on this machine: a resume
  restores the bed's target and not the nozzle's.
* With a command that takes more than ten minutes (`SlowCmds`) the keep-active
  timeout comes before the command has ended, and after a read error
  `HeatersEndOff` is violated.

Reports and heaters:

* The queues of `CrMotion` and `CrParam` hold two messages (`CrMotion.cpp:222`,
  `CrParam.cpp:22`); with `mq_maxmsg = 2` TLC finds `NeverBack` violated: the
  receiver, or the sender making room, backs an older message up after a newer one.
  With two senders on one queue a send may fail. The first read of a queue
  nobody has sent to returns zero bytes as a message.
* M112 and G26 rely on the same `CrHeaterManagerStop`, so the heaters are
  regulated to their old targets afterwards.
* The runaway test computes the age of a fault as first error minus now
  (`CrHeaterManager.cpp:412`, `440`) and cannot become true once the time was
  recorded; `LastErr` is never written.
* `WaitEnds` is stated for temperatures in which both branches of
  `ReachedTargetTemper` say reached; a bed that settles at or below its target
  with an `IsHeated` the view's message left stale (`CrHeaterManager.cpp:229`) is
  outside it.
* M190 S compares the target with a temperature only the view's messages update.
* Bed and nozzle share the static `PrevRealize` of `PidCalc`.
* A failing `CrTimerSetTime` frees the timer its caller keeps
  (`CrRtthreadTimer.c:207`).

## 6. Not modelled

Floating-point speeds and the look-ahead scans over them, and the sum of errors
of the PID (no finite abstraction that the properties would notice); parsing and
formatting of G-code text, assembling lines from file and serial bytes; menus
and display, storage of parameters, fans, servo and beeper (single assignments);
the handlers that set or report one value; vendored code. The scheduler, the
timers and the critical sections of RT-Thread are assumed to do what the models
say in the fairness paragraph, in `TimerArmed` and in `StepFifo`.

## 7. Plan

1. `StepFifo` with resets that come between two calls of `CommonWriteFifo`: that
   no tick from before a reset is executed after it.
2. A composition of `Homing` and `MotionCoord`: the coordinates of moves a homing
   discards.
3. The backward and forward scan of `SmoothAlgorithm.cpp` over integer speeds,
   with the invariant that neighbouring speeds are reachable.
