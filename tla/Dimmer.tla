------------------------------- MODULE Dimmer -------------------------------
(* The AC dimmer of main.c: dimmer_init, the zero-cross interrupt, the     *)
(* one-shot timer that fires the TRIAC, its interrupt, the control task    *)
(* and set_dimmer_level.  Time is counted in ticks from one falling edge   *)
(* of the zero-cross input to the next.  Both interrupts run on the core   *)
(* of app_main, which registers them, so neither nests in the other (the   *)
(* test of in_critical_section never returns early) and each is one        *)
(* action.  Channel 2 is always off.                                       *)
EXTENDS Integers

CONSTANTS
    HalfCycle,            \* half_cycle_us, in ticks
    MinDelay,             \* the 500 us a delay is never below, in ticks
    QueueSize,            \* length of zero_cross_evt_queue (10 in the code)
    SettleEdges           \* edges in each of the two vTaskDelay of dimmer_init (120 at 60 Hz)

ASSUME DimmerAssumption ==
    /\ HalfCycle \in Nat /\ MinDelay \in 1 .. HalfCycle - 1
    /\ QueueSize \in Nat \ {0} /\ SettleEdges \in Nat

VARIABLES
    initStep,             \* the next step of dimmer_init, or "ready"
    slept,                \* edges since the running vTaskDelay began
    level, enabled,       \* dimmer_level_ch1, dimmer_enabled
    isrAdded,             \* the zero-cross handler is registered
    timer,                \* the hardware timer
    pin,                  \* DIMMER_CH1_PIN
    events,               \* length of zero_cross_evt_queue
    taskUp,               \* dimmer_control_task exists
    sinceEdge,            \* ticks since the last edge of the mains
    steady                \* history: the last edge was heard with the timer ready,
                          \* and neither level nor flag has changed since

settings == <<level, enabled>>
dimmerVars == <<initStep, slept, level, enabled, isrAdded, timer, pin, events, taskUp,
                sinceEdge, steady>>

InitSteps == {"pins", "timer", "disable", "settle", "settleAgain", "level", "ready"}
(* Where app_main waits: everywhere else it goes on within a tick.         *)
Waiting == {"settle", "settleAgain", "ready"}

(* The firing delay of a level between 1 and 99.                           *)
FireDelay(l) ==
    LET delay == ((100 - l) * HalfCycle) \div 100
    IN  IF delay < MinDelay THEN MinDelay ELSE delay

DimmerInit ==
    /\ initStep = "pins" /\ slept = 0
    /\ level = 50 /\ enabled = TRUE
    /\ isrAdded = FALSE /\ taskUp = FALSE
    /\ timer = [ready |-> FALSE, running |-> FALSE, counter |-> 0, alarm |-> 0, alarmOn |-> FALSE]
    /\ pin = 0 /\ events = 0
    /\ sinceEdge \in 0 .. HalfCycle
    /\ steady = FALSE

-----------------------------------------------------------------------------
(* dimmer_init                                                             *)

(* The queue, then the pins, and last the handler: no edge is heard before.*)
GpioInit ==
    /\ initStep = "pins"
    /\ initStep' = "timer"
    /\ events' = 0
    /\ pin' = 0
    /\ isrAdded' = TRUE
    /\ UNCHANGED <<slept, settings, timer, taskUp, sinceEdge, steady>>

TimerInit ==
    /\ initStep = "timer"
    /\ initStep' = "disable"
    /\ timer' = [timer EXCEPT !.ready = TRUE, !.counter = 0, !.alarmOn = TRUE]
    /\ UNCHANGED <<slept, settings, isrAdded, pin, events, taskUp, sinceEdge, steady>>

(* Mutant: the flag is not cleared before the delays.                      *)
LeaveEnabled ==
    /\ initStep = "disable"
    /\ initStep' = "settle"
    /\ slept' = 0
    /\ UNCHANGED <<settings, isrAdded, timer, pin, events, taskUp, sinceEdge, steady>>

Disable ==
    /\ initStep = "disable"
    /\ initStep' = "settle"
    /\ slept' = 0
    /\ enabled' = FALSE
    /\ steady' = FALSE
    /\ UNCHANGED <<level, isrAdded, timer, pin, events, taskUp, sinceEdge>>

CreateTask ==
    /\ initStep = "settle" /\ slept = SettleEdges
    /\ initStep' = "settleAgain"
    /\ slept' = 0
    /\ taskUp' = TRUE
    /\ UNCHANGED <<settings, isrAdded, timer, pin, events, sinceEdge, steady>>

Enable ==
    /\ initStep = "settleAgain" /\ slept = SettleEdges
    /\ initStep' = "level"
    /\ slept' = 0
    /\ enabled' = TRUE
    /\ steady' = FALSE
    /\ UNCHANGED <<level, isrAdded, timer, pin, events, taskUp, sinceEdge>>

SetInitialLevel ==
    /\ initStep = "level"
    /\ initStep' = "ready"
    /\ level' = 100
    /\ steady' = FALSE
    /\ UNCHANGED <<slept, enabled, isrAdded, timer, pin, events, taskUp, sinceEdge>>

(* set_dimmer_level for channel 1, under the spinlock the interrupt takes. *)
SetDimmerLevel(l) ==
    /\ initStep = "ready"
    /\ level' = IF l > 100 THEN 100 ELSE l
    /\ steady' = FALSE
    /\ UNCHANGED <<initStep, slept, enabled, isrAdded, timer, pin, events, taskUp, sinceEdge>>

-----------------------------------------------------------------------------
(* Interrupts, the control task and time                                   *)

(* Mutant: the timer goes on from where it was.                            *)
ArmWithoutReset(t, delay) ==
    IF t.ready THEN [t EXCEPT !.alarm = delay, !.alarmOn = TRUE, !.running = TRUE] ELSE t
(* The four timer calls; before timer_init each of them fails.             *)
Arm(t, delay) ==
    IF t.ready THEN [t EXCEPT !.counter = 0, !.alarm = delay, !.alarmOn = TRUE, !.running = TRUE]
               ELSE t

TimerDue == timer.running /\ timer.alarmOn /\ timer.counter >= timer.alarm

(* Mutant: as if the queue had no end.                                     *)
ZeroCrossUnbounded ==
    /\ events' = events + 1
    /\ pin' = IF enabled /\ level >= 100 THEN 1 ELSE 0
    /\ timer' = IF enabled /\ level > 0 /\ level < 100 THEN Arm(timer, FireDelay(level)) ELSE timer
    /\ steady' = timer.ready

(* dimmer_zero_cross_isr.  A full queue drops the event.                   *)
ZeroCrossIsr ==
    /\ events' = IF events < QueueSize THEN events + 1 ELSE events
    /\ pin' = IF enabled /\ level >= 100 THEN 1 ELSE 0
    /\ timer' = IF enabled /\ level > 0 /\ level < 100 THEN Arm(timer, FireDelay(level)) ELSE timer
    /\ steady' = timer.ready

(* An edge of the mains, whether or not its interrupt is heard yet.        *)
Edge ==
    /\ sinceEdge = HalfCycle /\ ~ TimerDue
    /\ sinceEdge' = 0
    /\ slept' = IF initStep \in {"settle", "settleAgain"} /\ slept < SettleEdges
                THEN slept + 1 ELSE slept
    /\ IF isrAdded THEN ZeroCrossIsr ELSE UNCHANGED <<events, pin, timer, steady>>
    /\ UNCHANGED <<initStep, settings, isrAdded, taskUp>>

(* dimmer_timer_isr: the settings of now decide, not those of the edge.    *)
TimerIsr ==
    /\ TimerDue
    /\ timer' = [timer EXCEPT !.alarmOn = FALSE]
    /\ pin' = IF enabled /\ level > 0 /\ level < 100 THEN 1 ELSE pin
    /\ UNCHANGED <<initStep, slept, settings, isrAdded, events, taskUp, sinceEdge, steady>>

(* dimmer_control_task takes one event and reports.                        *)
ControlTask ==
    /\ taskUp /\ events > 0
    /\ events' = events - 1
    /\ UNCHANGED <<initStep, slept, settings, isrAdded, timer, pin, taskUp, sinceEdge, steady>>

(* A due interrupt is served, and the straight code of dimmer_init run,    *)
(* within a tick.  The counter is not followed past a half wave.           *)
Tick ==
    /\ sinceEdge < HalfCycle /\ ~ TimerDue /\ initStep \in Waiting
    /\ sinceEdge' = sinceEdge + 1
    /\ timer' = IF timer.running /\ timer.counter < HalfCycle
                THEN [timer EXCEPT !.counter = @ + 1] ELSE timer
    /\ UNCHANGED <<initStep, slept, settings, isrAdded, pin, events, taskUp, steady>>

DimmerStart == GpioInit \/ TimerInit \/ Disable \/ CreateTask \/ Enable \/ SetInitialLevel
DimmerRun == Edge \/ TimerIsr \/ ControlTask \/ Tick
DimmerNext == DimmerStart \/ DimmerRun \/ \E l \in 0 .. 255 : SetDimmerLevel(l)

DimmerSpec == DimmerInit /\ [][DimmerNext]_dimmerVars

-----------------------------------------------------------------------------
DimmerTypeOK ==
    /\ initStep \in InitSteps /\ slept \in 0 .. SettleEdges
    /\ level \in 0 .. 100 /\ enabled \in BOOLEAN
    /\ isrAdded \in BOOLEAN /\ taskUp \in BOOLEAN /\ steady \in BOOLEAN
    /\ timer \in [ready : BOOLEAN, running : BOOLEAN, counter : 0 .. HalfCycle,
                  alarm : 0 .. HalfCycle - 1, alarmOn : BOOLEAN]
    /\ pin \in {0, 1} /\ events \in 0 .. QueueSize
    /\ sinceEdge \in 0 .. HalfCycle

(* Ticks after an edge from which a half wave conducts; never within it    *)
(* when the dimmer is off.                                                 *)
FiringAngle ==
    IF ~ enabled \/ level = 0 THEN HalfCycle + 1
    ELSE IF level >= 100 THEN 0 ELSE FireDelay(level)

(* A half wave under unchanged settings is cut where the level says: the   *)
(* TRIAC is off before the firing delay of the level and on after it, in   *)
(* every half wave, whatever an older alarm, a change of the level in the  *)
(* half wave before or a full event queue left behind.                     *)
OnExactlyFromAngle ==
    steady => /\ pin = 1 => sinceEdge >= FiringAngle
              /\ sinceEdge > FiringAngle => pin = 1

(* The load stays off until dimmer_init switches the dimmer on, though the *)
(* zero-cross interrupt is registered earlier, with the flag still set:    *)
(* what it may arm before the flag is cleared comes too late.              *)
DarkUntilEnabled == initStep \notin {"level", "ready"} => pin = 0
=============================================================================
