---------------------------- MODULE BoardProofs -----------------------------
(* Safety of the whole board, for every level, half wave, retry limit,     *)
(* sensor and back-off: first the dimmer alone, then under app_main; the   *)
(* wait for Wi-Fi, the TLS handle, the documents of the MQTT task and the  *)
(* readings of the sensor.                                                 *)
EXTENDS Board, NaturalRecursion, SequenceTheorems

-----------------------------------------------------------------------------
(* The dimmer alone, under any sequence of levels, for every length of a   *)
(* half wave, of the settling delays and of the event queue.               *)

(* dimmer_init in order: the handler hears edges from the second step on,  *)
(* the timer runs from the third, the settings follow the step.            *)
StartOK ==
    /\ isrAdded <=> initStep # "pins"
    /\ timer.ready <=> initStep \notin {"pins", "timer"}
    /\ initStep \notin {"level", "ready"} => level = 50
    /\ initStep \in {"settle", "settleAgain"} => ~ enabled
    /\ initStep \in {"level", "ready"} => enabled

(* An alarm that was armed is ahead of the counter it starts with, which   *)
(* does not move before the flag is cleared.                               *)
AlarmOK ==
    /\ timer.running => timer.ready /\ timer.alarm >= 1
    /\ initStep \in {"pins", "timer", "disable"} => timer.counter = 0

Dims == enabled /\ level > 0 /\ level < 100

(* What a half wave under unchanged settings has come to.                  *)
SteadyOK ==
    steady =>
        /\ timer.ready
        /\ Dims =>
            /\ timer.running /\ timer.counter = sinceEdge /\ timer.alarm = FireDelay(level)
            /\ timer.alarmOn => pin = 0 /\ sinceEdge <= timer.alarm
            /\ ~ timer.alarmOn => pin = 1 /\ sinceEdge >= timer.alarm
        /\ enabled /\ level >= 100 => pin = 1
        /\ ~ enabled \/ level = 0 => pin = 0

DimmerInv == DimmerTypeOK /\ StartOK /\ AlarmOK /\ SteadyOK /\ DarkUntilEnabled

(* The delay of a level is at least the shortest one and within the half   *)
(* wave.                                                                   *)
LEMMA FireDelayBounds ==
    ASSUME NEW l \in 1 .. 99
    PROVE  FireDelay(l) \in MinDelay .. HalfCycle - 1 /\ FireDelay(l) \in Int
<1> USE DimmerAssumption
<1> DEFINE product == (100 - l) * HalfCycle
<1>1. product \in Nat /\ product <= 99 * HalfCycle
  BY Z3
<1>2. product \div 100 \in Nat /\ product \div 100 <= HalfCycle - 1
  <2> HIDE DEF product
  <2>1. QED
    BY <1>1
<1>3. QED
  BY <1>2 DEF FireDelay

Timers == [ready : BOOLEAN, running : BOOLEAN, counter : 0 .. HalfCycle,
           alarm : 0 .. HalfCycle - 1, alarmOn : BOOLEAN]

(* Arming a timer that is ready.                                           *)
LEMMA ArmType ==
    ASSUME DimmerTypeOK, NEW l \in 1 .. 99
    PROVE  /\ Arm(timer, FireDelay(l)) \in Timers
           /\ Arm(timer, FireDelay(l)).ready = timer.ready
           /\ timer.ready =>
                LET t == Arm(timer, FireDelay(l))
                IN  t.counter = 0 /\ t.alarm = FireDelay(l) /\ t.alarmOn /\ t.running /\ t.alarm >= 1
           /\ ~ timer.ready => Arm(timer, FireDelay(l)) = timer
<1> DEFINE delay == FireDelay(l)
<1> USE DimmerAssumption
<1>1. delay \in 0 .. HalfCycle - 1 /\ delay >= 1
  BY FireDelayBounds
<1> HIDE DEF delay
<1>2. CASE timer.ready
  <2>1. Arm(timer, delay) =
            [timer EXCEPT !.counter = 0, !.alarm = delay, !.alarmOn = TRUE, !.running = TRUE]
    BY <1>2 DEF Arm
  <2> DEFINE t1 == [timer EXCEPT !.counter = 0]
             t2 == [t1 EXCEPT !.alarm = delay]
             t3 == [t2 EXCEPT !.alarmOn = TRUE]
             t4 == [t3 EXCEPT !.running = TRUE]
  <2>2. t1 \in Timers /\ t1.counter = 0 /\ t1.ready = timer.ready
    BY DEF DimmerTypeOK, Timers
  <2> HIDE DEF t1
  <2>3. t2 \in Timers /\ t2.counter = 0 /\ t2.alarm = delay /\ t2.ready = timer.ready
    BY <1>1, <2>2 DEF Timers
  <2> HIDE DEF t2
  <2>4. t3 \in Timers /\ t3.counter = 0 /\ t3.alarm = delay /\ t3.ready = timer.ready /\ t3.alarmOn
    BY <2>3 DEF Timers
  <2> HIDE DEF t3
  <2>5. /\ t4 \in Timers /\ t4.counter = 0 /\ t4.alarm = delay /\ t4.ready = timer.ready
        /\ t4.alarmOn /\ t4.running
    BY <2>4 DEF Timers
  <2>6. Arm(timer, delay) = t4
    BY <2>1 DEF t1, t2, t3
  <2> HIDE DEF t4
  <2>7. QED
    BY <1>1, <1>2, <2>5, <2>6 DEF delay
<1>3. CASE ~ timer.ready
  BY <1>3 DEF Arm, DimmerTypeOK, Timers
<1>4. QED
  BY <1>2, <1>3

LEMMA DimmerInitOK == DimmerInit => DimmerInv
<1> SUFFICES ASSUME DimmerInit PROVE DimmerInv
  OBVIOUS
<1> USE DimmerAssumption DEF DimmerInit
<1>1. enabled /\ ~ isrAdded /\ ~ taskUp /\ ~ steady
  OBVIOUS
<1>2. enabled \in BOOLEAN /\ isrAdded \in BOOLEAN /\ taskUp \in BOOLEAN /\ steady \in BOOLEAN
  OBVIOUS
<1>3. ~ timer.ready /\ ~ timer.running /\ timer.counter = 0
  OBVIOUS
<1>4. timer \in [ready : BOOLEAN, running : BOOLEAN, counter : 0 .. HalfCycle,
                 alarm : 0 .. HalfCycle - 1, alarmOn : BOOLEAN]
  OBVIOUS
<1>5. initStep = "pins" /\ slept = 0 /\ level = 50 /\ pin = 0 /\ events = 0 /\ sinceEdge \in 0 .. HalfCycle
  OBVIOUS
<1> USE DEF InitSteps
<1>6. DimmerTypeOK
  BY <1>2, <1>4, <1>5 DEF DimmerTypeOK
<1>7. StartOK /\ DarkUntilEnabled
  BY <1>1, <1>3, <1>5 DEF StartOK, DarkUntilEnabled
<1>8. AlarmOK /\ SteadyOK
  BY <1>1, <1>3, <1>5 DEF AlarmOK, SteadyOK
<1>9. QED
  BY <1>6, <1>7, <1>8 DEF DimmerInv

LEMMA DimmerStartOK == DimmerInv /\ DimmerStart => DimmerInv'
<1> SUFFICES ASSUME DimmerInv, DimmerStart PROVE DimmerInv'
  OBVIOUS
<1> USE DimmerAssumption DEF DimmerInv, DimmerTypeOK, InitSteps, StartOK, AlarmOK, SteadyOK,
        DarkUntilEnabled, settings, Dims
<1>1. CASE GpioInit
  BY <1>1 DEF GpioInit
<1>2. CASE TimerInit
  BY <1>2 DEF TimerInit
<1>3. CASE Disable
  <2>1. /\ initStep = "disable" /\ initStep' = "settle" /\ slept' = 0
        /\ level' = level /\ timer' = timer /\ pin' = pin /\ events' = events
        /\ sinceEdge' = sinceEdge
    BY <1>3 DEF Disable
  <2>2. ~ enabled' /\ ~ steady' /\ (isrAdded' <=> isrAdded) /\ (taskUp' <=> taskUp)
    BY <1>3 DEF Disable
  <2>3. enabled' \in BOOLEAN /\ steady' \in BOOLEAN /\ isrAdded' \in BOOLEAN /\ taskUp' \in BOOLEAN
    BY <1>3 DEF Disable
  <2>4. DimmerTypeOK'
    BY <2>1, <2>3
  <2>5. StartOK'
    BY <2>1, <2>2
  <2>6. QED
    BY <2>1, <2>2, <2>4, <2>5
<1>4. CASE CreateTask
  BY <1>4 DEF CreateTask
<1>5. CASE Enable
  <2>1. /\ initStep = "settleAgain" /\ initStep' = "level" /\ slept' = 0
        /\ level' = level /\ timer' = timer /\ pin' = pin /\ events' = events
        /\ sinceEdge' = sinceEdge
    BY <1>5 DEF Enable
  <2>2. enabled' /\ ~ steady' /\ (isrAdded' <=> isrAdded) /\ (taskUp' <=> taskUp)
    BY <1>5 DEF Enable
  <2>3. enabled' \in BOOLEAN /\ steady' \in BOOLEAN /\ isrAdded' \in BOOLEAN /\ taskUp' \in BOOLEAN
    BY <1>5 DEF Enable
  <2>4. DimmerTypeOK'
    BY <2>1, <2>3
  <2>5. StartOK'
    BY <2>1, <2>2
  <2>6. QED
    BY <2>1, <2>2, <2>4, <2>5
<1>6. CASE SetInitialLevel
  <2>1. /\ initStep = "level" /\ initStep' = "ready" /\ slept' = slept
        /\ level' = 100 /\ timer' = timer /\ pin' = pin /\ events' = events
        /\ sinceEdge' = sinceEdge
    BY <1>6 DEF SetInitialLevel
  <2>2. (enabled' <=> enabled) /\ ~ steady' /\ (isrAdded' <=> isrAdded) /\ (taskUp' <=> taskUp)
    BY <1>6 DEF SetInitialLevel
  <2>3. enabled' \in BOOLEAN /\ steady' \in BOOLEAN /\ isrAdded' \in BOOLEAN /\ taskUp' \in BOOLEAN
    BY <1>6 DEF SetInitialLevel
  <2>4. DimmerTypeOK'
    BY <2>1, <2>3
  <2>5. StartOK'
    BY <2>1, <2>2
  <2>6. QED
    BY <2>1, <2>2, <2>4, <2>5
<1>7. QED
  BY <1>1, <1>2, <1>3, <1>4, <1>5, <1>6 DEF DimmerStart

LEMMA SetDimmerLevelOK ==
    ASSUME DimmerInv, NEW l \in 0 .. 255, SetDimmerLevel(l)
    PROVE  DimmerInv'
<1> USE DimmerAssumption DEF DimmerInv, DimmerTypeOK, InitSteps, StartOK, AlarmOK, SteadyOK,
        DarkUntilEnabled, Dims
<1>1. /\ initStep = "ready" /\ initStep' = "ready" /\ slept' = slept
      /\ level' = IF l > 100 THEN 100 ELSE l
      /\ timer' = timer /\ pin' = pin /\ events' = events /\ sinceEdge' = sinceEdge
  BY DEF SetDimmerLevel
<1>2. (enabled' <=> enabled) /\ ~ steady' /\ (isrAdded' <=> isrAdded) /\ (taskUp' <=> taskUp)
  BY DEF SetDimmerLevel
<1>3. enabled' \in BOOLEAN /\ steady' \in BOOLEAN /\ isrAdded' \in BOOLEAN /\ taskUp' \in BOOLEAN
  BY DEF SetDimmerLevel
<1>4. level' \in 0 .. 100
  BY <1>1
<1>5. DimmerTypeOK'
  BY <1>1, <1>3, <1>4
<1>6. StartOK'
  BY <1>1, <1>2
<1>7. QED
  BY <1>1, <1>2, <1>5, <1>6

-----------------------------------------------------------------------------
(* An edge, heard or not.                                                  *)
LEMMA EdgeOK == DimmerInv /\ Edge => DimmerInv'
<1> SUFFICES ASSUME DimmerInv, Edge PROVE DimmerInv'
  OBVIOUS
<1> USE DimmerAssumption DEF InitSteps
<1>1. DimmerTypeOK /\ StartOK /\ AlarmOK /\ SteadyOK /\ DarkUntilEnabled
  BY DEF DimmerInv
<1>2. /\ initStep' = initStep /\ level' = level /\ sinceEdge' = 0 /\ slept' \in 0 .. SettleEdges
      /\ (enabled' <=> enabled) /\ (isrAdded' <=> isrAdded)
      /\ enabled' \in BOOLEAN /\ isrAdded' \in BOOLEAN /\ taskUp' \in BOOLEAN
  <2>1. initStep' = initStep /\ level' = level /\ sinceEdge' = 0
    BY DEF Edge, settings
  <2>2. enabled' = enabled /\ isrAdded' = isrAdded /\ taskUp' = taskUp
    BY DEF Edge, settings
  <2>3. slept' \in 0 .. SettleEdges
    BY <1>1 DEF Edge, DimmerTypeOK
  <2>4. enabled' \in BOOLEAN /\ isrAdded' \in BOOLEAN /\ taskUp' \in BOOLEAN
    BY <1>1, <2>2 DEF DimmerTypeOK
  <2>5. QED
    BY <2>1, <2>2, <2>3, <2>4
<1>3. CASE ~ isrAdded
  <2>1. events' = events /\ pin' = pin /\ timer' = timer /\ ~ steady' /\ steady' \in BOOLEAN
    <3>1. events' = events /\ pin' = pin /\ timer' = timer /\ steady' = steady
      BY <1>3 DEF Edge
    <3>2. ~ steady
      BY <1>1, <1>3 DEF SteadyOK, StartOK
    <3>3. QED
      BY <1>1, <3>1, <3>2 DEF DimmerTypeOK
  <2>2. DimmerTypeOK'
    BY <1>1, <1>2, <2>1 DEF DimmerTypeOK
  <2>3. StartOK' /\ AlarmOK' /\ SteadyOK' /\ DarkUntilEnabled'
    BY <1>1, <1>2, <2>1 DEF StartOK, AlarmOK, SteadyOK, DarkUntilEnabled
  <2>4. QED
    BY <2>2, <2>3 DEF DimmerInv
<1>4. CASE isrAdded
  <2>1. ZeroCrossIsr
    BY <1>4 DEF Edge
  <2>2. events' \in 0 .. QueueSize /\ pin' = IF enabled /\ level >= 100 THEN 1 ELSE 0
    BY <1>1, <2>1 DEF ZeroCrossIsr, DimmerTypeOK
  <2>3. (steady' <=> timer.ready) /\ steady' \in BOOLEAN
    <3>1. steady' = timer.ready /\ timer.ready \in BOOLEAN
      BY <1>1, <2>1 DEF ZeroCrossIsr, DimmerTypeOK
    <3>2. QED
      BY <3>1
  <2>4. CASE Dims
    <3>1. level \in 1 .. 99 /\ enabled
      BY <1>1, <2>4 DEF Dims, DimmerTypeOK
    <3>2. timer' = Arm(timer, FireDelay(level))
      BY <2>1, <3>1 DEF ZeroCrossIsr
    <3>3. /\ timer' \in Timers /\ timer'.ready = timer.ready
          /\ timer.ready => /\ timer'.counter = 0 /\ timer'.alarm = FireDelay(level)
                            /\ timer'.alarmOn /\ timer'.running /\ timer'.alarm >= 1
          /\ ~ timer.ready => timer' = timer
      BY <1>1, <3>1, <3>2, ArmType
    <3>4. pin' = 0
      BY <1>1, <2>2, <3>1 DEF DimmerTypeOK
    <3>5. DimmerTypeOK'
      BY <1>1, <1>2, <2>2, <2>3, <3>3, <3>4 DEF DimmerTypeOK, Timers
    <3>6. StartOK' /\ DarkUntilEnabled'
      BY <1>1, <1>2, <3>3, <3>4 DEF StartOK, DarkUntilEnabled
    <3>7. AlarmOK'
      BY <1>1, <1>2, <3>3 DEF AlarmOK
    <3>8. SteadyOK'
      <4>1. FireDelay(level)' = FireDelay(level)
        BY <1>2 DEF FireDelay
      <4>2. timer'.alarm \in Nat
        BY <3>3 DEF Timers
      <4>3. QED
        BY <1>2, <2>3, <3>1, <3>3, <3>4, <4>1, <4>2 DEF SteadyOK, Dims
    <3>9. QED
      BY <3>5, <3>6, <3>7, <3>8 DEF DimmerInv
  <2>5. CASE ~ Dims
    <3>1. timer' = timer
      BY <1>1, <2>1, <2>5 DEF ZeroCrossIsr, Dims, DimmerTypeOK
    <3>2. DimmerTypeOK'
      BY <1>1, <1>2, <2>2, <2>3, <3>1 DEF DimmerTypeOK
    <3>3. StartOK' /\ AlarmOK'
      BY <1>1, <1>2, <3>1 DEF StartOK, AlarmOK
    <3>4. DarkUntilEnabled'
      BY <1>1, <1>2, <2>2 DEF DarkUntilEnabled, StartOK
    <3>5. SteadyOK'
      BY <1>1, <1>2, <2>2, <2>3, <2>5, <3>1 DEF SteadyOK, Dims, DimmerTypeOK
    <3>6. QED
      BY <3>2, <3>3, <3>4, <3>5 DEF DimmerInv
  <2>6. QED
    BY <2>4, <2>5
<1>5. QED
  BY <1>3, <1>4

(* The alarm goes off: never before the flag was cleared, and under steady *)
(* settings at the delay of the level.                                     *)
LEMMA TimerIsrOK == DimmerInv /\ TimerIsr => DimmerInv'
<1> SUFFICES ASSUME DimmerInv, TimerIsr PROVE DimmerInv'
  OBVIOUS
<1> USE DimmerAssumption DEF InitSteps
<1>1. DimmerTypeOK /\ StartOK /\ AlarmOK /\ SteadyOK /\ DarkUntilEnabled
  BY DEF DimmerInv
<1>2. /\ initStep' = initStep /\ slept' = slept /\ level' = level /\ events' = events
      /\ sinceEdge' = sinceEdge /\ enabled' = enabled /\ isrAdded' = isrAdded
      /\ taskUp' = taskUp /\ steady' = steady
  BY DEF TimerIsr, settings
<1>3. timer.running /\ timer.alarmOn /\ timer.counter >= timer.alarm
  BY DEF TimerIsr, TimerDue
<1>4. /\ timer' \in Timers /\ timer'.ready = timer.ready /\ timer'.running = timer.running
      /\ timer'.counter = timer.counter /\ timer'.alarm = timer.alarm /\ ~ timer'.alarmOn
  BY <1>1 DEF TimerIsr, DimmerTypeOK, Timers
<1>5. pin' = (IF Dims THEN 1 ELSE pin)
  BY DEF TimerIsr, Dims
<1>6. initStep \notin {"pins", "timer", "disable"}
  <2>1. timer.alarm >= 1 /\ timer.counter \in Nat /\ timer.alarm \in Nat
    BY <1>1, <1>3 DEF AlarmOK, DimmerTypeOK
  <2>2. QED
    BY <1>1, <1>3, <2>1 DEF AlarmOK
<1>7. DimmerTypeOK'
  <2>1. pin' \in {0, 1}
    BY <1>1, <1>5 DEF DimmerTypeOK
  <2>2. QED
    BY <1>1, <1>2, <1>4, <2>1 DEF DimmerTypeOK, Timers
<1>8. StartOK' /\ AlarmOK'
  BY <1>1, <1>2, <1>4 DEF StartOK, AlarmOK
<1>9. DarkUntilEnabled'
  BY <1>1, <1>2, <1>5, <1>6 DEF DarkUntilEnabled, StartOK, Dims, DimmerTypeOK
<1>10. SteadyOK'
  <2>1. FireDelay(level)' = FireDelay(level)
    BY <1>2 DEF FireDelay
  <2>2. CASE Dims
    BY <1>1, <1>2, <1>3, <1>4, <1>5, <2>1, <2>2 DEF SteadyOK, Dims, DimmerTypeOK
  <2>3. CASE ~ Dims
    BY <1>1, <1>2, <1>4, <1>5, <2>3 DEF SteadyOK, Dims, DimmerTypeOK
  <2>4. QED
    BY <2>2, <2>3
<1>11. QED
  BY <1>7, <1>8, <1>9, <1>10 DEF DimmerInv

LEMMA ControlTaskOK == DimmerInv /\ ControlTask => DimmerInv'
<1> SUFFICES ASSUME DimmerInv, ControlTask PROVE DimmerInv'
  OBVIOUS
<1>1. /\ initStep' = initStep /\ slept' = slept /\ level' = level /\ enabled' = enabled
      /\ isrAdded' = isrAdded /\ timer' = timer /\ pin' = pin /\ taskUp' = taskUp
      /\ sinceEdge' = sinceEdge /\ steady' = steady
  BY DEF ControlTask, settings
<1>2. events' \in 0 .. QueueSize
  BY DimmerAssumption DEF ControlTask, DimmerInv, DimmerTypeOK
<1>3. DimmerTypeOK'
  BY <1>1, <1>2 DEF DimmerInv, DimmerTypeOK
<1>4. StartOK' /\ AlarmOK' /\ DarkUntilEnabled'
  BY <1>1 DEF DimmerInv, StartOK, AlarmOK, DarkUntilEnabled
<1>5. SteadyOK'
  <2>1. FireDelay(level)' = FireDelay(level)
    BY <1>1 DEF FireDelay
  <2>2. QED
    BY <1>1, <2>1 DEF DimmerInv, SteadyOK, Dims
<1>6. QED
  BY <1>3, <1>4, <1>5 DEF DimmerInv

(* Counter and time go on together, up to the alarm and no further before  *)
(* its interrupt.                                                          *)
LEMMA TickOK == DimmerInv /\ Tick => DimmerInv'
<1> SUFFICES ASSUME DimmerInv, Tick PROVE DimmerInv'
  OBVIOUS
<1> USE DimmerAssumption DEF InitSteps
<1>1. DimmerTypeOK /\ StartOK /\ AlarmOK /\ SteadyOK /\ DarkUntilEnabled
  BY DEF DimmerInv
<1>2. /\ initStep' = initStep /\ slept' = slept /\ level' = level /\ enabled' = enabled
      /\ isrAdded' = isrAdded /\ pin' = pin /\ events' = events /\ taskUp' = taskUp
      /\ steady' = steady
  BY DEF Tick, settings
<1>3. sinceEdge < HalfCycle /\ sinceEdge' = sinceEdge + 1 /\ sinceEdge' \in 0 .. HalfCycle
  BY <1>1 DEF Tick, DimmerTypeOK
<1>4. initStep \notin {"pins", "timer", "disable"}
  BY DEF Tick, Waiting
<1>5. /\ timer' \in Timers /\ timer'.ready = timer.ready /\ timer'.running = timer.running
      /\ timer'.alarm = timer.alarm /\ timer'.alarmOn = timer.alarmOn
      /\ timer.running /\ timer.counter < HalfCycle => timer'.counter = timer.counter + 1
  <2>1. CASE timer.running /\ timer.counter < HalfCycle
    <3>1. timer' = [timer EXCEPT !.counter = timer.counter + 1]
      BY <2>1 DEF Tick
    <3>2. timer.counter + 1 \in 0 .. HalfCycle
      BY <1>1, <2>1 DEF DimmerTypeOK
    <3>3. QED
      BY <1>1, <3>1, <3>2 DEF DimmerTypeOK, Timers
  <2>2. CASE ~ (timer.running /\ timer.counter < HalfCycle)
    <3>1. timer' = timer
      BY <2>2 DEF Tick
    <3>2. QED
      BY <1>1, <2>2, <3>1 DEF DimmerTypeOK, Timers
  <2>3. QED
    BY <2>1, <2>2
<1>6. DimmerTypeOK'
  BY <1>1, <1>2, <1>3, <1>5 DEF DimmerTypeOK, Timers
<1>7. StartOK' /\ AlarmOK' /\ DarkUntilEnabled'
  BY <1>1, <1>2, <1>4, <1>5 DEF StartOK, AlarmOK, DarkUntilEnabled
<1>8. SteadyOK'
  <2>1. FireDelay(level)' = FireDelay(level)
    BY <1>2 DEF FireDelay
  <2>2. timer.running /\ timer.alarmOn => timer.counter < timer.alarm
    BY <1>1 DEF Tick, TimerDue, DimmerTypeOK
  <2>3. CASE Dims /\ steady
    <3>1. timer.running /\ timer.counter = sinceEdge /\ timer.alarm = FireDelay(level)
      BY <1>1, <2>3 DEF SteadyOK
    <3>2. timer'.counter = sinceEdge'
      BY <1>3, <1>5, <3>1
    <3>3. QED
      BY <1>1, <1>2, <1>3, <1>5, <2>1, <2>2, <2>3, <3>1, <3>2 DEF SteadyOK, Dims, DimmerTypeOK
  <2>4. CASE ~ (Dims /\ steady)
    BY <1>1, <1>2, <1>5, <2>4 DEF SteadyOK, Dims
  <2>5. QED
    BY <2>3, <2>4
<1>9. QED
  BY <1>6, <1>7, <1>8 DEF DimmerInv

-----------------------------------------------------------------------------
LEMMA DimmerRunOK == DimmerInv /\ DimmerRun => DimmerInv'
BY EdgeOK, TimerIsrOK, ControlTaskOK, TickOK DEF DimmerRun

LEMMA DimmerStutterOK == DimmerInv /\ UNCHANGED dimmerVars => DimmerInv'
<1> SUFFICES ASSUME DimmerInv, UNCHANGED dimmerVars PROVE DimmerInv'
  OBVIOUS
<1>1. /\ initStep' = initStep /\ slept' = slept /\ level' = level /\ enabled' = enabled
      /\ isrAdded' = isrAdded /\ timer' = timer /\ pin' = pin /\ events' = events
      /\ taskUp' = taskUp /\ sinceEdge' = sinceEdge /\ steady' = steady
  BY DEF dimmerVars, settings
<1>2. FireDelay(level)' = FireDelay(level)
  BY <1>1 DEF FireDelay
<1>3. QED
  BY <1>1, <1>2 DEF DimmerInv, DimmerTypeOK, StartOK, AlarmOK, SteadyOK, DarkUntilEnabled, Dims

(* The half wave conducts from the firing angle on.                        *)
LEMMA DimmerInvCuts == DimmerInv => OnExactlyFromAngle
<1> SUFFICES ASSUME DimmerInv, steady PROVE
        (pin = 1 => sinceEdge >= FiringAngle) /\ (sinceEdge > FiringAngle => pin = 1)
  BY DEF OnExactlyFromAngle
<1>1. DimmerTypeOK /\ SteadyOK
  BY DEF DimmerInv
<1>2. CASE Dims
  <2>1. FiringAngle = FireDelay(level) /\ level \in 1 .. 99
    BY <1>1, <1>2 DEF FiringAngle, Dims, DimmerTypeOK
  <2>2. FireDelay(level) \in Int
    BY <2>1, FireDelayBounds
  <2>3. QED
    BY <1>1, <1>2, <2>1, <2>2 DEF SteadyOK, DimmerTypeOK
<1>3. CASE ~ Dims
  BY <1>1, <1>3, DimmerAssumption DEF FiringAngle, SteadyOK, Dims, DimmerTypeOK
<1>4. QED
  BY <1>2, <1>3

LEMMA DimmerNextOK == DimmerInv /\ [DimmerNext]_dimmerVars => DimmerInv'
BY DimmerStartOK, DimmerRunOK, SetDimmerLevelOK, DimmerStutterOK DEF DimmerNext

(* Whatever the levels set and when, the load is off until the dimmer is   *)
(* enabled, and every half wave under unchanged settings is cut where its  *)
(* level says.                                                             *)
THEOREM DimmerCuts == DimmerSpec => [](OnExactlyFromAngle /\ DarkUntilEnabled)
<1>1. DimmerInv => OnExactlyFromAngle /\ DarkUntilEnabled
  BY DimmerInvCuts DEF DimmerInv
<1>2. QED
  BY DimmerInitOK, DimmerNextOK, <1>1, PTL DEF DimmerSpec

-----------------------------------------------------------------------------
(* The board                                                               *)

(* Who is registered follows from where initialise_wifi is.                *)
HandlersOK ==
    /\ group = "live" <=> wifiStep \in {"wait", "unregisterIp", "unregisterAny", "delete"}
    /\ registered \subseteq {"WIFI", "IP"}
    /\ wifiStep = "unregisterAny" => registered \subseteq {"WIFI"}
    /\ wifiStep \in {"start", "delete", "done"} => registered = {}
    /\ wifiStep \in {"start", "wait", "unregisterIp", "unregisterAny", "delete", "done"}

(* The handle is set exactly in a session, until it is disconnected.       *)
HandleOK ==
    /\ allocated = IF pxTls = "NULL" THEN 0 ELSE 1
    /\ taskStep = "session" => pxTls # "NULL"
    /\ taskStep \notin {"session", "disconnect"} => pxTls = "NULL"

(* Each part of app_main comes after the one before, so the MQTT task only *)
(* ever sees the dimmer ready.                                             *)
OrderOK ==
    /\ wifiStep # "start" => initStep = "ready"
    /\ appStep # "init" => initStep = "ready"
    /\ appStep = "init" => taskStep = "none"
    /\ taskStep # "none" => initStep = "ready"
    /\ initStep = "ready" => level \in {100, TargetLevel}
    /\ DocumentAfterStart

BoardInv == DimmerInv /\ HandlersOK /\ HandleOK /\ OrderOK

LEMMA BoardInitOK == Init => BoardInv
<1> SUFFICES ASSUME Init PROVE BoardInv
  OBVIOUS
<1>1. DimmerInv
  BY DimmerInitOK DEF Init
<1>2. HandlersOK
  BY DEF Init, WifiInit, HandlersOK
<1>3. HandleOK
  BY DEF Init, TlsInit, HandleOK
<1>4. OrderOK
  BY DEF Init, DimmerInit, WifiInit, OrderOK, DocumentAfterStart
<1>5. QED
  BY <1>1, <1>2, <1>3, <1>4 DEF BoardInv

(* The dimmer's own invariant, whatever the rest of the board does.        *)
LEMMA BoardDimmerOK == BoardInv /\ [Next]_vars => DimmerInv'
<1> SUFFICES ASSUME BoardInv, [Next]_vars PROVE DimmerInv'
  OBVIOUS
<1>1. DimmerInv
  BY DEF BoardInv
<1>2. CASE DimmerStart
  BY <1>1, <1>2, DimmerStartOK
<1>3. CASE DimmerRun
  BY <1>1, <1>3, DimmerRunOK
<1>4. CASE SetDimmerLevel(TargetLevel)
  BY <1>1, <1>4, BoardAssumption, SetDimmerLevelOK
<1>5. CASE UNCHANGED dimmerVars
  BY <1>1, <1>5, DimmerStutterOK
<1>6. DimmerStart \/ DimmerRun \/ SetDimmerLevel(TargetLevel) \/ UNCHANGED dimmerVars
  BY DEF Next, vars, AppMain, StartDimmer, StartWifi, CreateMqttTask, SetTargetLevel, MqttTask,
         ReadSensor, MakeDocument, StartConnect, ConnectSucceeds, ConnectFails, ConnectGivesUp,
         Session, Disconnect, Sleep, Interrupts, EventLoop, Station
<1>7. QED
  BY <1>2, <1>3, <1>4, <1>5, <1>6

(* Handlers come and go with initialise_wifi alone.                        *)
LEMMA BoardHandlersOK == BoardInv /\ [Next]_vars => HandlersOK'
<1> SUFFICES ASSUME BoardInv, [Next]_vars PROVE HandlersOK'
  OBVIOUS
<1> USE DEF HandlersOK
<1>1. HandlersOK
  BY DEF BoardInv
<1>2. CASE InitialiseWifi
  BY <1>1, <1>2 DEF InitialiseWifi, WifiStart, WaitReturns, UnregisterIp, UnregisterAny, DeleteGroup
<1>3. CASE HandleEvent \/ Driver
  BY <1>1, <1>3 DEF HandleEvent, Driver, Associate, LinkLost, DhcpAnswers
<1>4. CASE UNCHANGED wifiVars
  BY <1>1, <1>4 DEF wifiVars
<1>5. InitialiseWifi \/ HandleEvent \/ Driver \/ UNCHANGED wifiVars
  BY DEF Next, vars, AppMain, StartDimmer, StartWifi, CreateMqttTask, SetTargetLevel, MqttTask,
         ReadSensor, MakeDocument, StartConnect, ConnectSucceeds, ConnectFails, ConnectGivesUp,
         Session, Disconnect, Sleep, Interrupts, EventLoop, Station
<1>6. QED
  BY <1>2, <1>3, <1>4, <1>5

(* Only the MQTT task touches the handle.                                  *)
LEMMA BoardHandleOK == BoardInv /\ [Next]_vars => HandleOK'
<1> SUFFICES ASSUME BoardInv, [Next]_vars PROVE HandleOK'
  OBVIOUS
<1> USE DEF HandleOK, tlsVars
<1>1. HandleOK /\ (appStep = "init" => taskStep = "none")
  BY DEF BoardInv, OrderOK
<1>2. CASE CreateMqttTask
  BY <1>1, <1>2 DEF CreateMqttTask
<1>3. CASE ReadSensor \/ MakeDocument \/ Session \/ Sleep
  BY <1>1, <1>3 DEF ReadSensor, MakeDocument, Session, Sleep
<1>4. CASE StartConnect \/ ConnectSucceeds \/ ConnectFails \/ ConnectGivesUp \/ Disconnect
  BY <1>1, <1>4 DEF StartConnect, ForgetHandle, ConnectSucceeds, TlsConnectSucceeds,
     ConnectFails, ConnectGivesUp, TlsConnectFails, Disconnect, TlsDisconnect
<1>5. CASE UNCHANGED <<tlsVars, taskStep>>
  BY <1>1, <1>5
<1>6. CreateMqttTask \/ MqttTask \/ UNCHANGED <<tlsVars, taskStep>>
  BY DEF Next, vars, taskVars, AppMain, StartDimmer, StartWifi, SetTargetLevel, Interrupts,
         EventLoop, Station
<1>7. QED
  BY <1>2, <1>3, <1>4, <1>5, <1>6 DEF MqttTask

(* Nothing of the board runs ahead of dimmer_init.                         *)
LEMMA BoardOrderOK == BoardInv /\ [Next]_vars => OrderOK'
<1> SUFFICES ASSUME BoardInv, [Next]_vars PROVE OrderOK'
  OBVIOUS
<1> USE DEF OrderOK, DocumentAfterStart, NoDocument
<1>1. OrderOK /\ DimmerTypeOK /\ StartOK
  BY DEF BoardInv, DimmerInv
<1>2. CASE StartDimmer
  <2>1. /\ wifiStep' = wifiStep /\ appStep' = appStep /\ taskStep' = taskStep /\ document' = document
        /\ DimmerStart
    BY <1>2 DEF StartDimmer, wifiVars, taskVars
  <2>2. initStep # "ready" /\ (initStep' = "ready" => level' = 100)
    BY <2>1 DEF DimmerStart, GpioInit, TimerInit, Disable, CreateTask, Enable, SetInitialLevel
  <2>3. QED
    BY <1>1, <2>1, <2>2
<1>3. CASE SetTargetLevel
  BY <1>1, <1>3 DEF SetTargetLevel, SetDimmerLevel, wifiVars, taskVars
<1>4. CASE StartWifi \/ EventLoop \/ Station
  <2>1. /\ initStep' = initStep /\ level' = level /\ appStep' = appStep /\ taskStep' = taskStep
        /\ document' = document
    BY <1>4 DEF StartWifi, EventLoop, Station, dimmerVars, settings, taskVars
  <2>2. wifiStep' # wifiStep => initStep = "ready"
    BY <1>4 DEF StartWifi, EventLoop, Station, HandleEvent, Driver, Associate, LinkLost, DhcpAnswers
  <2>3. QED
    BY <1>1, <2>1, <2>2
<1>5. CASE Interrupts
  <2>1. /\ initStep' = initStep /\ level' = level /\ appStep' = appStep /\ taskStep' = taskStep
        /\ document' = document /\ wifiStep' = wifiStep
    BY <1>5 DEF Interrupts, DimmerRun, Edge, TimerIsr, ControlTask, Tick, settings, wifiVars, taskVars
  <2>2. QED
    BY <1>1, <2>1
<1>6. CASE CreateMqttTask
  BY <1>1, <1>6 DEF CreateMqttTask, dimmerVars, settings, wifiVars
<1>7. CASE MakeDocument
  <2>1. /\ initStep' = initStep /\ level' = level /\ appStep' = appStep /\ wifiStep' = wifiStep
        /\ taskStep' = "start" /\ taskStep = "document"
        /\ document' = [level |-> level, enabled |-> enabled]
    BY <1>7 DEF MakeDocument, dimmerVars, settings, wifiVars
  <2>2. enabled
    BY <1>1, <2>1 DEF StartOK
  <2>3. QED
    BY <1>1, <2>1, <2>2
<1>8. CASE ReadSensor \/ StartConnect \/ ConnectSucceeds \/ ConnectFails \/ ConnectGivesUp
           \/ Session \/ Disconnect \/ Sleep
  <2>1. /\ initStep' = initStep /\ level' = level /\ appStep' = appStep /\ wifiStep' = wifiStep
        /\ document' = document /\ taskStep # "none"
    BY <1>8 DEF ReadSensor, StartConnect, ConnectSucceeds, ConnectFails, ConnectGivesUp, Session,
       Disconnect, Sleep, dimmerVars, settings, wifiVars
  <2>2. QED
    BY <1>1, <2>1
<1>9. CASE UNCHANGED vars
  BY <1>1, <1>9 DEF vars, dimmerVars, settings, wifiVars, taskVars
<1>10. QED
  BY <1>2, <1>3, <1>4, <1>5, <1>6, <1>7, <1>8, <1>9 DEF Next, AppMain, MqttTask

LEMMA BoardNextOK == BoardInv /\ [Next]_vars => BoardInv'
BY BoardDimmerOK, BoardHandlersOK, BoardHandleOK, BoardOrderOK DEF BoardInv

THEOREM BoardInvariance == Spec => []BoardInv
BY BoardInitOK, BoardNextOK, PTL DEF Spec

-----------------------------------------------------------------------------
(* The TRIAC under app_main, the MQTT task and the interrupts: every half  *)
(* wave under unchanged settings is cut where the level says.              *)
THEOREM BoardCuts == Spec => []OnExactlyFromAngle
<1>1. BoardInv => OnExactlyFromAngle
  BY DimmerInvCuts DEF BoardInv
<1>2. QED
  BY <1>1, BoardInvariance, PTL

(* The load stays off until dimmer_init switches the dimmer on.            *)
THEOREM BoardDark == Spec => []DarkUntilEnabled
<1>1. BoardInv => DarkUntilEnabled
  BY DEF BoardInv, DimmerInv
<1>2. QED
  BY <1>1, BoardInvariance, PTL

(* No event, however late, sets a bit of the deleted event group.          *)
THEOREM BoardGroup == Spec => []NoBitAfterDelete
<1>1. BoardInv => NoBitAfterDelete
  BY DEF BoardInv, HandlersOK, NoBitAfterDelete
<1>2. QED
  BY <1>1, BoardInvariance, PTL

(* No TLS context outlives the handle that can destroy it.                 *)
THEOREM BoardTls == Spec => []NoTlsLeak
<1>1. BoardInv => NoTlsLeak
  BY DEF BoardInv, HandleOK, NoTlsLeak
<1>2. QED
  BY <1>1, BoardInvariance, PTL

(* Only settings the dimmer runs at get into a document.                   *)
THEOREM BoardDocument == Spec => []DocumentAfterStart
<1>1. BoardInv => DocumentAfterStart
  BY DEF BoardInv, OrderOK
<1>2. QED
  BY <1>1, BoardInvariance, PTL

(* A station that is down after initialise_wifi has returned stays down:   *)
(* no handler is left that could connect it.                               *)
THEOREM BoardStaysDown == Spec => NobodyReconnects
<1>1. BoardInv /\ [Next]_vars => [wifiStep = "done" /\ link = "down" => link' = "down"]_wifiVars
  <2> SUFFICES ASSUME BoardInv, [Next]_vars, wifiStep = "done", link = "down" PROVE link' = "down"
    OBVIOUS
  <2>1. registered = {}
    BY DEF BoardInv, HandlersOK
  <2>2. CASE InitialiseWifi
    BY <2>2 DEF InitialiseWifi, WifiStart, WaitReturns, UnregisterIp, UnregisterAny, DeleteGroup
  <2>3. CASE HandleEvent
    BY <2>1, <2>3 DEF HandleEvent
  <2>4. CASE Driver
    BY <2>4 DEF Driver, Associate, LinkLost, DhcpAnswers
  <2>5. CASE UNCHANGED wifiVars
    BY <2>5 DEF wifiVars
  <2>6. InitialiseWifi \/ HandleEvent \/ Driver \/ UNCHANGED wifiVars
    BY DEF Next, vars, AppMain, StartDimmer, StartWifi, CreateMqttTask, SetTargetLevel, MqttTask,
           ReadSensor, MakeDocument, StartConnect, ConnectSucceeds, ConnectFails, ConnectGivesUp,
           Session, Disconnect, Sleep, Interrupts, EventLoop, Station
  <2>7. QED
    BY <2>2, <2>3, <2>4, <2>5, <2>6
<1>2. QED
  BY <1>1, BoardInvariance, PTL DEF Spec, NobodyReconnects


-----------------------------------------------------------------------------
(* The wait for Wi-Fi.  While it lasts, the queue holds what the handler   *)
(* has not seen of the link, never an older event: a disconnection that is *)
(* counted is that of the last attempt.                                    *)
Unheard ==
    \/ link \in {"connecting", "up"} /\ wifiEvents = <<>>
    \/ link = "ip" /\ wifiEvents \in {<<>>, <<"GOT_IP">>}
    \/ link = "down" /\ wifiEvents \in {<<"START">>, <<"DISCONNECTED">>, <<"GOT_IP", "DISCONNECTED">>}
    \/ link = "down" /\ wifiEvents = <<>> /\ "FAIL" \in bits

RetriesCounted ==
    \/ wifiEvents \in {<<"GOT_IP">>, <<"GOT_IP", "DISCONNECTED">>}
    \/ tries >= retryNum

WaitOK ==
    /\ retryNum \in 0 .. MaximumRetry /\ tries \in Nat
    /\ wifiStep \in {"start", "wait"} => wifiResult = "none"
    /\ wifiStep = "start" => /\ link = "down" /\ wifiEvents = <<>> /\ registered = {}
                             /\ bits = {} /\ retryNum = 0
    /\ wifiStep = "wait" => /\ Unheard /\ RetriesCounted
                            /\ registered = {"WIFI", "IP"} /\ bits \subseteq {"CONNECTED", "FAIL"}
    /\ FailOnlyWhenExhausted

LEMMA WaitInitOK == WifiInit => WaitOK
BY WifiAssumption DEF WifiInit, WaitOK, FailOnlyWhenExhausted, FailureTold

LEMMA SecondAppended ==
    ASSUME NEW S, NEW one \in Seq(S), NEW two \in Seq(S), NEW b \in S,
           Len(one) = 1, Len(two) = 2, two[1] = one[1], two[2] = b
    PROVE  Append(one, b) = two
<1> DEFINE more == Append(one, b)
<1>1. more \in Seq(S)
  BY AppendProperties
<1>2. Len(more) = Len(one) + 1
  BY AppendProperties
<1>3. more[Len(one) + 1] = b
  BY AppendProperties
<1>4. \A i \in 1 .. Len(one) : more[i] = one[i]
  BY AppendProperties
<1> HIDE DEF more
<1>5. Len(more) = Len(two) /\ \A i \in 1 .. Len(more) : more[i] = two[i]
  BY <1>2, <1>3, <1>4
<1>6. more = two
  BY <1>1, <1>5, SeqEqual
<1>7. QED
  BY <1>6 DEF more

LEMMA AppendToOne ==
    ASSUME NEW a, NEW b
    PROVE  Append(<<a>>, b) = <<a, b>>
<1> DEFINE S == {a, b}
<1>1. <<a>> \in Seq(S) /\ Len(<<a>>) = 1 /\ <<a, b>>[1] = <<a>>[1]
  OBVIOUS
<1>2. b \in S /\ <<a, b>> \in Seq(S) /\ Len(<<a, b>>) = 2 /\ <<a, b>>[2] = b
  OBVIOUS
<1> HIDE DEF S
<1>3. QED
  BY <1>1, <1>2, SecondAppended

LEMMA WaitNextOK == WaitOK /\ [WifiNext]_wifiVars => WaitOK'
<1> SUFFICES ASSUME WaitOK, [WifiNext]_wifiVars PROVE WaitOK'
  OBVIOUS
<1> USE WifiAssumption DEF WaitOK, FailOnlyWhenExhausted, FailureTold
<1>1. CASE WifiStart
  <2>1. wifiEvents' = <<"START">> /\ wifiStep' = "wait" /\ link' = "down"
    BY <1>1 DEF WifiStart
  <2>2. Unheard' /\ RetriesCounted'
    BY <1>1, <2>1 DEF WifiStart, Unheard, RetriesCounted
  <2>3. QED
    BY <1>1, <2>2 DEF WifiStart
<1>2. CASE WaitReturns
  BY <1>2 DEF WaitReturns
<1>3. CASE UnregisterIp \/ UnregisterAny
  BY <1>3 DEF UnregisterIp, UnregisterAny
<1>4. CASE DeleteGroup
  BY <1>4 DEF DeleteGroup
(* In the wait each shape of the queue has its one first event.            *)
<1>5. CASE HandleEvent
  <2>1. /\ wifiStep' = wifiStep /\ registered' = registered /\ wifiResult' = wifiResult
        /\ wifiEvents # <<>> /\ wifiEvents' = Tail(wifiEvents)
    BY <1>5 DEF HandleEvent
  <2>2. retryNum' \in 0 .. MaximumRetry /\ tries' \in Nat
    BY <1>5 DEF HandleEvent, HandleStart, HandleDisconnected, HandleGotIp, EspConnect
  <2>3. CASE wifiStep = "wait"
    <3>1. /\ Unheard /\ RetriesCounted /\ registered = {"WIFI", "IP"}
          /\ bits \subseteq {"CONNECTED", "FAIL"} /\ wifiResult = "none" /\ "FAIL" \notin bits
      BY <2>1, <2>3
    <3>2. CASE wifiEvents = <<"START">>
      <4>1. wifiEvents' = <<>> /\ link = "down" /\ HandleStart
        BY <1>5, <2>1, <3>1, <3>2 DEF HandleEvent, Bases, Unheard
      <4>2. link' = "connecting" /\ tries' = tries + 1 /\ UNCHANGED <<bits, retryNum>>
        BY <4>1 DEF HandleStart, EspConnect
      <4>3. RetriesCounted' /\ Unheard'
        BY <3>1, <3>2, <4>1, <4>2 DEF RetriesCounted, Unheard
      <4>4. QED
        BY <2>1, <2>2, <2>3, <3>1, <4>2, <4>3
    <3>3. CASE wifiEvents = <<"DISCONNECTED">>
      <4>1. wifiEvents' = <<>> /\ link = "down" /\ HandleDisconnected /\ tries >= retryNum
        BY <1>5, <2>1, <3>1, <3>3 DEF HandleEvent, Bases, Unheard, RetriesCounted
      <4>2. CASE retryNum < MaximumRetry
        <5>1. link' = "connecting" /\ tries' = tries + 1 /\ retryNum' = retryNum + 1 /\ bits' = bits
          BY <4>1, <4>2 DEF HandleDisconnected, EspConnect
        <5>2. RetriesCounted' /\ Unheard'
          BY <4>1, <5>1 DEF RetriesCounted, Unheard
        <5>3. QED
          BY <2>1, <2>2, <2>3, <3>1, <5>1, <5>2
      <4>3. CASE ~ (retryNum < MaximumRetry)
        <5>1. bits' = bits \union {"FAIL"} /\ UNCHANGED <<link, tries, retryNum>>
          BY <4>1, <4>3 DEF HandleDisconnected
        <5>2. RetriesCounted' /\ Unheard' /\ tries' >= MaximumRetry
          BY <4>1, <4>3, <5>1 DEF RetriesCounted, Unheard
        <5>3. QED
          BY <2>1, <2>2, <2>3, <3>1, <4>1, <5>1, <5>2
      <4>4. QED
        BY <4>2, <4>3
    <3>4. CASE wifiEvents \in {<<"GOT_IP">>, <<"GOT_IP", "DISCONNECTED">>}
      <4>1. /\ HandleGotIp
            /\ \/ link = "ip" /\ wifiEvents' = <<>>
               \/ link = "down" /\ wifiEvents' = <<"DISCONNECTED">>
        <5>1. Head(wifiEvents) = "GOT_IP"
          BY <3>4
        <5>2. HandleGotIp
          BY <1>5, <3>1, <5>1 DEF HandleEvent, Bases
        <5>3. CASE wifiEvents = <<"GOT_IP">>
          BY <2>1, <3>1, <5>2, <5>3 DEF Unheard
        <5>4. CASE wifiEvents = <<"GOT_IP", "DISCONNECTED">>
          <6>1. Tail(wifiEvents) = <<"DISCONNECTED">>
            BY <5>4
          <6>2. link = "down"
            BY <3>1, <5>4 DEF Unheard
          <6>3. QED
            BY <2>1, <5>2, <6>1, <6>2
        <5>5. QED
          BY <3>4, <5>3, <5>4
      <4>2. retryNum' = 0 /\ bits' = bits \union {"CONNECTED"} /\ UNCHANGED <<link, tries>>
        BY <4>1 DEF HandleGotIp
      <4>3. RetriesCounted' /\ Unheard'
        BY <4>1, <4>2 DEF RetriesCounted, Unheard
      <4>4. QED
        BY <2>1, <2>2, <2>3, <3>1, <4>2, <4>3
    <3>5. QED
      BY <2>1, <3>1, <3>2, <3>3, <3>4 DEF Unheard
  <2>4. CASE wifiStep # "wait"
    BY <1>5, <2>1, <2>2, <2>4 DEF HandleEvent
  <2>5. QED
    BY <2>3, <2>4
<1>6. CASE Associate
  <2>1. wifiStep = "wait" => Unheard' /\ RetriesCounted'
    BY <1>6 DEF Associate, Unheard, RetriesCounted
  <2>2. QED
    BY <1>6, <2>1 DEF Associate
<1>7. CASE LinkLost
  <2>1. wifiStep = "wait" => wifiEvents' \in {<<"DISCONNECTED">>, <<"GOT_IP", "DISCONNECTED">>}
    <3>1. Append(<<"GOT_IP">>, "DISCONNECTED") = <<"GOT_IP", "DISCONNECTED">>
      BY AppendToOne
    <3>2. wifiStep = "wait" => wifiEvents \in {<<>>, <<"GOT_IP">>}
      BY <1>7 DEF LinkLost, Unheard
    <3>3. wifiEvents' = Append(wifiEvents, "DISCONNECTED")
      BY <1>7 DEF LinkLost
    <3>4. Append(<<>>, "DISCONNECTED") = <<"DISCONNECTED">>
      OBVIOUS
    <3>5. CASE wifiEvents = <<>>
      BY <3>3, <3>4, <3>5
    <3>6. CASE wifiEvents = <<"GOT_IP">>
      BY <3>1, <3>3, <3>6
    <3>7. QED
      BY <3>2, <3>5, <3>6
  <2>2. wifiStep = "wait" => Unheard' /\ RetriesCounted'
    BY <1>7, <2>1 DEF LinkLost, Unheard, RetriesCounted
  <2>3. QED
    BY <1>7, <2>2 DEF LinkLost
<1>8. CASE DhcpAnswers
  <2>1. wifiStep = "wait" => wifiEvents' = <<"GOT_IP">>
    BY <1>8 DEF DhcpAnswers, Unheard
  <2>2. wifiStep = "wait" => Unheard' /\ RetriesCounted'
    BY <1>8, <2>1 DEF DhcpAnswers, Unheard, RetriesCounted
  <2>3. QED
    BY <1>8, <2>2 DEF DhcpAnswers
<1>9. CASE UNCHANGED wifiVars
  BY <1>9 DEF wifiVars, Unheard, RetriesCounted
<1>10. QED
  BY <1>1, <1>2, <1>3, <1>4, <1>5, <1>6, <1>7, <1>8, <1>9 DEF WifiNext, InitialiseWifi, Driver

(* A failure is told only when the retries are used up, and is final: over *)
(* every order of events, for any number of retries.                       *)
THEOREM BoardFailure == Spec => []FailOnlyWhenExhausted
<1>1. Init => WaitOK
  BY WaitInitOK DEF Init
<1>2. WaitOK /\ [Next]_vars => WaitOK'
  <2>1. [Next]_vars => [WifiNext]_wifiVars
    BY DEF Next, vars, AppMain, StartDimmer, StartWifi, CreateMqttTask, SetTargetLevel, MqttTask,
           ReadSensor, MakeDocument, StartConnect, ConnectSucceeds, ConnectFails, ConnectGivesUp,
           Session, Disconnect, Sleep, Interrupts, EventLoop, Station, WifiNext
  <2>2. QED
    BY <2>1, WaitNextOK
<1>3. WaitOK => FailOnlyWhenExhausted
  BY DEF WaitOK
<1>4. QED
  BY <1>1, <1>2, <1>3, PTL DEF Spec

-----------------------------------------------------------------------------
(* A frame of the sensor: a byte is made of weighted bits, of which one    *)
(* interrupt can take one away.                                            *)

(* Each division by the next weight leaves a bit.                          *)
LEMMA Halved ==
    ASSUME NEW q \in Nat
    PROVE  q = 2 * (q \div 2) + (q % 2)
OBVIOUS

Bytes == {n \in Nat : n < 256}

(* A byte is the sum of its bits.                                          *)
LEMMA ByteOfBits ==
    ASSUME NEW b \in Bytes
    PROVE  b = 128 * ((b \div 128) % 2) + 64 * ((b \div 64) % 2) + 32 * ((b \div 32) % 2)
             + 16 * ((b \div 16) % 2) + 8 * ((b \div 8) % 2) + 4 * ((b \div 4) % 2)
             + 2 * ((b \div 2) % 2) + ((b \div 1) % 2)
<1> USE DEF Bytes
<1>1. b \div 128 = (b \div 128) % 2
  OBVIOUS
<1>2. b \div 64 = 2 * (b \div 128) + ((b \div 64) % 2)
  <2>1. (b \div 64) \div 2 = b \div 128 /\ b \div 64 \in Nat
    OBVIOUS
  <2>2. QED
    BY <2>1, Halved
<1>3. b \div 32 = 2 * (b \div 64) + ((b \div 32) % 2)
  <2>1. (b \div 32) \div 2 = b \div 64 /\ b \div 32 \in Nat
    OBVIOUS
  <2>2. QED
    BY <2>1, Halved
<1>4. b \div 16 = 2 * (b \div 32) + ((b \div 16) % 2)
  <2>1. (b \div 16) \div 2 = b \div 32 /\ b \div 16 \in Nat
    OBVIOUS
  <2>2. QED
    BY <2>1, Halved
<1>5. b \div 8 = 2 * (b \div 16) + ((b \div 8) % 2)
  <2>1. (b \div 8) \div 2 = b \div 16 /\ b \div 8 \in Nat
    OBVIOUS
  <2>2. QED
    BY <2>1, Halved
<1>6. b \div 4 = 2 * (b \div 8) + ((b \div 4) % 2)
  <2>1. (b \div 4) \div 2 = b \div 8 /\ b \div 4 \in Nat
    OBVIOUS
  <2>2. QED
    BY <2>1, Halved
<1>7. b \div 2 = 2 * (b \div 4) + ((b \div 2) % 2)
  <2>1. (b \div 2) \div 2 = b \div 4 /\ b \div 2 \in Nat
    OBVIOUS
  <2>2. QED
    BY <2>1, Halved
<1>8. b \div 1 = 2 * (b \div 2) + ((b \div 1) % 2)
  <2>1. (b \div 1) \div 2 = b \div 2 /\ b \div 1 \in Nat
    OBVIOUS
  <2>2. QED
    BY <2>1, Halved
<1> DEFINE q7 == b \div 128
           q6 == b \div 64
           q5 == b \div 32
           q4 == b \div 16
           q3 == b \div 8
           q2 == b \div 4
           q1 == b \div 2
           q0 == b \div 1
           r7 == (b \div 128) % 2
           r6 == (b \div 64) % 2
           r5 == (b \div 32) % 2
           r4 == (b \div 16) % 2
           r3 == (b \div 8) % 2
           r2 == (b \div 4) % 2
           r1 == (b \div 2) % 2
           r0 == (b \div 1) % 2
<1>9. /\ q7 \in Int /\ q6 \in Int /\ q5 \in Int /\ q4 \in Int /\ q3 \in Int /\ q2 \in Int /\ q1 \in Int
      /\ q0 = b
      /\ r7 \in Int /\ r6 \in Int /\ r5 \in Int /\ r4 \in Int /\ r3 \in Int /\ r2 \in Int
      /\ r1 \in Int /\ r0 \in Int
  OBVIOUS
<1> HIDE DEF q7, q6, q5, q4, q3, q2, q1, q0, r7, r6, r5, r4, r3, r2, r1, r0
<1>10. b = 128 * r7 + 64 * r6 + 32 * r5 + 16 * r4 + 8 * r3 + 4 * r2 + 2 * r1 + r0
  <2>1. /\ q7 = r7 /\ q6 = 2 * q7 + r6 /\ q5 = 2 * q6 + r5 /\ q4 = 2 * q5 + r4 /\ q3 = 2 * q4 + r3
        /\ q2 = 2 * q3 + r2 /\ q1 = 2 * q2 + r1 /\ q0 = 2 * q1 + r0 /\ q0 = b
    BY <1>1, <1>2, <1>3, <1>4, <1>5, <1>6, <1>7, <1>8
       DEF q7, q6, q5, q4, q3, q2, q1, q0, r7, r6, r5, r4, r3, r2, r1, r0
  <2>2. QED
    BY <1>9, <2>1
<1>11. QED
  BY <1>10 DEF r7, r6, r5, r4, r3, r2, r1, r0

(* A pulse is counted as its bit, unless an interrupt makes a 1 a 0.       *)
LEMMA PulseOfBit ==
    ASSUME NEW frame \in [1 .. 5 -> Bytes], NEW hit \in 0 .. 39, NEW stolen \in Nat, NEW k \in 0 .. 39
    PROVE  /\ BitOf(frame, k) \in {0, 1}
           /\ Pulses(frame, hit, stolen)[k] > 40 => BitOf(frame, k) = 1
           /\ k # hit /\ BitOf(frame, k) = 1 => Pulses(frame, hit, stolen)[k] > 40
<1> USE DEF Bytes
<1> DEFINE b == BitOf(frame, k)
           h == HighOf(b)
<1>1. b \in {0, 1}
  <2>1. (k \div 8) + 1 \in 1 .. 5 /\ (k % 8) + 1 \in 1 .. 8
    OBVIOUS
  <2>2. Weight[(k % 8) + 1] \in {128, 64, 32, 16, 8, 4, 2, 1}
    BY <2>1 DEF Weight
  <2>3. frame[(k \div 8) + 1] \in Bytes
    BY <2>1
  <2>4. QED
    BY <2>2, <2>3 DEF BitOf
<1>2. h \in {70, 26} /\ (h = 70 <=> b = 1)
  BY <1>1 DEF HighOf
<1>3. Pulses(frame, hit, stolen)[k] = IF k = hit /\ stolen > 0 THEN Max({0, h - stolen}) ELSE h
  BY DEF Pulses
<1> HIDE DEF h, b
<1>4. stolen > 0 => Max({0, h - stolen}) \in {0, h - stolen}
  <2>1. \E x \in {0, h - stolen} : \A y \in {0, h - stolen} : x >= y
    BY <1>2
  <2>2. QED
    BY <2>1 DEF Max
<1>5. QED
  <2>1. /\ Pulses(frame, hit, stolen)[k] > 40 => b = 1
        /\ k # hit /\ b = 1 => Pulses(frame, hit, stolen)[k] > 40
    BY <1>1, <1>2, <1>3, <1>4
  <2>2. QED
    BY <1>1, <2>1 DEF b


(* An interrupt falls into one pulse at most.                              *)
LEMMA OneShort ==
    ASSUME NEW n \in Int, NEW hit \in Int,
           NEW e7, NEW e6, NEW e5, NEW e4, NEW e3, NEW e2, NEW e1, NEW e0,
           e7 = 0 \/ (e7 = 128 /\ hit = n + 0), e6 = 0 \/ (e6 = 64 /\ hit = n + 1),
           e5 = 0 \/ (e5 = 32 /\ hit = n + 2), e4 = 0 \/ (e4 = 16 /\ hit = n + 3),
           e3 = 0 \/ (e3 = 8 /\ hit = n + 4), e2 = 0 \/ (e2 = 4 /\ hit = n + 5),
           e1 = 0 \/ (e1 = 2 /\ hit = n + 6), e0 = 0 \/ (e0 = 1 /\ hit = n + 7)
    PROVE  /\ e7 + e6 + e5 + e4 + e3 + e2 + e1 + e0 \in 0 .. 128
           /\ e7 + e6 + e5 + e4 + e3 + e2 + e1 + e0 # 0 => hit \in n .. n + 7
BY DEF Bytes

(* A byte is read as it was sent, or one bit short of it.                  *)
LEMMA ByteRead ==
    ASSUME NEW frame \in [1 .. 5 -> Bytes], NEW hit \in 0 .. 39, NEW stolen \in Nat,
           NEW d, d = Assemble(Pulses(frame, hit, stolen)), NEW i \in 1 .. 5
    PROVE  /\ d[i] \in Bytes
           /\ d[i] <= frame[i] /\ frame[i] <= d[i] + 128
           /\ d[i] # frame[i] => 8 * (i - 1) <= hit /\ hit <= 8 * (i - 1) + 7
<1> DEFINE p == Pulses(frame, hit, stolen)
           f == frame[i]
           n == 8 * (i - 1)
           c(j) == IF p[8 * (i - 1) + j] > 40 THEN Weight[j + 1] ELSE 0
<1>1. d[i] = c(0) + c(1) + c(2) + c(3) + c(4) + c(5) + c(6) + c(7)
  BY DEF Assemble
<1>2. f \in Bytes /\ f \in Nat /\ f < 256
  BY DEF Bytes
<1>3. /\ Weight[0 + 1] = 128 /\ Weight[1 + 1] = 64 /\ Weight[2 + 1] = 32 /\ Weight[3 + 1] = 16
      /\ Weight[4 + 1] = 8 /\ Weight[5 + 1] = 4 /\ Weight[6 + 1] = 2 /\ Weight[7 + 1] = 1
  BY DEF Weight
<1>4. \A j \in 0 .. 7, weight \in 1 .. 128 : weight = Weight[j + 1] =>
        \/ c(j) = weight * ((f \div weight) % 2)
        \/ (c(j) = 0 /\ weight = weight * ((f \div weight) % 2) /\ hit = 8 * (i - 1) + j)
  <2> SUFFICES ASSUME NEW j \in 0 .. 7, NEW weight \in 1 .. 128, weight = Weight[j + 1]
               PROVE  \/ c(j) = weight * ((f \div weight) % 2)
                      \/ (c(j) = 0 /\ weight = weight * ((f \div weight) % 2) /\ hit = 8 * (i - 1) + j)
    OBVIOUS
  <2> DEFINE k == 8 * (i - 1) + j
  <2>1. k \in 0 .. 39 /\ k \div 8 = i - 1 /\ k % 8 = j
    OBVIOUS
  <2>2. BitOf(frame, k) = (f \div weight) % 2
    <3>1. (k \div 8) + 1 = i /\ (k % 8) + 1 = j + 1
      BY <2>1
    <3>2. QED
      BY <3>1 DEF BitOf
  <2>3. /\ BitOf(frame, k) \in {0, 1}
        /\ p[k] > 40 => BitOf(frame, k) = 1
        /\ k # hit /\ BitOf(frame, k) = 1 => p[k] > 40
    BY <2>1, PulseOfBit
  <2>4. weight * 0 = 0 /\ weight * 1 = weight
    OBVIOUS
  <2>5. c(j) = IF p[k] > 40 THEN weight ELSE 0
    OBVIOUS
  <2> HIDE DEF k, c, p, f
  <2>6. \/ c(j) = weight * BitOf(frame, k)
        \/ (c(j) = 0 /\ weight = weight * BitOf(frame, k) /\ hit = k)
    <3>1. CASE BitOf(frame, k) = 0
      BY <2>3, <2>4, <2>5, <3>1
    <3>2. CASE BitOf(frame, k) = 1
      BY <2>3, <2>4, <2>5, <3>2
    <3>3. QED
      BY <2>3, <3>1, <3>2
  <2>7. QED
    BY <2>2, <2>6 DEF k
<1>5. PICK c7 : /\ c7 = c(0)
              /\ \/ c7 = 128 * ((f \div 128) % 2)
                 \/ (c7 = 0 /\ 128 = 128 * ((f \div 128) % 2) /\ hit = n + 0)
  <2>1. 0 \in 0 .. 7 /\ 128 \in 1 .. 128 /\ 128 = Weight[0 + 1]
    BY <1>3
  <2> HIDE DEF c, f, n
  <2>2. \/ c(0) = 128 * ((f \div 128) % 2)
        \/ (c(0) = 0 /\ 128 = 128 * ((f \div 128) % 2) /\ hit = n + 0)
    BY <1>4, <2>1 DEF n
  <2>3. QED
    BY <2>2
<1>6. PICK c6 : /\ c6 = c(1)
              /\ \/ c6 = 64 * ((f \div 64) % 2)
                 \/ (c6 = 0 /\ 64 = 64 * ((f \div 64) % 2) /\ hit = n + 1)
  <2>1. 1 \in 0 .. 7 /\ 64 \in 1 .. 128 /\ 64 = Weight[1 + 1]
    BY <1>3
  <2> HIDE DEF c, f, n
  <2>2. \/ c(1) = 64 * ((f \div 64) % 2)
        \/ (c(1) = 0 /\ 64 = 64 * ((f \div 64) % 2) /\ hit = n + 1)
    BY <1>4, <2>1 DEF n
  <2>3. QED
    BY <2>2
<1>7. PICK c5 : /\ c5 = c(2)
              /\ \/ c5 = 32 * ((f \div 32) % 2)
                 \/ (c5 = 0 /\ 32 = 32 * ((f \div 32) % 2) /\ hit = n + 2)
  <2>1. 2 \in 0 .. 7 /\ 32 \in 1 .. 128 /\ 32 = Weight[2 + 1]
    BY <1>3
  <2> HIDE DEF c, f, n
  <2>2. \/ c(2) = 32 * ((f \div 32) % 2)
        \/ (c(2) = 0 /\ 32 = 32 * ((f \div 32) % 2) /\ hit = n + 2)
    BY <1>4, <2>1 DEF n
  <2>3. QED
    BY <2>2
<1>8. PICK c4 : /\ c4 = c(3)
              /\ \/ c4 = 16 * ((f \div 16) % 2)
                 \/ (c4 = 0 /\ 16 = 16 * ((f \div 16) % 2) /\ hit = n + 3)
  <2>1. 3 \in 0 .. 7 /\ 16 \in 1 .. 128 /\ 16 = Weight[3 + 1]
    BY <1>3
  <2> HIDE DEF c, f, n
  <2>2. \/ c(3) = 16 * ((f \div 16) % 2)
        \/ (c(3) = 0 /\ 16 = 16 * ((f \div 16) % 2) /\ hit = n + 3)
    BY <1>4, <2>1 DEF n
  <2>3. QED
    BY <2>2
<1>9. PICK c3 : /\ c3 = c(4)
              /\ \/ c3 = 8 * ((f \div 8) % 2)
                 \/ (c3 = 0 /\ 8 = 8 * ((f \div 8) % 2) /\ hit = n + 4)
  <2>1. 4 \in 0 .. 7 /\ 8 \in 1 .. 128 /\ 8 = Weight[4 + 1]
    BY <1>3
  <2> HIDE DEF c, f, n
  <2>2. \/ c(4) = 8 * ((f \div 8) % 2)
        \/ (c(4) = 0 /\ 8 = 8 * ((f \div 8) % 2) /\ hit = n + 4)
    BY <1>4, <2>1 DEF n
  <2>3. QED
    BY <2>2
<1>10. PICK c2 : /\ c2 = c(5)
              /\ \/ c2 = 4 * ((f \div 4) % 2)
                 \/ (c2 = 0 /\ 4 = 4 * ((f \div 4) % 2) /\ hit = n + 5)
  <2>1. 5 \in 0 .. 7 /\ 4 \in 1 .. 128 /\ 4 = Weight[5 + 1]
    BY <1>3
  <2> HIDE DEF c, f, n
  <2>2. \/ c(5) = 4 * ((f \div 4) % 2)
        \/ (c(5) = 0 /\ 4 = 4 * ((f \div 4) % 2) /\ hit = n + 5)
    BY <1>4, <2>1 DEF n
  <2>3. QED
    BY <2>2
<1>11. PICK c1 : /\ c1 = c(6)
              /\ \/ c1 = 2 * ((f \div 2) % 2)
                 \/ (c1 = 0 /\ 2 = 2 * ((f \div 2) % 2) /\ hit = n + 6)
  <2>1. 6 \in 0 .. 7 /\ 2 \in 1 .. 128 /\ 2 = Weight[6 + 1]
    BY <1>3
  <2> HIDE DEF c, f, n
  <2>2. \/ c(6) = 2 * ((f \div 2) % 2)
        \/ (c(6) = 0 /\ 2 = 2 * ((f \div 2) % 2) /\ hit = n + 6)
    BY <1>4, <2>1 DEF n
  <2>3. QED
    BY <2>2
<1>12. PICK c0 : /\ c0 = c(7)
              /\ \/ c0 = 1 * ((f \div 1) % 2)
                 \/ (c0 = 0 /\ 1 = 1 * ((f \div 1) % 2) /\ hit = n + 7)
  <2>1. 7 \in 0 .. 7 /\ 1 \in 1 .. 128 /\ 1 = Weight[7 + 1]
    BY <1>3
  <2> HIDE DEF c, f, n
  <2>2. \/ c(7) = 1 * ((f \div 1) % 2)
        \/ (c(7) = 0 /\ 1 = 1 * ((f \div 1) % 2) /\ hit = n + 7)
    BY <1>4, <2>1 DEF n
  <2>3. QED
    BY <2>2
<1>13. d[i] = c7 + c6 + c5 + c4 + c3 + c2 + c1 + c0
  BY <1>1, <1>5, <1>6, <1>7, <1>8, <1>9, <1>10, <1>11, <1>12
<1> DEFINE r7 == (f \div 128) % 2
           r6 == (f \div 64) % 2
           r5 == (f \div 32) % 2
           r4 == (f \div 16) % 2
           r3 == (f \div 8) % 2
           r2 == (f \div 4) % 2
           r1 == (f \div 2) % 2
           r0 == (f \div 1) % 2
<1>14. f = 128 * r7 + 64 * r6 + 32 * r5 + 16 * r4 + 8 * r3 + 4 * r2 + 2 * r1 + r0
  BY <1>2, ByteOfBits
<1>15. /\ r7 \in 0 .. 1 /\ r6 \in 0 .. 1 /\ r5 \in 0 .. 1 /\ r4 \in 0 .. 1
       /\ r3 \in 0 .. 1 /\ r2 \in 0 .. 1 /\ r1 \in 0 .. 1 /\ r0 \in 0 .. 1
  BY <1>2
<1>16. /\ c7 = 128 * r7 \/ (c7 = 0 /\ 128 = 128 * r7 /\ hit = n + 0)
       /\ c6 = 64 * r6 \/ (c6 = 0 /\ 64 = 64 * r6 /\ hit = n + 1)
       /\ c5 = 32 * r5 \/ (c5 = 0 /\ 32 = 32 * r5 /\ hit = n + 2)
       /\ c4 = 16 * r4 \/ (c4 = 0 /\ 16 = 16 * r4 /\ hit = n + 3)
       /\ c3 = 8 * r3 \/ (c3 = 0 /\ 8 = 8 * r3 /\ hit = n + 4)
       /\ c2 = 4 * r2 \/ (c2 = 0 /\ 4 = 4 * r2 /\ hit = n + 5)
       /\ c1 = 2 * r1 \/ (c1 = 0 /\ 2 = 2 * r1 /\ hit = n + 6)
       /\ c0 = 1 * r0 \/ (c0 = 0 /\ 1 = 1 * r0 /\ hit = n + 7)
  BY <1>5, <1>6, <1>7, <1>8, <1>9, <1>10, <1>11, <1>12
<1>17. n \in Int /\ n = 8 * (i - 1)
  OBVIOUS
<1> HIDE DEF r7, r6, r5, r4, r3, r2, r1, r0, n, f, p
<1>18. /\ d[i] \in Bytes
       /\ d[i] <= f /\ f <= d[i] + 128
       /\ d[i] # f => hit \in n .. n + 7
  <2> DEFINE di == d[i]
  <2>1. di = c7 + c6 + c5 + c4 + c3 + c2 + c1 + c0
    BY <1>13
  <2> HIDE DEF di
  <2> DEFINE e == (128 * r7 - c7) + (64 * r6 - c6) + (32 * r5 - c5) + (16 * r4 - c4)
                  + (8 * r3 - c3) + (4 * r2 - c2) + (2 * r1 - c1) + (1 * r0 - c0)
  <2>2. e \in 0 .. 128 /\ (e # 0 => hit \in n .. n + 7)
    <3> PICK e7, e6, e5, e4, e3, e2, e1, e0 :
          /\ e7 = 128 * r7 - c7 /\ e6 = 64 * r6 - c6 /\ e5 = 32 * r5 - c5 /\ e4 = 16 * r4 - c4
          /\ e3 = 8 * r3 - c3 /\ e2 = 4 * r2 - c2 /\ e1 = 2 * r1 - c1 /\ e0 = 1 * r0 - c0
      OBVIOUS
    <3>1. /\ e7 = 0 \/ (e7 = 128 /\ hit = n + 0)
          /\ e6 = 0 \/ (e6 = 64 /\ hit = n + 1)
          /\ e5 = 0 \/ (e5 = 32 /\ hit = n + 2)
          /\ e4 = 0 \/ (e4 = 16 /\ hit = n + 3)
          /\ e3 = 0 \/ (e3 = 8 /\ hit = n + 4)
          /\ e2 = 0 \/ (e2 = 4 /\ hit = n + 5)
          /\ e1 = 0 \/ (e1 = 2 /\ hit = n + 6)
          /\ e0 = 0 \/ (e0 = 1 /\ hit = n + 7)
      BY <1>15, <1>16
    <3>2. e = e7 + e6 + e5 + e4 + e3 + e2 + e1 + e0
      OBVIOUS
    <3>3. QED
      BY <1>17, <3>1, <3>2, OneShort
  <2>3. /\ c7 \in Nat /\ c6 \in Nat /\ c5 \in Nat /\ c4 \in Nat
        /\ c3 \in Nat /\ c2 \in Nat /\ c1 \in Nat /\ c0 \in Nat
    BY <1>15, <1>16
  <2>4. e = f - di /\ di \in Nat
    BY <1>2, <1>14, <1>15, <2>1, <2>3
  <2> HIDE DEF e
  <2>5. /\ di \in Bytes
        /\ di <= f /\ f <= di + 128
        /\ di # f => hit \in n .. n + 7
    BY <1>2, <2>2, <2>4 DEF Bytes
  <2>6. QED
    BY <2>5 DEF di
<1>19. QED
  BY <1>17, <1>18 DEF f, n


(* One bit too few in one byte always shows in the checksum.               *)
LEMMA GoodFrame ==
    ASSUME NEW frame \in [1 .. 5 -> Bytes], frame[5] = Checksum(frame),
           NEW hit \in 0 .. 39, NEW stolen \in Nat,
           NEW d, d = Assemble(Pulses(frame, hit, stolen)), d[5] = Checksum(d)
    PROVE  d[1] = frame[1] /\ d[2] = frame[2] /\ d[3] = frame[3] /\ d[4] = frame[4]
<1>1. \A i \in 1 .. 5 : /\ d[i] \in Bytes
                        /\ d[i] <= frame[i] /\ frame[i] <= d[i] + 128
                        /\ d[i] # frame[i] => 8 * (i - 1) <= hit /\ hit <= 8 * (i - 1) + 7
  BY ByteRead, ZenonT(30)
<1> USE DEF Bytes
<1> PICK f1, f2, f3, f4, f5 : f1 = frame[1] /\ f2 = frame[2] /\ f3 = frame[3] /\ f4 = frame[4] /\ f5 = frame[5]
  OBVIOUS
<1> PICK d1, d2, d3, d4, d5 : d1 = d[1] /\ d2 = d[2] /\ d3 = d[3] /\ d4 = d[4] /\ d5 = d[5]
  OBVIOUS
<1>2. /\ f1 \in Bytes /\ f2 \in Bytes /\ f3 \in Bytes /\ f4 \in Bytes /\ f5 \in Bytes
      /\ d1 \in Bytes /\ d2 \in Bytes /\ d3 \in Bytes /\ d4 \in Bytes /\ d5 \in Bytes
  BY <1>1
<1>3. /\ d1 <= f1 /\ f1 <= d1 + 128 /\ (d1 # f1 => hit \in 0 .. 7)
      /\ d2 <= f2 /\ f2 <= d2 + 128 /\ (d2 # f2 => hit \in 8 .. 15)
      /\ d3 <= f3 /\ f3 <= d3 + 128 /\ (d3 # f3 => hit \in 16 .. 23)
      /\ d4 <= f4 /\ f4 <= d4 + 128 /\ (d4 # f4 => hit \in 24 .. 31)
      /\ d5 <= f5 /\ f5 <= d5 + 128 /\ (d5 # f5 => hit \in 32 .. 39)
  BY <1>1
<1>4. f5 = (f1 + f2 + f3 + f4) % 256 /\ d5 = (d1 + d2 + d3 + d4) % 256
  BY DEF Checksum
<1>5. \E k \in Int, m \in Int : /\ f1 + f2 + f3 + f4 = 256 * k + f5
                                /\ d1 + d2 + d3 + d4 = 256 * m + d5
  <2> DEFINE s == f1 + f2 + f3 + f4
             u == d1 + d2 + d3 + d4
  <2>1. s \in Nat /\ u \in Nat
    BY <1>2
  <2>2. s = 256 * (s \div 256) + f5 /\ u = 256 * (u \div 256) + d5 /\ s \div 256 \in Int /\ u \div 256 \in Int
    <3>1. f5 = s % 256 /\ d5 = u % 256
      BY <1>4
    <3> HIDE DEF s, u
    <3>2. QED
      BY <2>1, <3>1
  <2>3. QED
    BY <2>2
<1>6. PICK k \in Int, m \in Int : /\ f1 + f2 + f3 + f4 = 256 * k + f5
                                  /\ d1 + d2 + d3 + d4 = 256 * m + d5
  BY <1>5
<1>7. d1 = f1 /\ d2 = f2 /\ d3 = f3 /\ d4 = f4
  BY <1>2, <1>3, <1>6
<1>8. QED
  BY <1>7

(* The frame of a value is five bytes that agree, and reads back as it.    *)
LEMMA FrameOfValue ==
    ASSUME NEW value \in Humidities \X Temperatures
    PROVE  /\ SensorFrame(value) \in [1 .. 5 -> Bytes]
           /\ SensorFrame(value)[5] = Checksum(SensorFrame(value))
           /\ Humidity(SensorFrame(value)) = value[1]
           /\ Temperature(SensorFrame(value)) = value[2]
<1> USE DEF Bytes
<1> DEFINE h == value[1]
           v == value[2]
           t == IF v < 0 THEN 32768 - v ELSE v
           data == <<h \div 256, h % 256, t \div 256, t % 256>>
           sum == (data[1] + data[2] + data[3] + data[4]) % 256
           frame == <<h \div 256, h % 256, t \div 256, t % 256, sum>>
<1>1. h \in Nat /\ h < 65536 /\ v \in Int /\ -32768 < v /\ v < 32768 /\ t \in Nat /\ t < 65536
  BY DEF Humidities, Temperatures
<1>2. /\ h \div 256 \in Bytes /\ h % 256 \in Bytes /\ (h \div 256) * 256 + (h % 256) = h
      /\ t \div 256 \in Bytes /\ t % 256 \in Bytes /\ (t \div 256) * 256 + (t % 256) = t
  BY <1>1
<1>3. SensorFrame(value) = frame
  <2>1. SensorFrame(value) = <<data[1], data[2], data[3], data[4], sum>>
    BY DEF SensorFrame
  <2>2. data[1] = h \div 256 /\ data[2] = h % 256 /\ data[3] = t \div 256 /\ data[4] = t % 256
    OBVIOUS
  <2>3. QED
    BY <2>1, <2>2
<1>4. sum \in Bytes
  BY <1>2
<1>5. /\ frame[1] = h \div 256 /\ frame[2] = h % 256 /\ frame[3] = t \div 256 /\ frame[4] = t % 256
      /\ frame[5] = (frame[1] + frame[2] + frame[3] + frame[4]) % 256
  OBVIOUS
<1>6. frame \in [1 .. 5 -> Bytes]
  BY <1>2, <1>4
<1> HIDE DEF t, h, v, data, sum, frame
<1>7. Humidity(frame) = h
  BY <1>2, <1>5 DEF Humidity
<1>8. Temperature(frame) = v
  <2> DEFINE d3 == t \div 256
  <2>1. CASE v < 0
    <3>1. t = 32768 - v
      BY <2>1 DEF t
    <3>2. d3 >= 128 /\ d3 % 128 = d3 - 128
      BY <1>1, <1>2, <2>1, <3>1
    <3>3. QED
      BY <1>1, <1>2, <1>5, <3>1, <3>2 DEF Temperature
  <2>2. CASE ~ (v < 0)
    <3>1. t = v
      BY <2>2 DEF t
    <3>2. d3 < 128 /\ d3 % 128 = d3
      BY <1>1, <1>2, <2>2, <3>1
    <3>3. QED
      BY <1>1, <1>2, <1>5, <3>1, <3>2 DEF Temperature
  <2>3. QED
    BY <2>1, <2>2
<1>9. QED
  BY <1>3, <1>5, <1>6, <1>7, <1>8 DEF Checksum, h, v


-----------------------------------------------------------------------------
(* The sensor.                                                             *)
DhtOK ==
    /\ humidity \in Humidities /\ temperature \in Temperatures
    /\ GoodReadingIsMeasured

(* Any five bytes give values of the right size, the measured ones when    *)
(* the frame they were read from was good.                                 *)
LEMMA ReceivedOK ==
    ASSUME NEW r \in Received
    PROVE  /\ Humidity(r[2]) \in Humidities /\ Temperature(r[2]) \in Temperatures
           /\ Status(r[2]) = "ok" => Humidity(r[2]) = r[1][1] /\ Temperature(r[2]) = r[1][2]
<1>1. PICK value \in SensorValues, hit \in HitBits, stolen \in Stolen :
        r = <<value, Assemble(Pulses(SensorFrame(value), hit, stolen))>>
  BY DEF Received
<1>2. value \in Humidities \X Temperatures /\ hit \in 0 .. 39 /\ stolen \in Nat
  BY SensorAssumption
<1>3. PICK frame, d : frame = SensorFrame(value) /\ d = Assemble(Pulses(frame, hit, stolen))
  OBVIOUS
<1>4. /\ frame \in [1 .. 5 -> Bytes] /\ frame[5] = Checksum(frame)
      /\ Humidity(frame) = value[1] /\ Temperature(frame) = value[2]
  BY <1>2, <1>3, FrameOfValue
<1>5. r[1] = value /\ r[2] = d
  BY <1>1, <1>3
<1>6. \A i \in 1 .. 5 : d[i] \in Bytes
  BY <1>2, <1>3, <1>4, ByteRead, ZenonT(30)
<1>7. Humidity(d) \in Humidities /\ Temperature(d) \in Temperatures
  <2> PICK d1, d2, d3, d4 : d1 = d[1] /\ d2 = d[2] /\ d3 = d[3] /\ d4 = d[4]
    OBVIOUS
  <2>1. /\ d1 \in Nat /\ d1 < 256 /\ d2 \in Nat /\ d2 < 256
        /\ d3 \in Nat /\ d3 < 256 /\ d4 \in Nat /\ d4 < 256
    BY <1>6 DEF Bytes
  <2>2. d1 * 256 + d2 \in Nat /\ d1 * 256 + d2 < 65536
    BY <2>1
  <2>3. d3 % 128 \in Nat /\ d3 % 128 < 128
    BY <2>1
  <2>4. (d3 % 128) * 256 + d4 \in Nat /\ (d3 % 128) * 256 + d4 < 32768
    BY <2>1, <2>3
  <2>5. Humidity(d) = d1 * 256 + d2
    BY DEF Humidity
  <2>6. Temperature(d) \in {(d3 % 128) * 256 + d4, - ((d3 % 128) * 256 + d4)}
    BY DEF Temperature
  <2>7. QED
    BY <2>2, <2>4, <2>5, <2>6 DEF Humidities, Temperatures
<1>8. Status(d) = "ok" => Humidity(d) = value[1] /\ Temperature(d) = value[2]
  <2> SUFFICES ASSUME Status(d) = "ok" PROVE Humidity(d) = value[1] /\ Temperature(d) = value[2]
    OBVIOUS
  <2>1. d[5] = Checksum(d)
    BY DEF Status
  <2>2. /\ frame \in [1 .. 5 -> Bytes] /\ frame[5] = Checksum(frame)
        /\ hit \in 0 .. 39 /\ stolen \in Nat
        /\ d = Assemble(Pulses(frame, hit, stolen)) /\ d[5] = Checksum(d)
    BY <1>2, <1>3, <1>4, <2>1
  <2>3. d[1] = frame[1] /\ d[2] = frame[2] /\ d[3] = frame[3] /\ d[4] = frame[4]
    BY <2>2, GoodFrame, ZenonT(60)
  <2>4. QED
    BY <1>4, <2>3 DEF Humidity, Temperature
<1>9. QED
  BY <1>5, <1>7, <1>8

(* Readings keep their size and their truth.                               *)
THEOREM DhtInvariance == Spec => []DhtOK
<1>1. Init => DhtOK
  BY DEF Init, DhtInit, DhtOK, GoodReadingIsMeasured, Humidities, Temperatures
<1>2. DhtOK /\ [Next]_vars => DhtOK'
  <2> SUFFICES ASSUME DhtOK, [Next]_vars PROVE DhtOK'
    OBVIOUS
  <2> USE DEF DhtOK, GoodReadingIsMeasured
  <2>1. ASSUME NEW r \in Received, ReadFrame(r[1], r[2]) PROVE DhtOK'
    <3>1. humidity' = Humidity(r[2]) /\ temperature' = Temperature(r[2]) /\ dhtStatus' = Status(r[2]) /\ measured' = r[1]
      BY <2>1 DEF ReadFrame
    <3>2. r[1] = <<r[1][1], r[1][2]>>
      BY SensorAssumption DEF Received
    <3>3. QED
      BY <3>1, <3>2, ReceivedOK
  <2>2. CASE ReadTimeout
    BY <2>2 DEF ReadTimeout
  <2>3. CASE UNCHANGED dhtVars
    BY <2>3 DEF dhtVars
  <2>4. ReadDHT \/ UNCHANGED dhtVars
    BY DEF Next, vars, AppMain, StartDimmer, StartWifi, CreateMqttTask, SetTargetLevel, MqttTask,
           ReadSensor, MakeDocument, StartConnect, ConnectSucceeds, ConnectFails, ConnectGivesUp,
           Session, Disconnect, Sleep, Interrupts, EventLoop, Station
  <2>5. QED
    BY <2>1, <2>2, <2>3, <2>4 DEF ReadDHT
<1>3. QED
  BY <1>1, <1>2, PTL DEF Spec
-----------------------------------------------------------------------------

(* A reading reported as good is what the sensor measured, for every       *)
(* value, whichever pulse an interrupt shortens and by how much.           *)
THEOREM BoardReading == Spec => []GoodReadingIsMeasured
<1>1. DhtOK => GoodReadingIsMeasured
  BY DEF DhtOK
<1>2. QED
  BY <1>1, DhtInvariance, PTL

-----------------------------------------------------------------------------
(* What the queue can hold in any step, and how often the station has been *)
(* asked to connect: once for the start and once for each retry counted.   *)
QueueOK ==
    /\ \/ link \in {"connecting", "up"} /\ wifiEvents = <<>>
       \/ link = "ip" /\ wifiEvents = <<>>
       \/ link = "ip" /\ wifiEvents = <<"GOT_IP">> /\ tries = 0
       \/ link = "down" /\ wifiEvents \in {<<>>, <<"DISCONNECTED">>}
       \/ link = "down" /\ wifiEvents \in {<<"START">>, <<"GOT_IP", "DISCONNECTED">>} /\ tries = 0
    /\ retryNum \in 0 .. MaximumRetry
    /\ tries \in Nat /\ tries <= retryNum + 1
    /\ wifiStep = "start" => link = "down" /\ wifiEvents = <<>> /\ tries = 0

LEMMA QueueNextOK == QueueOK /\ [WifiNext]_wifiVars => QueueOK'
<1> SUFFICES ASSUME QueueOK, [WifiNext]_wifiVars PROVE QueueOK'
  OBVIOUS
<1> USE WifiAssumption DEF QueueOK
<1>1. CASE WifiStart
  <2>1. wifiEvents' = <<"START">> /\ link' = "down" /\ tries' = 0 /\ wifiStep' = "wait" /\ retryNum' = retryNum
    BY <1>1 DEF WifiStart
  <2>2. QED
    BY <2>1
<1>2. CASE WaitReturns \/ UnregisterIp \/ UnregisterAny
  BY <1>2 DEF WaitReturns, UnregisterIp, UnregisterAny
<1>3. CASE DeleteGroup
  BY <1>3 DEF DeleteGroup
<1>4. CASE HandleEvent
  <2>1. wifiStep' = wifiStep /\ wifiEvents # <<>> /\ wifiEvents' = Tail(wifiEvents) /\ wifiStep # "start"
    BY <1>4 DEF HandleEvent
  <2>2. \/ UNCHANGED <<link, tries, retryNum>>
        \/ Head(wifiEvents) = "START" /\ HandleStart
        \/ Head(wifiEvents) = "DISCONNECTED" /\ HandleDisconnected
        \/ Head(wifiEvents) = "GOT_IP" /\ HandleGotIp
    BY <1>4 DEF HandleEvent
  <2>3. CASE wifiEvents = <<"START">>
    <3>1. Head(wifiEvents) = "START" /\ Tail(wifiEvents) = <<>> /\ link = "down" /\ tries = 0
      BY <2>3
    <3>2. CASE UNCHANGED <<link, tries, retryNum>>
      BY <2>1, <3>1, <3>2
    <3>3. CASE HandleStart
      BY <2>1, <3>1, <3>3 DEF HandleStart, EspConnect
    <3>4. QED
      BY <2>2, <3>1, <3>2, <3>3
  <2>4. CASE wifiEvents = <<"DISCONNECTED">>
    <3>1. Head(wifiEvents) = "DISCONNECTED" /\ Tail(wifiEvents) = <<>> /\ link = "down"
      BY <2>4
    <3>2. CASE UNCHANGED <<link, tries, retryNum>>
      BY <2>1, <3>1, <3>2
    <3>3. CASE HandleDisconnected
      BY <2>1, <3>1, <3>3 DEF HandleDisconnected, EspConnect
    <3>4. QED
      BY <2>2, <3>1, <3>2, <3>3
  <2>5. CASE wifiEvents = <<"GOT_IP">>
    <3>1. Head(wifiEvents) = "GOT_IP" /\ Tail(wifiEvents) = <<>> /\ link = "ip" /\ tries = 0
      BY <2>5
    <3>2. CASE UNCHANGED <<link, tries, retryNum>>
      BY <2>1, <3>1, <3>2
    <3>3. CASE HandleGotIp
      BY <2>1, <3>1, <3>3 DEF HandleGotIp
    <3>4. QED
      BY <2>2, <3>1, <3>2, <3>3
  <2>6. CASE wifiEvents = <<"GOT_IP", "DISCONNECTED">>
    <3>1. /\ Head(wifiEvents) = "GOT_IP" /\ Tail(wifiEvents) = <<"DISCONNECTED">>
          /\ link = "down" /\ tries = 0
      BY <2>6
    <3>2. CASE UNCHANGED <<link, tries, retryNum>>
      BY <2>1, <3>1, <3>2
    <3>3. CASE HandleGotIp
      BY <2>1, <3>1, <3>3 DEF HandleGotIp
    <3>4. QED
      BY <2>2, <3>1, <3>2, <3>3
  <2>7. QED
    BY <2>1, <2>3, <2>4, <2>5, <2>6
<1>5. CASE Associate
  BY <1>5 DEF Associate
<1>6. CASE LinkLost
  <2>1. /\ link' = "down" /\ wifiStep' = wifiStep /\ tries' = tries /\ retryNum' = retryNum
        /\ wifiEvents' = Append(wifiEvents, "DISCONNECTED") /\ link # "down"
    BY <1>6 DEF LinkLost
  <2>2. CASE wifiEvents = <<>>
    <3>1. wifiEvents' = <<"DISCONNECTED">>
      BY <2>1, <2>2
    <3>2. QED
      BY <2>1, <3>1
  <2>3. CASE wifiEvents = <<"GOT_IP">> /\ tries = 0
    <3>1. wifiEvents' = <<"GOT_IP", "DISCONNECTED">>
      BY <2>1, <2>3, AppendToOne
    <3>2. QED
      BY <2>1, <2>3, <3>1
  <2>4. QED
    BY <2>1, <2>2, <2>3
<1>7. CASE DhcpAnswers
  <2>1. wifiEvents = <<>> /\ wifiEvents' = <<"GOT_IP">>
    BY <1>7 DEF DhcpAnswers
  <2>2. QED
    BY <1>7, <2>1 DEF DhcpAnswers
<1>8. CASE UNCHANGED wifiVars
  BY <1>8 DEF wifiVars
<1>9. QED
  BY <1>1, <1>2, <1>3, <1>4, <1>5, <1>6, <1>7, <1>8 DEF WifiNext, InitialiseWifi, Driver

(* The back-off stays within its 16 bits.                                  *)
ParamsOK == reconnectParams \in Contexts /\ nextRetryBackOff \in UINT16

LEMMA NewParamsOK == NewParams \in Contexts /\ 0 \in UINT16
BY ConnectAssumption DEF NewParams, InitializeParams, Contexts, UINT16

LEMMA ParamsNextOK == ParamsOK /\ [Next]_vars => ParamsOK'
<1> SUFFICES ASSUME ParamsOK, [Next]_vars PROVE ParamsOK'
  OBVIOUS
<1> USE DEF ParamsOK
<1>1. CASE Locals
  BY <1>1, NewParamsOK DEF Locals
<1>2. CASE ConnectFails
  <2>1. PICK random \in Randoms : nextRetryBackOff' = NextBackOff(reconnectParams, random)
    BY <1>2 DEF ConnectFails
  <2>2. reconnectParams' = AfterRetry(reconnectParams)
    BY <1>2 DEF ConnectFails
  <2>3. NextBackOff(reconnectParams, random) \in UINT16
    <3>1. reconnectParams.nextJitterMax + 1 \in Nat \ {0} /\ random \in Nat
      BY ConnectAssumption DEF Contexts, UINT16
    <3>2. random % (reconnectParams.nextJitterMax + 1) \in Nat
      BY <3>1
    <3>3. QED
      BY <3>2 DEF NextBackOff, UINT16
  <2>4. AfterRetry(reconnectParams) \in Contexts
    <3> DEFINE n == reconnectParams.nextJitterMax
    <3>1. n \in Nat /\ reconnectParams.maxBackoffDelay \in UINT16 /\ reconnectParams.attemptsDone + 1 \in Nat
      BY DEF Contexts, UINT16
    <3>2. (n + n) % 65536 \in UINT16
      BY <3>1 DEF UINT16
    <3>3. (IF n < reconnectParams.maxBackoffDelay \div 2 THEN (n + n) % 65536
                                                        ELSE reconnectParams.maxBackoffDelay) \in UINT16
      BY <3>1, <3>2
    <3>4. PICK context \in Contexts, k \in Nat, m \in UINT16 :
            /\ context = reconnectParams /\ k = reconnectParams.attemptsDone + 1
            /\ m = IF n < reconnectParams.maxBackoffDelay \div 2 THEN (n + n) % 65536
                                                                 ELSE reconnectParams.maxBackoffDelay
      BY <3>1, <3>3
    <3>5. AfterRetry(reconnectParams) = [context EXCEPT !.attemptsDone = k, !.nextJitterMax = m]
      BY <3>4 DEF AfterRetry
    <3>6. [context EXCEPT !.attemptsDone = k, !.nextJitterMax = m] \in Contexts
      BY DEF Contexts
    <3>7. QED
      BY <3>5, <3>6
  <2>5. QED
    BY <2>1, <2>2, <2>3, <2>4
<1>3. CASE UNCHANGED <<reconnectParams, nextRetryBackOff>>
  BY <1>3
<1>4. Locals \/ ConnectFails \/ UNCHANGED <<reconnectParams, nextRetryBackOff>>
  BY DEF Next, vars, taskVars, AppMain, StartDimmer, StartWifi, CreateMqttTask, SetTargetLevel, MqttTask,
         ReadSensor, MakeDocument, StartConnect, ConnectSucceeds, ConnectGivesUp,
         Session, Disconnect, Sleep, Interrupts, EventLoop, Station
<1>5. QED
  BY <1>1, <1>2, <1>3, <1>4

(* Every variable of the board stays in its type: no event queue beyond    *)
(* two events, no retry beyond the limit, no reading or back-off beyond    *)
(* the width of its field.                                                 *)
THEOREM BoardTyped == Spec => []TypeOK
<1>1. Init => QueueOK /\ ParamsOK
  BY WifiAssumption, NewParamsOK DEF Init, WifiInit, QueueOK, ParamsOK
<1>2. QueueOK /\ [Next]_vars => QueueOK'
  <2>1. [Next]_vars => [WifiNext]_wifiVars
    BY DEF Next, vars, AppMain, StartDimmer, StartWifi, CreateMqttTask, SetTargetLevel, MqttTask,
           ReadSensor, MakeDocument, StartConnect, ConnectSucceeds, ConnectFails, ConnectGivesUp,
           Session, Disconnect, Sleep, Interrupts, EventLoop, Station, WifiNext
  <2>2. QED
    BY <2>1, QueueNextOK
<1>3. QueueOK => Len(wifiEvents) <= 2 /\ retryNum \in 0 .. MaximumRetry /\ tries \in 0 .. MaximumRetry + 1
  <2> SUFFICES ASSUME QueueOK PROVE Len(wifiEvents) <= 2 /\ tries \in 0 .. MaximumRetry + 1
    BY DEF QueueOK
  <2>1. Len(wifiEvents) <= 2
    <3>1. wifiEvents \in {<<>>, <<"GOT_IP">>, <<"DISCONNECTED">>, <<"START">>, <<"GOT_IP", "DISCONNECTED">>}
      BY DEF QueueOK
    <3>2. /\ Len(<<>>) = 0 /\ Len(<<"GOT_IP", "DISCONNECTED">>) = 2
          /\ Len(<<"GOT_IP">>) = 1 /\ Len(<<"DISCONNECTED">>) = 1 /\ Len(<<"START">>) = 1
      OBVIOUS
    <3>3. Len(wifiEvents) \in 0 .. 2
      <4>1. CASE wifiEvents = <<>>
        BY <3>2, <4>1
      <4>2. CASE wifiEvents \in {<<"GOT_IP">>, <<"DISCONNECTED">>, <<"START">>}
        BY <3>2, <4>2
      <4>3. CASE wifiEvents = <<"GOT_IP", "DISCONNECTED">>
        BY <3>2, <4>3
      <4>4. QED
        BY <3>1, <4>1, <4>2, <4>3
    <3>4. PICK n \in 0 .. 2 : n = Len(wifiEvents)
      BY <3>3
    <3>5. n <= 2
      OBVIOUS
    <3>6. QED
      BY ONLY <3>4, <3>5
  <2>2. QED
    BY <2>1, WifiAssumption DEF QueueOK
<1>4. BoardInv => DimmerTypeOK /\ wifiStep \in {"start", "wait", "unregisterIp", "unregisterAny", "delete", "done"}
  BY DEF BoardInv, DimmerInv, HandlersOK
<1>5. BoardInv /\ QueueOK /\ DhtOK /\ ParamsOK => TypeOK
  BY <1>3, <1>4 DEF DhtOK, ParamsOK, TypeOK
<1>6. QED
  BY <1>1, <1>2, <1>5, ParamsNextOK, BoardInvariance, DhtInvariance, PTL DEF Spec

(* The schedule of the back-off.                                           *)
LEMMA DoubledIs ==
    /\ Doubled \in [Nat -> Nat] /\ Doubled[0] = BackoffBase
    /\ \A k \in Nat : Doubled[k + 1] = 2 * Doubled[k]
<1> DEFINE step == [p \in Nat \X Nat |-> 2 * p[2]]
           Solves(g) == g = [k \in Nat |-> IF k = 0 THEN BackoffBase ELSE 2 * g[k - 1]]
<1>1. BackoffBase \in Nat /\ step \in [Nat \X Nat -> Nat]
  BY ConnectAssumption DEF UINT16
<1> HIDE DEF step
<1>2. PICK f : Recursion(f, Nat, BackoffBase, step)
  BY <1>1, RecursionExists
<1>3. \A n \in Nat : f[n + 1] = 2 * f[n]
  <2> SUFFICES ASSUME NEW n \in Nat PROVE f[n + 1] = 2 * f[n]
    OBVIOUS
  <2>1. f[n + 1] = step[<<n, f[n]>>] /\ <<n, f[n]>> \in Nat \X Nat
    BY <1>2 DEF Recursion
  <2>2. QED
    BY <2>1 DEF step
<1>4. Solves(f)
  <2>1. ASSUME NEW k \in Nat PROVE f[k] = IF k = 0 THEN BackoffBase ELSE 2 * f[k - 1]
    <3>1. CASE k = 0
      BY <1>2, <3>1 DEF Recursion
    <3>2. CASE k # 0
      <4>1. k - 1 \in Nat /\ k = (k - 1) + 1
        BY <3>2
      <4>2. f[(k - 1) + 1] = 2 * f[k - 1]
        BY <1>3, <4>1
      <4>3. QED
        BY <3>2, <4>1, <4>2
    <3>3. QED
      BY <3>1, <3>2
  <2>2. f = [k \in Nat |-> f[k]]
    BY <1>2 DEF Recursion
  <2>3. QED
    BY <2>1, <2>2
<1>5. Doubled = CHOOSE g : Solves(g)
  BY DEF Doubled
<1> HIDE DEF Solves
<1>6. Solves(Doubled)
  BY <1>4, <1>5
<1> USE DEF Solves
<1>7. Doubled = [k \in Nat |-> IF k = 0 THEN BackoffBase ELSE 2 * Doubled[k - 1]]
  BY <1>6
<1>8. Doubled[0] = BackoffBase
  BY <1>7
<1>9. ASSUME NEW k \in Nat PROVE Doubled[k + 1] = 2 * Doubled[k]
  <2>1. k + 1 \in Nat /\ k + 1 # 0 /\ (k + 1) - 1 = k
    OBVIOUS
  <2>2. QED
    BY <1>7, <2>1
<1> DEFINE T == {k \in Nat : Doubled[k] \in Nat}
<1>10. 0 \in T
  BY <1>1, <1>8
<1>11. ASSUME NEW k \in Nat, k \in T PROVE k + 1 \in T
  BY <1>9, <1>11
<1>12. \A k \in Nat : k \in T
  <2> HIDE DEF T
  <2>1. QED
    BY <1>10, <1>11, Induction
<1>13. Doubled \in [Nat -> Nat]
  BY <1>7, <1>12
<1>14. QED
  BY <1>8, <1>9, <1>13


(* The lesser of two numbers.                                              *)
LEMMA MinOfTwo ==
    ASSUME NEW x \in Nat, NEW y \in Nat
    PROVE  Min({x, y}) = IF x <= y THEN x ELSE y
<1>1. \A m \in {x, y} : (\A z \in {x, y} : m <= z) <=> m = (IF x <= y THEN x ELSE y)
  OBVIOUS
<1>2. (IF x <= y THEN x ELSE y) \in {x, y}
  OBVIOUS
<1>3. QED
  BY <1>1, <1>2 DEF Min

(* A bound below half the maximum doubles, any other ends at the maximum.  *)
LEMMA BoundGrows ==
    ASSUME NEW M \in Nat, NEW half \in Nat, M = half + half, NEW d \in Nat, NEW j \in Nat,
           j = IF M <= d THEN M ELSE d,
           NEW next, j < half => next = j + j, ~ (j < half) => next = M
    PROVE  next = IF M <= d + d THEN M ELSE d + d
<1>1. CASE j < half
  <2>1. j = d /\ d + d < M
    BY <1>1
  <2>2. QED
    BY <1>1, <2>1
<1>2. CASE ~ (j < half)
  <2>1. M <= d + d
    BY <1>2
  <2>2. QED
    BY <1>2, <2>1
<1>3. QED
  BY <1>1, <1>2

(* The contexts of the loop keep their parameters.                         *)
ScheduleOK ==
    /\ ParamsOK /\ BackoffWithinSchedule
    /\ reconnectParams.maxBackoffDelay = BackoffMaxDelay
    /\ reconnectParams.maxRetryAttempts = BackoffMaxAttempts

LEMMA NewScheduleOK ==
    /\ NewParams.attemptsDone = 0 /\ NewParams.maxBackoffDelay = BackoffMaxDelay
    /\ NewParams.maxRetryAttempts = BackoffMaxAttempts
    /\ NewParams.nextJitterMax = Min({BackoffMaxDelay, Doubled[0]})
<1>1. BackoffBase \in Nat /\ BackoffMaxDelay \in Nat /\ BackoffBase <= BackoffMaxDelay
  BY ConnectAssumption, ScheduleAssumption DEF UINT16
<1>2. Min({BackoffMaxDelay, BackoffBase}) = BackoffBase
  BY <1>1 DEF Min
<1>3. QED
  BY <1>2, DoubledIs DEF NewParams, InitializeParams

(* Every connection loop keeps to the schedule, whatever rand returns, for *)
(* every base, even maximum and number of attempts.                        *)
THEOREM BoardSchedule == Spec => []BackoffWithinSchedule
<1>1. Locals => ScheduleOK'
  <2> SUFFICES ASSUME Locals PROVE ScheduleOK'
    OBVIOUS
  <2>1. reconnectParams' = NewParams /\ nextRetryBackOff' = 0
    BY DEF Locals
  <2>2. ParamsOK'
    BY <2>1, NewParamsOK DEF ParamsOK
  <2>3. /\ reconnectParams'.attemptsDone = 0 /\ reconnectParams'.maxBackoffDelay = BackoffMaxDelay
        /\ reconnectParams'.maxRetryAttempts = BackoffMaxAttempts
        /\ reconnectParams'.nextJitterMax = Min({BackoffMaxDelay, Doubled[0]})
    BY <2>1, NewScheduleOK
  <2>4. BackoffWithinSchedule'
    BY <2>1, <2>3, ConnectAssumption DEF BackoffWithinSchedule
  <2>5. QED
    BY <2>2, <2>3, <2>4 DEF ScheduleOK
<1>2. Init => ScheduleOK
  <2> SUFFICES ASSUME Init PROVE ScheduleOK
    OBVIOUS
  <2>1. reconnectParams = NewParams /\ nextRetryBackOff = 0
    BY DEF Init
  <2>2. ParamsOK
    BY <2>1, NewParamsOK DEF ParamsOK
  <2>3. /\ reconnectParams.attemptsDone = 0 /\ reconnectParams.maxBackoffDelay = BackoffMaxDelay
        /\ reconnectParams.maxRetryAttempts = BackoffMaxAttempts
        /\ reconnectParams.nextJitterMax = Min({BackoffMaxDelay, Doubled[0]})
    BY <2>1, NewScheduleOK
  <2>4. BackoffWithinSchedule
    BY <2>1, <2>3, ConnectAssumption DEF BackoffWithinSchedule
  <2>5. QED
    BY <2>2, <2>3, <2>4 DEF ScheduleOK
<1>3. ScheduleOK /\ [Next]_vars => ScheduleOK'
  <2> SUFFICES ASSUME ScheduleOK, [Next]_vars PROVE ScheduleOK'
    OBVIOUS
  <2>1. ParamsOK'
    BY ParamsNextOK DEF ScheduleOK
  <2>2. CASE ConnectFails
    <3>1. PICK random \in Randoms : nextRetryBackOff' = NextBackOff(reconnectParams, random)
      BY <2>2 DEF ConnectFails
    <3>2. AttemptsLeft(reconnectParams) /\ reconnectParams' = AfterRetry(reconnectParams)
      BY <2>2 DEF ConnectFails
    <3>3. PICK done, j : done = reconnectParams.attemptsDone /\ j = reconnectParams.nextJitterMax
      OBVIOUS
    <3>4. /\ done \in Nat /\ j \in Nat /\ j < 65536 /\ random \in Nat
          /\ BackoffMaxDelay \in Nat /\ BackoffMaxDelay < 65536 /\ BackoffMaxAttempts \in Nat
      BY <3>3, ConnectAssumption DEF ScheduleOK, ParamsOK, Contexts, UINT16
    <3>5. /\ j = Min({BackoffMaxDelay, Doubled[done]})
          /\ reconnectParams.maxBackoffDelay = BackoffMaxDelay
          /\ reconnectParams.maxRetryAttempts = BackoffMaxAttempts
      BY <3>3 DEF ScheduleOK, BackoffWithinSchedule
    <3>6. done < BackoffMaxAttempts
      BY <3>2, <3>3, <3>5, ScheduleAssumption DEF AttemptsLeft, RetryForever
    <3>7. PICK next : next = reconnectParams'.nextJitterMax
      OBVIOUS
    <3>8. /\ reconnectParams'.attemptsDone = done + 1
          /\ reconnectParams'.maxBackoffDelay = BackoffMaxDelay
          /\ reconnectParams'.maxRetryAttempts = BackoffMaxAttempts
          /\ j < BackoffMaxDelay \div 2 => next = (j + j) % 65536
          /\ ~ (j < BackoffMaxDelay \div 2) => next = BackoffMaxDelay
      <4>1. PICK context \in Contexts : context = reconnectParams
        BY DEF ScheduleOK, ParamsOK
      <4>2. PICK k, m : /\ k = context.attemptsDone + 1
                        /\ m = IF j < BackoffMaxDelay \div 2 THEN (j + j) % 65536 ELSE BackoffMaxDelay
        OBVIOUS
      <4>3. reconnectParams' = [context EXCEPT !.attemptsDone = k, !.nextJitterMax = m]
        BY <3>2, <3>3, <3>5, <4>1, <4>2 DEF AfterRetry
      <4>4. DOMAIN context = {"maxBackoffDelay", "attemptsDone", "nextJitterMax", "maxRetryAttempts"}
        BY <4>1 DEF Contexts
      <4>5. /\ reconnectParams'.attemptsDone = k /\ reconnectParams'.nextJitterMax = m
            /\ reconnectParams'.maxBackoffDelay = context.maxBackoffDelay
            /\ reconnectParams'.maxRetryAttempts = context.maxRetryAttempts
        BY <4>3, <4>4
      <4>6. QED
        BY <3>3, <3>5, <3>7, <4>1, <4>2, <4>5
    <3>9. Doubled[done] \in Nat /\ Doubled[done + 1] = 2 * Doubled[done]
      BY <3>4, DoubledIs
    <3>10. next = Min({BackoffMaxDelay, Doubled[done + 1]})
      <4>1. PICK d \in Nat : d = Doubled[done]
        BY <3>9
      <4>2. j = Min({BackoffMaxDelay, d}) /\ BackoffMaxDelay % 2 = 0
        BY <3>5, <4>1, ScheduleAssumption
      <4>3. next = Min({BackoffMaxDelay, 2 * d})
        <5>1. PICK max \in Nat : max = BackoffMaxDelay
          BY <3>4
        <5>2. PICK jitter \in Nat : jitter = j
          BY <3>4
        <5>3. max < 65536 /\ max % 2 = 0 /\ jitter = Min({max, d})
          BY <3>4, <4>2, <5>1, <5>2
        <5>4. PICK half \in Nat : half = max \div 2 /\ max = half + half
          BY <5>3
        <5>5. jitter < half => next = jitter + jitter
          <6>1. CASE jitter < half
            <7>1. (jitter + jitter) % 65536 = jitter + jitter
              BY <5>3, <5>4, <6>1
            <7>2. QED
              BY <3>8, <5>1, <5>2, <5>4, <6>1, <7>1
          <6>2. QED
            BY <6>1
        <5>6. ~ (jitter < half) => next = max
          BY <3>8, <5>1, <5>2, <5>4
        <5>7. max = half + half /\ jitter = IF max <= d THEN max ELSE d
          BY <5>3, <5>4, MinOfTwo
        <5>8. next = IF max <= d + d THEN max ELSE d + d
          BY <5>5, <5>6, <5>7, BoundGrows
        <5>9. PICK e \in Nat : e = 2 * d /\ e = d + d
          OBVIOUS
        <5>10. Min({max, e}) = IF max <= e THEN max ELSE e
          BY MinOfTwo
        <5>11. QED
          BY <5>1, <5>8, <5>9, <5>10
      <4>4. QED
        BY <3>9, <4>1, <4>3
    <3>11. nextRetryBackOff' <= j
      <4>1. random % (j + 1) \in 0 .. j
        BY <3>4
      <4>2. (random % (j + 1)) % 65536 = random % (j + 1)
        BY <3>4, <4>1
      <4>3. QED
        BY <3>1, <3>3, <3>4, <4>1, <4>2 DEF NextBackOff
    <3>12. done + 1 # 0 /\ (done + 1) - 1 = done /\ done + 1 <= BackoffMaxAttempts
      BY <3>4, <3>6
    <3>13. BackoffWithinSchedule'
      <4>1. PICK after : after = done + 1
        OBVIOUS
      <4>2. PICK v : v = nextRetryBackOff'
        OBVIOUS
      <4>3. v <= (IF after = 0 THEN 0 ELSE Min({BackoffMaxDelay, Doubled[after - 1]}))
        BY <3>5, <3>11, <3>12, <4>1, <4>2
      <4>4. reconnectParams'.attemptsDone = after /\ after <= BackoffMaxAttempts
        BY <3>8, <3>12, <4>1
      <4>5. reconnectParams'.nextJitterMax = Min({BackoffMaxDelay, Doubled[after]})
        BY <3>7, <3>10, <4>1
      <4>6. QED
        BY <4>2, <4>3, <4>4, <4>5 DEF BackoffWithinSchedule
    <3>14. QED
      BY <2>1, <3>8, <3>13 DEF ScheduleOK
  <2>3. CASE UNCHANGED <<reconnectParams, nextRetryBackOff>>
    BY <2>1, <2>3 DEF ScheduleOK, BackoffWithinSchedule
  <2>4. Locals \/ ConnectFails \/ UNCHANGED <<reconnectParams, nextRetryBackOff>>
    BY DEF Next, vars, taskVars, AppMain, StartDimmer, StartWifi, CreateMqttTask, SetTargetLevel,
           MqttTask, ReadSensor, MakeDocument, StartConnect, ConnectSucceeds, ConnectGivesUp,
           Session, Disconnect, Sleep, Interrupts, EventLoop, Station
  <2>5. QED
    BY <1>1, <2>2, <2>3, <2>4
<1>4. ScheduleOK => BackoffWithinSchedule
  BY DEF ScheduleOK
<1>5. QED
  BY <1>2, <1>3, <1>4, PTL DEF Spec
=============================================================================
