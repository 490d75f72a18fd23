------------------------------ MODULE StepGen ------------------------------
(***************************************************************************)
(* The pulse generator (argus_step_gen.c): task-level functions, which the *)
(* trajectory engine calls one at a time under s_traj_mutex, against the   *)
(* timer interrupt, which on this dual-core part runs on the core that     *)
(* registered it while the caller runs on the other.  A step is one        *)
(* critical section on s_timing_mux, one call of the timer driver, or one  *)
(* pin write, so every interleaving of the two that the locks allow is a   *)
(* behaviour.  A rate stands for its (integer, remainder, denominator)     *)
(* period, 0 for the zero period.  Times are left out: an armed alarm of a *)
(* running timer fires at any later moment.                                *)
(***************************************************************************)
EXTENDS Naturals, Sequences

CONSTANTS
    Rate,         \* the rates the trajectory engine asks for
    TimerMayFail  \* gptimer_start may return an error at a kickstart

ASSUME RateAssumption ==
    /\ Rate \subseteq Nat \ {0} /\ Rate # {}
    /\ TimerMayFail \in BOOLEAN

VARIABLES
    requested, generated,     \* s_requested_rpm_milli, s_generated_rpm_milli
    pending, active,          \* the periods of s_pending_timing, s_active_timing
    immediateStop,            \* s_pending_timing.immediate_stop
    forward,                  \* s_forward, the DIR pin and the pending direction
    running, driverEnabled,   \* s_running, s_driver_enabled with the ENA pin
    failed,                   \* s_error_state: the last kickstart failed
    timerOn, armed,           \* the GPTimer counts; an alarm is programmed
    step,                     \* the STEP pin is at its active level
    pinAsserted,              \* the ISR's static pin_asserted
    isr,                      \* where the ISR is
    task, call,               \* where the calling task is, and what it runs
    lateEdges                 \* STEP edges since the last stop began, capped

timing == <<requested, generated, pending, active, immediateStop>>
enables == <<forward, running, driverEnabled>>
pins == <<step, pinAsserted>>
vars == <<timing, enables, failed, timerOn, armed, pins, isr, task, call, lateEdges>>

HistoryCap == 2

\* After argus_step_gen_init, _arm and _start: the timer runs and the alarm
\* that init programmed is pending.
Init ==
    /\ requested = 0 /\ generated = 0
    /\ pending = 0 /\ active = 0 /\ immediateStop = FALSE
    /\ forward = TRUE /\ running = TRUE /\ driverEnabled = FALSE
    /\ failed = FALSE /\ timerOn = TRUE /\ armed = TRUE
    /\ step = FALSE /\ pinAsserted = FALSE
    /\ isr = "idle" /\ task = "idle" /\ call = <<>>
    /\ lateEdges = 0

\* Driving STEP active; an edge only from inactive.
AssertStep ==
    /\ step' = TRUE
    /\ lateEdges' = IF step \/ lateEdges = HistoryCap THEN lateEdges ELSE lateEdges + 1

---------------------------------------------------------------------------
(* argus_timer_alarm_cb                                                    *)

AlarmFires ==
    /\ isr = "idle" /\ timerOn /\ armed
    /\ armed' = FALSE
    /\ isr' = IF pinAsserted THEN "deassert" ELSE "guard"
    /\ UNCHANGED <<timing, failed, enables, timerOn, pins, task, call, lateEdges>>

\* The pending direction always equals s_forward here: argus_step_gen_
\* set_direction writes both in one critical section.
Deassert ==
    /\ isr = "deassert"
    /\ step' = FALSE /\ pinAsserted' = FALSE
    /\ isr' = "rearm"
    /\ UNCHANGED <<timing, failed, enables, timerOn, armed, task, call, lateEdges>>

Guard ==
    /\ isr = "guard"
    /\ IF running /\ driverEnabled
       THEN isr' = "accept" /\ UNCHANGED step
       ELSE isr' = "idle" /\ step' = FALSE
    /\ UNCHANGED <<timing, failed, enables, timerOn, armed, pinAsserted, task, call,
                   lateEdges>>

\* The critical section at the start of a step.
Accept ==
    /\ isr = "accept"
    /\ IF immediateStop
       THEN active' = 0 /\ generated' = 0 /\ immediateStop' = FALSE
       ELSE IF active # pending
       THEN active' = pending /\ generated' = requested /\ UNCHANGED immediateStop
       ELSE UNCHANGED <<active, generated, immediateStop>>
    /\ isr' = "check"
    /\ UNCHANGED <<failed, requested, pending, enables, timerOn, armed, pins, task,
                   call, lateEdges>>

Check ==
    /\ isr = "check"
    /\ IF active = 0 THEN isr' = "idle" /\ step' = FALSE
                     ELSE isr' = "assert" /\ UNCHANGED step
    /\ UNCHANGED <<timing, failed, enables, timerOn, armed, pinAsserted, task, call,
                   lateEdges>>

IsrAssert ==
    /\ isr = "assert"
    /\ AssertStep
    /\ pinAsserted' = TRUE
    /\ isr' = "rearm"
    /\ UNCHANGED <<timing, failed, enables, timerOn, armed, task, call>>

Rearm ==
    /\ isr = "rearm"
    /\ armed' = TRUE
    /\ isr' = "idle"
    /\ UNCHANGED <<timing, failed, enables, timerOn, pins, task, call, lateEdges>>

Isr == AlarmFires \/ Deassert \/ Guard \/ Accept \/ Check \/ IsrAssert \/ Rearm

---------------------------------------------------------------------------
(* The calls of argus_trajectory.c.  A call is the sequence of functions   *)
(* still to run; task is the step within the one at its head.              *)

Calls == {
    <<"enable", "start", "rate">>,  \* a tick with a positive rate
    <<"stop", "turn">>,             \* a tick that completes a reversal
    <<"profiled">>,                 \* a tick at zero with pulses left
    <<"enable">>,                   \* argus_trajectory_enable_driver
    <<"stop">>,                     \* argus_trajectory_stop_immediate
    <<"disable">>,                  \* argus_trajectory_unlock
    <<"stop", "disable">> }         \* argus_trajectory_recover

Begin ==
    /\ task = "idle"
    /\ \E c \in Calls :
         /\ c = <<"profiled">> => generated > 0
         /\ call' = c /\ task' = Head(c)
    /\ UNCHANGED <<timing, failed, enables, timerOn, armed, pins, isr, lateEdges>>

Return ==
    /\ call' = Tail(call)
    /\ task' = IF Tail(call) = <<>> THEN "idle" ELSE Head(Tail(call))

Goto(step1) == task' = step1 /\ UNCHANGED call

EnableDriver ==
    /\ task = "enable"
    /\ driverEnabled' = TRUE
    /\ Return
    /\ UNCHANGED <<timing, failed, forward, running, timerOn, armed, pins, isr, lateEdges>>

StartRunning ==
    /\ task = "start"
    /\ running' = TRUE
    /\ Goto("start_timer")
    /\ UNCHANGED <<timing, failed, forward, driverEnabled, timerOn, armed, pins, isr,
                   lateEdges>>

StartTimer ==
    /\ task = "start_timer"
    /\ timerOn' = TRUE
    /\ Return
    /\ UNCHANGED <<timing, failed, enables, armed, pins, isr, lateEdges>>

\* argus_step_gen_set_rate_rpm_milli: the critical section, then the kickstart
\* when no rate is in effect.
RequestRate ==
    /\ task = "rate"
    /\ \E r \in Rate : requested' = r /\ pending' = r
    /\ immediateStop' = FALSE
    /\ Goto("rate_check")
    /\ UNCHANGED <<failed, generated, active, enables, timerOn, armed, pins, isr, lateEdges>>

\* Mutant: no kickstart.
RateCheckMutant ==
    /\ task = "rate_check"
    /\ failed' = FALSE
    /\ Return
    /\ UNCHANGED <<timing, enables, timerOn, armed, pins, isr, lateEdges>>

RateCheck ==
    /\ task = "rate_check"
    /\ IF generated = 0 /\ running
       THEN \/ timerOn' = TRUE /\ Goto("kick_apply") /\ UNCHANGED failed
            \/ TimerMayFail /\ failed' = TRUE /\ UNCHANGED timerOn /\ Return
       ELSE failed' = FALSE /\ UNCHANGED timerOn /\ Return
    /\ UNCHANGED <<timing, enables, armed, pins, isr, lateEdges>>

KickApply ==
    /\ task = "kick_apply"
    /\ active' = pending /\ generated' = requested
    /\ Goto("kick_assert")
    /\ UNCHANGED <<failed, requested, pending, immediateStop, enables, timerOn, armed,
                   pins, isr, lateEdges>>

KickAssert ==
    /\ task = "kick_assert"
    /\ AssertStep
    /\ Goto("kick_arm")
    /\ UNCHANGED <<timing, failed, enables, timerOn, armed, pinAsserted, isr>>

KickArm ==
    /\ task = "kick_arm"
    /\ failed' = FALSE
    /\ armed' = TRUE
    /\ Return
    /\ UNCHANGED <<timing, enables, timerOn, pins, isr, lateEdges>>

\* Mutant: the pending period survives a stop.
ClearTimingMutant ==
    /\ running' = FALSE /\ requested' = 0 /\ generated' = 0
    /\ active' = 0 /\ UNCHANGED <<pending, immediateStop>>

\* The critical section that stop_immediate and disable_driver share.
ClearTiming ==
    /\ running' = FALSE /\ requested' = 0 /\ generated' = 0
    /\ pending' = 0 /\ active' = 0 /\ immediateStop' = TRUE

StopTiming ==
    /\ task = "stop"
    /\ ClearTiming
    /\ lateEdges' = 0
    /\ Goto(IF running THEN "stop_timer" ELSE "stop_pin")
    /\ UNCHANGED <<failed, forward, driverEnabled, timerOn, armed, pins, isr>>

StopTimer ==
    /\ task = "stop_timer"
    /\ timerOn' = FALSE
    /\ Goto("stop_pin")
    /\ UNCHANGED <<timing, failed, enables, armed, pins, isr, lateEdges>>

StopPin ==
    /\ task = "stop_pin"
    /\ failed' = FALSE
    /\ step' = FALSE
    /\ Return
    /\ UNCHANGED <<timing, enables, timerOn, armed, pinAsserted, isr, lateEdges>>

DisableTiming ==
    /\ task = "disable"
    /\ ClearTiming
    /\ lateEdges' = 0
    /\ Goto("disable_timer")
    /\ UNCHANGED <<failed, forward, driverEnabled, timerOn, armed, pins, isr>>

DisableTimer ==
    /\ task = "disable_timer"
    /\ timerOn' = FALSE
    /\ Goto("disable_pin")
    /\ UNCHANGED <<timing, failed, enables, armed, pins, isr, lateEdges>>

DisablePins ==
    /\ task = "disable_pin"
    /\ failed' = FALSE
    /\ step' = FALSE
    /\ driverEnabled' = FALSE
    /\ Return
    /\ UNCHANGED <<timing, forward, running, timerOn, armed, pinAsserted, isr,
                   lateEdges>>

\* argus_step_gen_set_direction: the check and the change are two critical
\* sections with the DIR hold time between them.
TurnCheck ==
    /\ task = "turn"
    /\ IF running /\ active > 0 THEN Return ELSE Goto("turn_dir")
    /\ UNCHANGED <<timing, failed, enables, timerOn, armed, pins, isr, lateEdges>>

TurnDir ==
    /\ task = "turn_dir"
    /\ forward' \in BOOLEAN
    /\ Return
    /\ UNCHANGED <<timing, failed, running, driverEnabled, timerOn, armed, pins, isr,
                   lateEdges>>

\* Mutant: the rate is reported as gone while pulses still come out.
StopProfiledMutant ==
    /\ task = "profiled"
    /\ failed' = FALSE
    /\ requested' = 0 /\ pending' = 0 /\ generated' = 0
    /\ Return
    /\ UNCHANGED <<active, immediateStop, enables, timerOn, armed, pins, isr, lateEdges>>

StopProfiled ==
    /\ task = "profiled"
    /\ failed' = FALSE
    /\ requested' = 0 /\ pending' = 0
    /\ Return
    /\ UNCHANGED <<generated, active, immediateStop, enables, timerOn, armed,
                   pins, isr, lateEdges>>

Body ==
    \/ EnableDriver \/ StartRunning \/ StartTimer
    \/ RequestRate \/ RateCheck \/ KickApply \/ KickAssert \/ KickArm
    \/ StopTiming \/ StopTimer \/ StopPin
    \/ DisableTiming \/ DisableTimer \/ DisablePins
    \/ TurnCheck \/ TurnDir \/ StopProfiled

Next == Isr \/ Begin \/ Body

Spec == Init /\ [][Next]_vars

\* An interrupt handler and a called function run to their end, and an armed
\* alarm of a running timer fires.
FairSpec == Spec /\ WF_vars(Isr) /\ WF_vars(Body)

---------------------------------------------------------------------------
Steps == {"idle", "enable", "start", "start_timer", "rate", "rate_check",
          "kick_apply", "kick_assert", "kick_arm", "stop", "stop_timer",
          "stop_pin", "disable", "disable_timer", "disable_pin", "turn",
          "turn_dir", "profiled"}

\* Every variable has the type of the C variable it models.
TypeOK ==
    /\ {requested, generated, pending, active} \subseteq Rate \cup {0}
    /\ {immediateStop, forward, running, driverEnabled, failed, timerOn, armed,
        step, pinAsserted} \subseteq BOOLEAN
    /\ isr \in {"idle", "deassert", "guard", "accept", "check", "assert", "rearm"}
    /\ task \in Steps
    /\ lateEdges \in 0 .. HistoryCap

\* Once a stop has cleared the timing no late interrupt brings a rate back.
StopIsFinal == ~running => generated = 0 /\ active = 0

Stopping == task \in {"stop_timer", "stop_pin", "disable_timer", "disable_pin"}

\* From the moment a stop begins at most one STEP edge still comes out: the
\* one of an interrupt that had already decided to make it.
OneLateEdge == Stopping \/ ~running => lateEdges <= 1

\* While a rate is in effect the chain of alarms is never broken: between the
\* caller's steps an alarm is armed on a running timer or the interrupt is on
\* its way to arm it.
ChainAlive ==
    task = "idle" /\ active > 0 => timerOn /\ (armed \/ isr # "idle")

\* The step generator implements its contract.
Contract == INSTANCE PulseContract WITH
    Rate <- Rate, requested <- requested, generated <- generated, running <- running,
    driverEnabled <- driverEnabled, forward <- forward
ImplementsContract == Contract!ContractSpec

\* A requested rate, zero included, comes into effect unless another request
\* or a stop replaces it or the timer's failure to start is reported.
RateTakesEffect ==
    \A r \in Rate \cup {0} :
        requested = r /\ generated # r ~> generated = r \/ requested # r \/ failed

---------------------------------------------------------------------------
(* A statement of the repository that the code does not meet.              *)

\* docs/V2_CONTROLLER_ARCHITECTURE.md on EMERGENCY_STOPPED: pulse generation is
\* killed and STEP is forced to its inactive level.
StopLeavesStepInactive ==
    ~running /\ task = "idle" /\ isr = "idle" => ~step
===========================================================================
