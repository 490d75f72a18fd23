---------------------------- MODULE Trajectory ----------------------------
(***************************************************************************)
(* The trajectory engine (argus_trajectory.c) over the step generator's    *)
(* task-level interface (argus_step_gen.c).  Every function of             *)
(* argus_trajectory.c holds s_traj_mutex from its first assignment to its  *)
(* last call, so each one is a single step here; the step generator's      *)
(* functions are operators on its state that a step composes in the order  *)
(* the C code calls them.  The only concurrent writer is the timer ISR,    *)
(* of which this module keeps one effect: accepting the pending rate.      *)
(* StepGen models the ISR in detail.                                       *)
(***************************************************************************)
EXTENDS Integers

CONSTANTS
    MaxRpm,      \* cfg->max_output_milli_rpm, and the 200000 of the state core
    DeltaAccel,  \* change of the applied rate in one 20 ms tick, speeding up
    DeltaDecel   \* the same, slowing down

ASSUME RateAssumption ==
    /\ MaxRpm \in Nat \ {0}
    /\ DeltaAccel \in Nat \ {0}
    /\ DeltaDecel \in Nat \ {0}

VARIABLES
    tr,  \* the statics of argus_trajectory.c
    sg   \* the statics of argus_step_gen.c

ErrNone == 0
TimingUpdateFailed == 2

Rates == 0 .. MaxRpm

TrajectoryState ==
    [target : Rates, applied : Rates, targetForward : BOOLEAN,
     currentForward : BOOLEAN, rampActive : BOOLEAN, isReversing : BOOLEAN]

StepGenState ==
    [requested : Rates, generated : Rates, forward : BOOLEAN,
     running : BOOLEAN, driverEnabled : BOOLEAN,
     errorState : {ErrNone, TimingUpdateFailed}]

LesserOf(a, b) == IF a < b THEN a ELSE b
GreaterOf(a, b) == IF a > b THEN a ELSE b

---------------------------------------------------------------------------
(* The step generator's functions, as operators on its state.              *)

EnableDriver(s) == [s EXCEPT !.driverEnabled = TRUE]

StartPulses(s) == [s EXCEPT !.running = TRUE]

\* argus_step_gen_stop_immediate clears the error state last, whatever
\* gptimer_stop returned.
StopPulses(s) ==
    [s EXCEPT !.running = FALSE, !.requested = 0, !.generated = 0,
              !.errorState = ErrNone]

DisableDriver(s) == [StopPulses(s) EXCEPT !.driverEnabled = FALSE]

StopProfiled(s) == [s EXCEPT !.requested = 0, !.errorState = ErrNone]

ClearError(s) == [s EXCEPT !.errorState = ErrNone]

\* A direction change is refused while pulses are being generated; the
\* callers ignore the refusal.
SetDirection(s, fwd) ==
    IF s.running /\ s.generated > 0 THEN s ELSE [s EXCEPT !.forward = fwd]

\* From standstill the rate is put into effect at once (the kickstart), which
\* fails when gptimer_start does; otherwise it stays pending until the ISR
\* accepts it at the start of a step.
SetRate(s, rpm, timerStarts) ==
    LET e == [s EXCEPT !.driverEnabled = TRUE, !.requested = rpm]
    IN  IF s.generated = 0 /\ s.running
        THEN IF timerStarts
             THEN [e EXCEPT !.generated = rpm, !.errorState = ErrNone]
             ELSE [e EXCEPT !.errorState = TimingUpdateFailed]
        ELSE [e EXCEPT !.errorState = ErrNone]

---------------------------------------------------------------------------
(* argus_trajectory_step_tick_20ms                                         *)

MustReverse == tr.targetForward # tr.currentForward \/ tr.isReversing

\* Mutant: no ramp.
NextAppliedJump == IF MustReverse THEN 0 ELSE tr.target

NextApplied ==
    IF MustReverse THEN GreaterOf(tr.applied - DeltaDecel, 0)
    ELSE IF tr.applied < tr.target
         THEN LesserOf(tr.applied + DeltaAccel, tr.target)
         ELSE GreaterOf(tr.applied - DeltaDecel, tr.target)

CompletesReversal == MustReverse /\ NextApplied = 0

TickTrajectory ==
    [tr EXCEPT
       !.applied = NextApplied,
       !.rampActive = IF MustReverse THEN @ \/ tr.applied > 0
                                     ELSE NextApplied # tr.target,
       !.isReversing = MustReverse /\ ~CompletesReversal,
       !.currentForward = IF CompletesReversal THEN tr.targetForward ELSE @]

\* At zero speed the pulses are stopped before the direction changes.
SwitchDirection(s) == SetDirection(StopPulses(s), tr.targetForward)

\* Mutant: the last rate stays in effect when the ramp reaches zero.
TickStepGenMutant(timerStarts) ==
    LET s == IF CompletesReversal THEN SwitchDirection(sg) ELSE sg
    IN  IF NextApplied > 0
        THEN SetRate(StartPulses(EnableDriver(s)), NextApplied, timerStarts)
        ELSE s

TickStepGen(timerStarts) ==
    LET s == IF CompletesReversal THEN SwitchDirection(sg) ELSE sg
    IN  IF NextApplied > 0
        THEN SetRate(StartPulses(EnableDriver(s)), NextApplied, timerStarts)
        ELSE IF s.generated > 0 THEN StopProfiled(s) ELSE s

Tick ==
    \E timerStarts \in BOOLEAN :
        /\ tr' = TickTrajectory
        /\ sg' = TickStepGen(timerStarts)

\* The ISR takes the pending rate into effect at the start of a step.
AcceptRate ==
    /\ sg.running /\ sg.driverEnabled
    /\ sg.generated > 0
    /\ sg.generated # sg.requested
    /\ sg' = [sg EXCEPT !.generated = sg.requested]
    /\ UNCHANGED tr

---------------------------------------------------------------------------
(* The operations the state manager calls.                                 *)

Clamp(rpm) == LesserOf(GreaterOf(rpm, 0), MaxRpm)

SetTargetRpm(rpm, fwd) ==
    /\ tr' = [tr EXCEPT
                !.target = Clamp(rpm), !.targetForward = fwd,
                !.isReversing = @ \/ (fwd # tr.currentForward /\ tr.applied > 0)]
    /\ sg' = IF tr.applied = 0 /\ Clamp(rpm) > 0 THEN EnableDriver(sg) ELSE sg

StopNormal == SetTargetRpm(0, tr.targetForward)

Halted(t) ==
    [t EXCEPT !.target = 0, !.applied = 0, !.rampActive = FALSE,
              !.isReversing = FALSE]

StopImmediate == tr' = Halted(tr) /\ sg' = StopPulses(sg)

Unlock == tr' = Halted(tr) /\ sg' = DisableDriver(sg)

\* Mutant: recovery leaves the driver on.
RecoverDriveMutant == tr' = Halted(tr) /\ sg' = ClearError(StopPulses(sg))

RecoverDrive ==
    tr' = Halted(tr) /\ sg' = ClearError(DisableDriver(StopPulses(sg)))

EnableDrive == sg' = EnableDriver(sg) /\ UNCHANGED tr

---------------------------------------------------------------------------
(* After argus_step_gen_init, _arm and _start, as app_main calls them.     *)

MotionInit ==
    /\ tr = [target |-> 0, applied |-> 0, targetForward |-> TRUE,
             currentForward |-> TRUE, rampActive |-> FALSE,
             isReversing |-> FALSE]
    /\ sg = [requested |-> 0, generated |-> 0, forward |-> TRUE,
             running |-> TRUE, driverEnabled |-> FALSE, errorState |-> ErrNone]

MotionTypeOK == tr \in TrajectoryState /\ sg \in StepGenState

Still ==
    tr.target = 0 /\ tr.applied = 0 /\ sg.requested = 0 /\ sg.generated = 0

\* Pulses are generated only with the driver on and the generator running.
PulsesNeedDriver == sg.generated > 0 => sg.driverEnabled /\ sg.running

\* The DIR line is where the trajectory engine believes it to be, although it
\* ignores whether argus_step_gen_set_direction refused.
DirectionAgrees == sg.forward = tr.currentForward

\* A rate that is requested but not generated is one whose kickstart failed.
RequestedMeansGenerated ==
    sg.requested > 0 /\ sg.generated = 0 => sg.errorState # ErrNone

MotionInv ==
    /\ MotionTypeOK
    /\ PulsesNeedDriver
    /\ DirectionAgrees
    /\ RequestedMeansGenerated
===========================================================================
