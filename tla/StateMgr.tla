----------------------------- MODULE StateMgr -----------------------------
(***************************************************************************)
(* The authoritative machine-state manager (argus_state_mgr.c) over the    *)
(* trajectory engine.  A command holds s_command_mutex and s_state_mutex   *)
(* for its whole duration; an E-stop takes s_state_mutex only; the         *)
(* evaluator task takes s_command_mutex, samples the trajectory, and only  *)
(* then takes s_state_mutex, so an E-stop can come between.  A command     *)
(* that makes one call into the trajectory engine is one step; start and   *)
(* recover make two, with trajectory ticks between them.                   *)
(***************************************************************************)
EXTENDS Trajectory

CONSTANTS
    Requests,    \* rates clients ask for, in and out of range
    GenModulus,  \* command_generation is a uint32_t: 2^32
    FailingOps   \* motion operations that may return an error

Ops == {"enable_driver", "set_target_rate", "stop_normal", "recover"}

ASSUME StateMgrAssumption ==
    /\ Requests \subseteq Int
    /\ GenModulus \in Nat /\ GenModulus > 1
    /\ FailingOps \subseteq Ops

VARIABLES
    core,         \* argus_state_core_t
    inflight,     \* the command between its two calls, or "none"
    entry,        \* that command's locals: entry generation, result so far
    sample,       \* the trajectory snapshot the evaluator took, or NoSample
    estopWaiting  \* an E-stop caller is blocked on s_state_mutex

vars == <<tr, sg, core, inflight, entry, sample, estopWaiting>>

States == {"UNLOCKED", "STARTING", "RUNNING", "DECELERATING", "HOLDING",
           "EMERGENCY_STOPPED", "RECOVERING", "FAULTED"}

OpError == 1  \* any esp_err_t other than ESP_OK

Samples ==
    [applied : Rates, generated : Rates, rampActive : BOOLEAN,
     error : {ErrNone, TimingUpdateFailed}]
NoSample == [applied |-> -1]

Entries == [generation : 0 .. (GenModulus - 1), ok : BOOLEAN]
NoEntry == [generation |-> 0, ok |-> TRUE]

Results(op) == IF op \in FailingOps THEN BOOLEAN ELSE {TRUE}

CommandMutexFree == inflight = "none" /\ sample = NoSample
StateMutexFree == inflight = "none"

Idle == UNCHANGED <<inflight, entry, sample, estopWaiting>>

State == core.machineState
Moving == State \in {"STARTING", "RUNNING"}

Init ==
    /\ MotionInit
    /\ core = [machineState |-> "UNLOCKED", configuredTarget |-> 0,
               requestedForward |-> TRUE, estopLatched |-> FALSE,
               estopResetDestination |-> "HOLDING", faultCode |-> 0,
               commandGeneration |-> 1]
    /\ inflight = "none"
    /\ entry = NoEntry
    /\ sample = NoSample
    /\ estopWaiting = FALSE

Fault(c, code) == [c EXCEPT !.machineState = "FAULTED", !.faultCode = code]

---------------------------------------------------------------------------
(* Commands.  A refused command changes only the rejection text, which is  *)
(* not modelled; neither is one that times out on s_command_mutex.         *)

SetTargetPermitted(rpm) ==
    /\ ~core.estopLatched
    /\ State \notin {"EMERGENCY_STOPPED", "FAULTED", "DECELERATING", "RECOVERING"}
    /\ rpm \in Rates

SetTarget ==
    \E rpm \in Requests, fwd \in BOOLEAN :
    LET c == [core EXCEPT !.configuredTarget = rpm, !.requestedForward = fwd]
    IN  /\ CommandMutexFree
        /\ SetTargetPermitted(rpm)
        /\ IF ~Moving
           THEN core' = c /\ UNCHANGED <<tr, sg>>
           ELSE \E ok \in Results("set_target_rate") :
                  IF ok THEN core' = c /\ SetTargetRpm(rpm, fwd)
                        ELSE core' = Fault(c, OpError) /\ UNCHANGED <<tr, sg>>
        /\ Idle

StartPermitted ==
    /\ ~core.estopLatched
    /\ State \notin {"EMERGENCY_STOPPED", "FAULTED", "DECELERATING",
                     "STARTING", "RUNNING"}
    /\ core.configuredTarget > 0

\* start, up to the return of enable_driver and its 20 ms settling time.
StartEnable ==
    /\ CommandMutexFree
    /\ StartPermitted
    /\ core' = [core EXCEPT !.machineState = "STARTING"]
    /\ \E ok \in Results("enable_driver") :
         /\ IF ok THEN EnableDrive ELSE UNCHANGED <<tr, sg>>
         /\ entry' = [generation |-> core.commandGeneration, ok |-> ok]
    /\ inflight' = "start"
    /\ UNCHANGED <<sample, estopWaiting>>

\* The test start and recover repeat after each delay.
Preempted ==
    \/ core.commandGeneration # entry.generation
    \/ core.estopLatched
    \/ State = "EMERGENCY_STOPPED"

\* start, from the first revalidation on.
StartRate ==
    /\ inflight = "start"
    /\ IF Preempted THEN UNCHANGED <<core, tr, sg>>
       ELSE \E ok \in Results("set_target_rate") :
              IF entry.ok /\ ok
              THEN /\ SetTargetRpm(core.configuredTarget, core.requestedForward)
                   /\ UNCHANGED core
              ELSE core' = Fault(core, OpError) /\ UNCHANGED <<tr, sg>>
    /\ inflight' = "none" /\ entry' = NoEntry
    /\ UNCHANGED <<sample, estopWaiting>>

StopCommand ==
    /\ CommandMutexFree
    /\ State \in {"STARTING", "RUNNING", "RECOVERING"}
    /\ \E ok \in Results("stop_normal") :
         IF ok THEN /\ core' = [core EXCEPT !.machineState = "DECELERATING"]
                    /\ StopNormal
               ELSE core' = Fault(core, OpError) /\ UNCHANGED <<tr, sg>>
    /\ Idle

UnlockCommand ==
    /\ CommandMutexFree
    /\ State \in {"HOLDING", "RECOVERING"}
    /\ core' = [core EXCEPT !.machineState = "UNLOCKED"]
    /\ Unlock
    /\ Idle

ResetEstop ==
    /\ CommandMutexFree
    /\ State = "EMERGENCY_STOPPED"
    /\ core' = [core EXCEPT !.estopLatched = FALSE,
                            !.machineState = core.estopResetDestination]
    /\ UNCHANGED <<tr, sg>>
    /\ Idle

\* recover, up to the 500 ms wait inside argus_trajectory_recover.
RecoverBegin ==
    /\ CommandMutexFree
    /\ State \notin {"STARTING", "RUNNING", "DECELERATING"}
    /\ core' = [core EXCEPT !.machineState = "RECOVERING"]
    /\ RecoverDrive
    /\ \E ok \in Results("recover") :
         entry' = [generation |-> core.commandGeneration, ok |-> ok]
    /\ inflight' = "recover"
    /\ UNCHANGED <<sample, estopWaiting>>

RecoverFinish ==
    /\ inflight = "recover"
    /\ core' = IF Preempted THEN core
               ELSE IF entry.ok /\ sg.errorState = ErrNone
               THEN [core EXCEPT !.machineState = "UNLOCKED", !.faultCode = 0]
               ELSE Fault(core, IF sg.errorState # ErrNone THEN sg.errorState
                                                           ELSE OpError)
    /\ inflight' = "none" /\ entry' = NoEntry
    /\ UNCHANGED <<tr, sg, sample, estopWaiting>>

---------------------------------------------------------------------------
(* E-stop: requested by any task at any time, served when s_state_mutex is *)
(* free.                                                                   *)

EstopRequest ==
    /\ ~estopWaiting
    /\ estopWaiting' = TRUE
    /\ UNCHANGED <<tr, sg, core, inflight, entry, sample>>

\* Mutant: a faulted machine refuses the E-stop.
AlreadyStoppedMutant == State \in {"EMERGENCY_STOPPED", "FAULTED"}

\* argus_state_core_estop returns at once.
AlreadyStopped == State = "EMERGENCY_STOPPED"

Estop ==
    /\ estopWaiting
    /\ StateMutexFree
    /\ IF AlreadyStopped THEN UNCHANGED <<core, tr, sg>>
       ELSE /\ core' = [core EXCEPT
                          !.estopResetDestination =
                              IF State = "UNLOCKED" THEN "UNLOCKED" ELSE "HOLDING",
                          !.estopLatched = TRUE,
                          !.commandGeneration = (@ + 1) % GenModulus,
                          !.machineState = "EMERGENCY_STOPPED"]
            /\ StopImmediate
    /\ estopWaiting' = FALSE
    /\ UNCHANGED <<inflight, entry, sample>>

---------------------------------------------------------------------------
(* The evaluator task, every 20 ms.                                        *)

EvaluatorSample ==
    /\ CommandMutexFree
    /\ sample' = [applied |-> tr.applied, generated |-> sg.generated,
                  rampActive |-> tr.rampActive, error |-> sg.errorState]
    /\ UNCHANGED <<tr, sg, core, inflight, entry, estopWaiting>>

AtTarget ==
    /\ sample.applied = core.configuredTarget
    /\ sample.generated = core.configuredTarget
    /\ ~sample.rampActive

Evaluated ==
    IF sample.error # ErrNone /\ State \notin {"FAULTED", "RECOVERING"}
    THEN Fault(core, sample.error)
    ELSE IF State = "STARTING" /\ AtTarget
    THEN [core EXCEPT !.machineState = "RUNNING"]
    ELSE IF State = "DECELERATING" /\ sample.applied = 0 /\ sample.generated = 0
    THEN [core EXCEPT !.machineState = "HOLDING"]
    ELSE core

EvaluatePeriodic ==
    /\ sample # NoSample
    /\ StateMutexFree
    /\ core' = Evaluated
    /\ sample' = NoSample
    /\ UNCHANGED <<tr, sg, inflight, entry, estopWaiting>>

---------------------------------------------------------------------------
TrajectoryTick == Tick /\ UNCHANGED <<core, inflight, entry, sample, estopWaiting>>

TimerAlarm == AcceptRate /\ UNCHANGED <<core, inflight, entry, sample, estopWaiting>>

Command ==
    \/ SetTarget \/ StartEnable \/ StartRate \/ StopCommand \/ UnlockCommand
    \/ ResetEstop \/ RecoverBegin \/ RecoverFinish

Evaluator == EvaluatorSample \/ EvaluatePeriodic

Next ==
    \/ Command \/ EstopRequest \/ Estop \/ Evaluator
    \/ TrajectoryTick \/ TimerAlarm

Spec == Init /\ [][Next]_vars

---------------------------------------------------------------------------
(* Fairness.  The trajectory and evaluator tasks are periodic and the ISR  *)
(* is a hardware timer, so each keeps running; a command in flight ends    *)
(* its bounded delay.  The evaluator and an E-stop caller wait for mutexes *)
(* that other tasks release and take again.                                *)
Fairness ==
    /\ WF_vars(TrajectoryTick)
    /\ WF_vars(TimerAlarm)
    /\ WF_vars(StartRate) /\ WF_vars(RecoverFinish)
    /\ SF_vars(EvaluatorSample) /\ WF_vars(EvaluatePeriodic)
    /\ SF_vars(Estop)

FairSpec == Spec /\ Fairness

---------------------------------------------------------------------------
CoreState ==
    [machineState : States, configuredTarget : Rates,
     requestedForward : BOOLEAN, estopLatched : BOOLEAN,
     estopResetDestination : {"HOLDING", "UNLOCKED"},
     faultCode : {0, OpError, TimingUpdateFailed},
     commandGeneration : 0 .. (GenModulus - 1)]

\* Every variable has the type of the C variable it models.
TypeOK ==
    /\ MotionTypeOK
    /\ core \in CoreState
    /\ inflight \in {"none", "start", "recover"}
    /\ entry \in Entries
    /\ sample \in Samples \cup {NoSample}
    /\ estopWaiting \in BOOLEAN

\* While the E-stop is latched nothing moves and nothing is about to:
\* target, applied, pending and generated rate are all zero, through every
\* sequence of recover, unlock, stop and fault that leaves the latch set.
LatchedMeansStill == core.estopLatched => Still

\* The states that report a machine at rest are only entered, and only kept,
\* at standstill, although the evaluator enters HOLDING on a sample taken
\* before it locked the state.
RestMeansStill ==
    State \in {"UNLOCKED", "HOLDING", "RECOVERING", "EMERGENCY_STOPPED"} => Still

\* UNLOCKED means the shaft is free: the driver is off, also when UNLOCKED is
\* reached by resetting an E-stop.
UnlockedMeansReleased == State = "UNLOCKED" => ~sg.driverEnabled

\* Between commands, a starting or running machine pursues exactly the
\* configured target and direction.
SetpointApplied ==
    Moving /\ inflight = "none" =>
        /\ tr.target = core.configuredTarget
        /\ tr.targetForward = core.requestedForward

\* No E-stop takes effect inside a start or a recover (it waits for
\* s_state_mutex), so their revalidation only ever reports a latch that was
\* set before the command began.
NoPreemptionInFlight ==
    inflight # "none" => /\ core.commandGeneration = entry.generation
                         /\ State # "EMERGENCY_STOPPED"
                         /\ inflight = "start" => ~core.estopLatched

\* What else must be known of the locks, of a command in flight and of the
\* evaluator's sample for the invariants above to be inductive.  The sample
\* may be old, but a sample of a decelerating machine at rest stays true.
ControlInv ==
    /\ inflight # "none" => sample = NoSample
    /\ inflight = "start" => State = "STARTING"
    /\ inflight = "recover" => State = "RECOVERING" /\ ~sg.driverEnabled
    /\ State = "EMERGENCY_STOPPED" =>
          /\ core.estopLatched
          /\ core.estopResetDestination = "UNLOCKED" => ~sg.driverEnabled
    /\ State = "DECELERATING" => tr.target = 0
    /\ /\ State = "DECELERATING"
       /\ sample # NoSample
       /\ sample.applied = 0 /\ sample.generated = 0 /\ sample.error = ErrNone
       => Still

\* The inductive invariant.
IInv ==
    /\ TypeOK /\ MotionInv
    /\ LatchedMeansStill /\ RestMeansStill /\ UnlockedMeansReleased
    /\ SetpointApplied /\ NoPreemptionInFlight
    /\ ControlInv

\* The rate never surges: a step raises it by at most one tick's worth, never
\* above the target in force, and only while a start is in force.  A fault does
\* not end a start: argus_state_core_evaluate_periodic only changes the state,
\* so the trajectory still climbs to the target it had; what FAULTED does
\* forbid is a new target (the architecture document forbids the motion too:
\* FaultedInhibitsMotion below, which the code does not meet).
NoSurge ==
    [][/\ tr'.applied > tr.applied =>
            /\ tr'.applied <= tr.applied + DeltaAccel /\ tr'.applied <= tr.target
            /\ Moving \/ State = "FAULTED"
       /\ State = "FAULTED" => tr'.target \in {tr.target, 0}]_vars

\* The direction line moves only at standstill.
DirectionChangesAtRest ==
    [][sg'.forward # sg.forward => tr'.applied = 0 /\ sg'.generated = 0]_vars

\* Clearing the latch never starts motion: whatever state the reset returns
\* to, the machine is at rest and stays so in that step.
ResetNeverRestarts ==
    [][core.estopLatched /\ ~core'.estopLatched => Still /\ UNCHANGED <<tr, sg>>]_vars

\* A normal stop completes: the machine holds, unless an E-stop or a fault
\* takes over.
StopCompletes ==
    State = "DECELERATING" ~> State \in {"HOLDING", "EMERGENCY_STOPPED", "FAULTED"}

\* A requested E-stop is served although commands and the evaluator compete
\* for the locks.
EstopServed == estopWaiting ~> (core.estopLatched /\ Still)

---------------------------------------------------------------------------
(* Statements of the repository's documents that the code does not meet.   *)

\* docs/V2_BASELINE_AUDIT.md on the latched E-stop: an explicit RESET_ESTOP is
\* required to return to HOLDING or UNLOCKED.
LatchHoldsUntilReset ==
    State \in {"HOLDING", "UNLOCKED"} => ~core.estopLatched

\* docs/V2_CONTROLLER_ARCHITECTURE.md on FAULTED: motion is inhibited and STEP
\* stays inactive.
FaultedInhibitsMotion == State = "FAULTED" => sg.generated = 0
===========================================================================
