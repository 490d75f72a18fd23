-------------------------- MODULE StateMgrProofs --------------------------
(***************************************************************************)
(* The invariants of StateMgr, for every rate range, ramp step, set of     *)
(* requests and set of failing operations.                                 *)
(***************************************************************************)
EXTENDS StateMgr, TLAPS

USE DEF ErrNone, TimingUpdateFailed, OpError

---------------------------------------------------------------------------
(* What the operations of the trajectory engine preserve.                  *)

LEMMA RateFacts == 0 \in Rates /\ \A r \in Rates : r \in Int /\ 0 <= r /\ r <= MaxRpm
BY RateAssumption DEF Rates

\* The functions of the step generator that take no argument: their types and
\* what they leave in the fields the invariants speak of.
LEMMA StepGenOps ==
    ASSUME NEW s \in StepGenState
    PROVE  /\ EnableDriver(s) \in StepGenState
           /\ StartPulses(s) \in StepGenState
           /\ StopProfiled(s) \in StepGenState
           /\ ClearError(s) \in StepGenState
           /\ StopPulses(s) \in StepGenState
           /\ StopPulses(s).generated = 0
           /\ StopPulses(s).requested = 0
           /\ StopPulses(s).forward = s.forward
           /\ StopPulses(s).driverEnabled = s.driverEnabled
           /\ DisableDriver(s) \in StepGenState
           /\ DisableDriver(s).generated = 0
           /\ DisableDriver(s).requested = 0
           /\ DisableDriver(s).forward = s.forward
           /\ DisableDriver(s).driverEnabled = FALSE
<1>1. EnableDriver(s) \in StepGenState
  BY DEF EnableDriver, StepGenState
<1>2. StartPulses(s) \in StepGenState
  BY DEF StartPulses, StepGenState
<1>3. StopProfiled(s) \in StepGenState
  BY RateFacts DEF StopProfiled, StepGenState
<1>4. ClearError(s) \in StepGenState
  BY DEF ClearError, StepGenState
<1>5. StopPulses(s) \in StepGenState
  BY RateFacts DEF StopPulses, StepGenState
<1>6. /\ StopPulses(s).generated = 0
      /\ StopPulses(s).requested = 0
      /\ StopPulses(s).forward = s.forward
      /\ StopPulses(s).driverEnabled = s.driverEnabled
  BY DEF StopPulses, StepGenState
<1>7. DisableDriver(s) \in StepGenState
  BY <1>5 DEF DisableDriver, StepGenState
<1>8. /\ DisableDriver(s).generated = 0
      /\ DisableDriver(s).requested = 0
      /\ DisableDriver(s).forward = s.forward
      /\ DisableDriver(s).driverEnabled = FALSE
  BY <1>5, <1>6 DEF DisableDriver, StepGenState
<1> QED
  BY <1>1, <1>2, <1>3, <1>4, <1>5, <1>6, <1>7, <1>8

\* After the pulses are stopped a direction change is never refused.
LEMMA SwitchSucceeds ==
    ASSUME NEW s \in StepGenState, NEW fwd \in BOOLEAN
    PROVE  /\ SetDirection(StopPulses(s), fwd) \in StepGenState
           /\ SetDirection(StopPulses(s), fwd).forward = fwd
           /\ SetDirection(StopPulses(s), fwd).generated = 0
           /\ SetDirection(StopPulses(s), fwd).requested = 0
           /\ SetDirection(StopPulses(s), fwd).driverEnabled = s.driverEnabled
<1>1. /\ StopPulses(s) \in StepGenState
      /\ StopPulses(s).generated = 0
      /\ StopPulses(s).requested = 0
      /\ StopPulses(s).driverEnabled = s.driverEnabled
  BY StepGenOps
<1> QED
  BY <1>1 DEF SetDirection, StepGenState

\* The type of setting a rate.
LEMMA SetRateType ==
    ASSUME NEW s \in StepGenState, NEW rpm \in Rates, NEW ok \in BOOLEAN
    PROVE  SetRate(s, rpm, ok) \in StepGenState
<1> DEFINE e == [s EXCEPT !.driverEnabled = TRUE, !.requested = rpm]
<1>1. e \in StepGenState
  BY DEF StepGenState
<1>2. [e EXCEPT !.generated = rpm, !.errorState = ErrNone] \in StepGenState
  BY <1>1 DEF StepGenState
<1>3. /\ [e EXCEPT !.errorState = ErrNone] \in StepGenState
      /\ [e EXCEPT !.errorState = TimingUpdateFailed] \in StepGenState
  BY <1>1 DEF StepGenState
<1> HIDE DEF e
<1> QED
  BY <1>2, <1>3 DEF SetRate, e

\* The type of what halting leaves of the trajectory.
LEMMA HaltedType ==
    ASSUME NEW t \in TrajectoryState
    PROVE  /\ Halted(t) \in TrajectoryState
           /\ Halted(t).target = 0 /\ Halted(t).applied = 0
           /\ Halted(t).currentForward = t.currentForward
<1>1. Halted(t) \in TrajectoryState
  BY RateFacts DEF Halted, TrajectoryState
<1> QED
  BY <1>1 DEF Halted, TrajectoryState

\* A tick keeps the motion invariant: pulses only with the driver on, the DIR
\* line as believed, no rate requested without a cause.
LEMMA TickKeepsMotionInv ==
    ASSUME MotionInv, Tick
    PROVE  MotionInv'
<1>1. PICK ok \in BOOLEAN : tr' = TickTrajectory /\ sg' = TickStepGen(ok)
  BY DEF Tick
<1>2. tr \in TrajectoryState /\ sg \in StepGenState /\ tr.targetForward \in BOOLEAN
  BY DEF MotionInv, MotionTypeOK, TrajectoryState
<1>3. NextApplied \in Rates
  BY <1>2, RateAssumption DEF NextApplied, GreaterOf, LesserOf, Rates,
     TrajectoryState
<1>4. tr' \in TrajectoryState
  <2>1. /\ (MustReverse /\ ~CompletesReversal) \in BOOLEAN
        /\ (IF MustReverse THEN tr.rampActive \/ tr.applied > 0
                           ELSE NextApplied # tr.target) \in BOOLEAN
        /\ (IF CompletesReversal THEN tr.targetForward
                                 ELSE tr.currentForward) \in BOOLEAN
    BY <1>2 DEF TrajectoryState
  <2> QED
    BY <1>1, <1>2, <1>3, <2>1 DEF TickTrajectory, TrajectoryState
<1>5. tr'.currentForward = IF CompletesReversal THEN tr.targetForward
                                               ELSE tr.currentForward
  BY <1>1, <1>2 DEF TickTrajectory, TrajectoryState
<1>6. CASE CompletesReversal
  <2>1. ~(NextApplied > 0)
    BY <1>3, <1>6, RateFacts DEF CompletesReversal
  <2>2. SwitchDirection(sg).generated = 0
    BY <1>2, SwitchSucceeds DEF SwitchDirection
  <2>3. sg' = SwitchDirection(sg)
    BY <1>1, <1>6, <2>1, <2>2 DEF TickStepGen
  <2>4. sg' \in StepGenState /\ sg'.generated = 0 /\ sg'.requested = 0
        /\ sg'.forward = tr.targetForward
    BY <1>2, <2>3, SwitchSucceeds DEF SwitchDirection
  <2> QED
    BY <1>4, <1>5, <1>6, <2>4 DEF MotionInv, MotionTypeOK, PulsesNeedDriver,
       DirectionAgrees, RequestedMeansGenerated
<1>7. CASE ~CompletesReversal /\ NextApplied > 0
  <2> DEFINE s == StartPulses(EnableDriver(sg))
  <2>1. sg' = SetRate(s, NextApplied, ok)
    BY <1>1, <1>7 DEF TickStepGen
  <2>2. s \in StepGenState /\ s.running = TRUE /\ s.forward = sg.forward
    BY <1>2 DEF StartPulses, EnableDriver, StepGenState
  <2> HIDE DEF s
  <2>3. sg' \in StepGenState
    BY <1>3, <2>1, <2>2, SetRateType
  <2>4. sg'.forward = sg.forward /\ sg'.driverEnabled = TRUE
        /\ sg'.running = TRUE
    BY <2>1, <2>2 DEF SetRate, StepGenState
  <2>5. sg'.generated = 0 => sg'.errorState # ErrNone
    BY <1>3, <1>7, <2>1, <2>2, RateFacts DEF SetRate, StepGenState
  <2> QED
    BY <1>4, <1>5, <1>7, <2>3, <2>4, <2>5 DEF MotionInv, MotionTypeOK,
       PulsesNeedDriver, DirectionAgrees, RequestedMeansGenerated
<1>8. CASE ~CompletesReversal /\ ~(NextApplied > 0)
  <2>1. sg' = IF sg.generated > 0 THEN StopProfiled(sg) ELSE sg
    BY <1>1, <1>8 DEF TickStepGen
  <2>2. sg' \in StepGenState
    BY <1>2, <2>1, StepGenOps
  <2>3. CASE sg.generated > 0
    <3>1. /\ sg'.requested = 0 /\ sg'.forward = sg.forward
          /\ sg'.generated = sg.generated /\ sg'.running = sg.running
          /\ sg'.driverEnabled = sg.driverEnabled
      BY <1>2, <2>1, <2>3 DEF StopProfiled, StepGenState
    <3> QED
      BY <1>4, <1>5, <1>8, <2>2, <3>1 DEF MotionInv, MotionTypeOK,
         PulsesNeedDriver, DirectionAgrees, RequestedMeansGenerated
  <2>4. CASE ~(sg.generated > 0)
    BY <1>4, <1>5, <1>8, <2>1, <2>2, <2>4 DEF MotionInv, MotionTypeOK,
       PulsesNeedDriver, DirectionAgrees, RequestedMeansGenerated
  <2> QED
    BY <2>3, <2>4
<1> QED
  BY <1>6, <1>7, <1>8

\* A tick at standstill leaves the machine at standstill and the driver as it
\* was.
LEMMA TickKeepsStill ==
    ASSUME MotionTypeOK, Still, Tick
    PROVE  Still' /\ sg'.driverEnabled = sg.driverEnabled
<1>1. PICK ok \in BOOLEAN : tr' = TickTrajectory /\ sg' = TickStepGen(ok)
  BY DEF Tick
<1>2. tr \in TrajectoryState /\ sg \in StepGenState /\ tr.targetForward \in BOOLEAN
  BY DEF MotionTypeOK, TrajectoryState
<1>3. NextApplied = 0
  BY RateAssumption DEF NextApplied, GreaterOf, LesserOf, Still
<1>4. tr'.target = 0 /\ tr'.applied = 0
  BY <1>1, <1>2, <1>3 DEF TickTrajectory, TrajectoryState, Still
<1>5. SwitchDirection(sg).generated = 0
      /\ SwitchDirection(sg).requested = 0
      /\ SwitchDirection(sg).driverEnabled = sg.driverEnabled
  BY <1>2, SwitchSucceeds DEF SwitchDirection
<1>6. sg' = IF CompletesReversal THEN SwitchDirection(sg) ELSE sg
  BY <1>1, <1>3, <1>5 DEF TickStepGen, Still
<1> QED
  BY <1>4, <1>5, <1>6 DEF Still

\* The ISR's acceptance of a rate keeps the motion invariant and does nothing
\* at standstill.
LEMMA AcceptKeepsMotionInv ==
    ASSUME MotionInv, AcceptRate
    PROVE  MotionInv' /\ ~Still /\ sg'.driverEnabled = sg.driverEnabled
           /\ tr' = tr
<1>1. sg \in StepGenState /\ sg.requested \in Rates
  BY DEF MotionInv, MotionTypeOK, StepGenState
<1>2. sg' \in StepGenState
  BY <1>1 DEF AcceptRate, StepGenState
<1>3. /\ sg'.generated = sg.requested /\ sg'.requested = sg.requested
      /\ sg'.forward = sg.forward /\ sg'.running = sg.running
      /\ sg'.driverEnabled = sg.driverEnabled
  BY <1>1 DEF AcceptRate, StepGenState
<1>4. /\ tr' = tr /\ ~Still
      /\ sg.driverEnabled /\ sg.running
  BY DEF AcceptRate, Still
<1>5. PulsesNeedDriver' /\ DirectionAgrees'
  BY <1>3, <1>4 DEF MotionInv, PulsesNeedDriver, DirectionAgrees
<1>6. RequestedMeansGenerated'
  BY <1>1, <1>3, RateFacts DEF RequestedMeansGenerated
<1> QED
  BY <1>2, <1>3, <1>4, <1>5, <1>6 DEF MotionInv, MotionTypeOK

\* Setting a rate within range stores exactly that rate, and setting zero
\* leaves the step generator alone.
LEMMA SetTargetKeepsMotionInv ==
    ASSUME MotionInv, NEW rpm \in Rates, NEW fwd \in BOOLEAN,
           SetTargetRpm(rpm, fwd)
    PROVE  /\ MotionInv'
           /\ tr'.target = rpm /\ tr'.targetForward = fwd
           /\ tr'.applied = tr.applied
           /\ sg'.generated = sg.generated /\ sg'.requested = sg.requested
           /\ rpm = 0 => sg' = sg
<1>1. Clamp(rpm) = rpm
  BY RateAssumption DEF Clamp, GreaterOf, LesserOf, Rates
<1>2. tr \in TrajectoryState /\ sg \in StepGenState
  BY DEF MotionInv, MotionTypeOK
<1>3. (tr.isReversing \/ (fwd # tr.currentForward /\ tr.applied > 0)) \in BOOLEAN
  OBVIOUS
<1>4. tr' \in TrajectoryState
  BY <1>1, <1>2, <1>3 DEF SetTargetRpm, TrajectoryState
<1>5. /\ tr'.target = rpm /\ tr'.targetForward = fwd
      /\ tr'.applied = tr.applied /\ tr'.currentForward = tr.currentForward
  BY <1>1, <1>2 DEF SetTargetRpm, TrajectoryState
<1>6. sg' \in StepGenState
  BY <1>2, StepGenOps DEF SetTargetRpm
<1>7. /\ sg'.generated = sg.generated /\ sg'.requested = sg.requested
      /\ sg'.forward = sg.forward /\ sg'.running = sg.running
      /\ sg'.errorState = sg.errorState
      /\ sg.driverEnabled => sg'.driverEnabled
  BY <1>2 DEF SetTargetRpm, EnableDriver, StepGenState
<1>8. rpm = 0 => sg' = sg
  BY <1>1 DEF SetTargetRpm
<1> QED
  BY <1>4, <1>5, <1>6, <1>7, <1>8 DEF MotionInv, MotionTypeOK,
     PulsesNeedDriver, DirectionAgrees, RequestedMeansGenerated

\* Turning the driver on touches nothing else.
LEMMA EnableKeepsMotionInv ==
    ASSUME MotionInv, EnableDrive
    PROVE  MotionInv' /\ (Still => Still')
<1>1. sg \in StepGenState
  BY DEF MotionInv, MotionTypeOK
<1>2. sg' \in StepGenState
  BY <1>1, StepGenOps DEF EnableDrive
<1>3. /\ sg'.generated = sg.generated /\ sg'.requested = sg.requested
      /\ sg'.forward = sg.forward /\ sg'.running = sg.running
      /\ sg'.errorState = sg.errorState /\ sg'.driverEnabled = TRUE
  BY <1>1 DEF EnableDrive, EnableDriver, StepGenState
<1> QED
  BY <1>2, <1>3 DEF EnableDrive, MotionInv, MotionTypeOK, PulsesNeedDriver,
     DirectionAgrees, RequestedMeansGenerated, Still

\* The three ways to stop at once bring the machine to standstill; two of them
\* release the shaft.
LEMMA HaltingMakesStill ==
    ASSUME MotionInv
    PROVE  /\ StopImmediate => MotionInv' /\ Still'
                               /\ sg'.driverEnabled = sg.driverEnabled
           /\ Unlock => MotionInv' /\ Still' /\ ~sg'.driverEnabled
           /\ RecoverDrive => MotionInv' /\ Still' /\ ~sg'.driverEnabled
<1>1. tr \in TrajectoryState /\ sg \in StepGenState
  BY DEF MotionInv, MotionTypeOK
<1>2. ASSUME tr' = Halted(tr), sg' \in StepGenState, sg'.generated = 0,
             sg'.requested = 0, sg'.forward = sg.forward
      PROVE  MotionInv' /\ Still'
  BY <1>1, <1>2, HaltedType DEF MotionInv, MotionTypeOK, PulsesNeedDriver,
     DirectionAgrees, RequestedMeansGenerated, Still
<1>3. StopImmediate => MotionInv' /\ Still'
                       /\ sg'.driverEnabled = sg.driverEnabled
  <2>1. StopImmediate => tr' = Halted(tr) /\ sg' = StopPulses(sg)
    BY DEF StopImmediate
  <2> QED
    BY <1>1, <1>2, <2>1, StepGenOps
<1>4. Unlock => MotionInv' /\ Still' /\ ~sg'.driverEnabled
  <2>1. Unlock => tr' = Halted(tr) /\ sg' = DisableDriver(sg)
    BY DEF Unlock
  <2>2. /\ DisableDriver(sg) \in StepGenState
        /\ DisableDriver(sg).generated = 0 /\ DisableDriver(sg).requested = 0
        /\ DisableDriver(sg).forward = sg.forward
        /\ DisableDriver(sg).driverEnabled = FALSE
    BY <1>1, StepGenOps
  <2> QED
    BY <1>2, <2>1, <2>2
<1>5. RecoverDrive => MotionInv' /\ Still' /\ ~sg'.driverEnabled
  <2> DEFINE s == DisableDriver(StopPulses(sg))
  <2>1. /\ StopPulses(sg) \in StepGenState
        /\ StopPulses(sg).forward = sg.forward
    BY <1>1, StepGenOps
  <2>2. /\ s \in StepGenState /\ s.generated = 0 /\ s.requested = 0
        /\ s.forward = sg.forward /\ s.driverEnabled = FALSE
    BY <2>1, StepGenOps
  <2> HIDE DEF s
  <2>3. /\ ClearError(s) \in StepGenState /\ ClearError(s).generated = 0
        /\ ClearError(s).requested = 0 /\ ClearError(s).forward = sg.forward
        /\ ClearError(s).driverEnabled = FALSE
    BY <2>2 DEF ClearError, StepGenState
  <2>4. RecoverDrive => tr' = Halted(tr) /\ sg' = ClearError(s)
    BY DEF RecoverDrive, s
  <2> QED
    BY <1>2, <2>3, <2>4
<1> QED
  BY <1>3, <1>4, <1>5

---------------------------------------------------------------------------
(* The inductive invariant.                                                *)

LEMMA NoEntryType == NoEntry \in Entries
BY StateMgrAssumption DEF NoEntry, Entries

\* The state after argus_state_mgr_init satisfies it.
LEMMA InitEstablishesIInv == Init => IInv
<1> SUFFICES ASSUME Init PROVE IInv
  OBVIOUS
<1>1. MotionInv /\ Still /\ sg.driverEnabled = FALSE
  BY RateAssumption DEF Init, MotionInit, MotionInv, MotionTypeOK,
     TrajectoryState, StepGenState, Rates, PulsesNeedDriver, DirectionAgrees,
     RequestedMeansGenerated, Still
<1>2. TypeOK
  <2>1. core \in CoreState
    BY StateMgrAssumption, RateFacts DEF Init, CoreState, States
  <2>2. entry \in Entries
    BY NoEntryType DEF Init
  <2> QED
    BY <1>1, <2>1, <2>2 DEF Init, TypeOK, MotionInv
<1> QED
  BY <1>1, <1>2 DEF Init, IInv, ControlInv, LatchedMeansStill, RestMeansStill,
     UnlockedMeansReleased, SetpointApplied, NoPreemptionInFlight, NoSample,
     State, Moving

\* Moving the machine to a state, faulting it, and storing a setpoint keep the
\* type of the core and the fields they do not name.
LEMMA GotoFacts ==
    ASSUME NEW c \in CoreState, NEW st \in States, NEW d,
           d = [c EXCEPT !.machineState = st]
    PROVE  /\ d \in CoreState
           /\ d.machineState = st
           /\ d.configuredTarget = c.configuredTarget
           /\ d.requestedForward = c.requestedForward
           /\ d.estopLatched = c.estopLatched
           /\ d.commandGeneration = c.commandGeneration
BY DEF CoreState

LEMMA FaultFacts ==
    ASSUME NEW c \in CoreState, NEW code \in {0, OpError, TimingUpdateFailed},
           NEW d, d = Fault(c, code)
    PROVE  /\ d \in CoreState
           /\ d.machineState = "FAULTED"
           /\ d.estopLatched = c.estopLatched
           /\ d.commandGeneration = c.commandGeneration
BY DEF CoreState, Fault, States

LEMMA SetpointFacts ==
    ASSUME NEW c \in CoreState, NEW rpm \in Rates, NEW fwd \in BOOLEAN,
           NEW d, d = [c EXCEPT !.configuredTarget = rpm,
                                !.requestedForward = fwd]
    PROVE  /\ d \in CoreState
           /\ d.machineState = c.machineState
           /\ d.configuredTarget = rpm
           /\ d.requestedForward = fwd
           /\ d.estopLatched = c.estopLatched
           /\ d.commandGeneration = c.commandGeneration
BY DEF CoreState

\* A faulted machine satisfies the parts of IInv that depend on its state as
\* long as the latch keeps its meaning.
LEMMA FaultKeepsIInv ==
    ASSUME IInv, MotionInv', NEW c \in CoreState,
           NEW code \in {0, OpError, TimingUpdateFailed},
           core' = Fault(c, code), c.estopLatched = core.estopLatched,
           inflight' = "none", entry' \in {entry, NoEntry},
           sample' \in {sample, NoSample}, estopWaiting' \in BOOLEAN,
           core.estopLatched => Still'
    PROVE  IInv'
<1>1. /\ core' \in CoreState /\ core'.machineState = "FAULTED"
      /\ core'.estopLatched = core.estopLatched
  BY FaultFacts
<1>2. TypeOK'
  BY <1>1, NoEntryType DEF IInv, TypeOK, MotionInv
<1> QED
  BY <1>1, <1>2 DEF IInv, ControlInv, LatchedMeansStill, RestMeansStill,
     UnlockedMeansReleased, SetpointApplied, NoPreemptionInFlight, State,
     Moving

\* set_target: in a resting state it only stores the setpoint, in a moving one
\* it hands the setpoint on.
LEMMA SetTargetKeepsIInv == ASSUME IInv, SetTarget PROVE IInv'
<1>1. PICK rpm \in Requests, fwd \in BOOLEAN :
        LET c == [core EXCEPT !.configuredTarget = rpm, !.requestedForward = fwd]
        IN  /\ CommandMutexFree
            /\ SetTargetPermitted(rpm)
            /\ IF ~Moving
               THEN core' = c /\ UNCHANGED <<tr, sg>>
               ELSE \E ok \in Results("set_target_rate") :
                      IF ok THEN core' = c /\ SetTargetRpm(rpm, fwd)
                            ELSE core' = Fault(c, OpError) /\ UNCHANGED <<tr, sg>>
            /\ Idle
  BY DEF SetTarget
<1> DEFINE c == [core EXCEPT !.configuredTarget = rpm, !.requestedForward = fwd]
<1>2. rpm \in Rates /\ core.estopLatched = FALSE
  BY <1>1 DEF SetTargetPermitted, IInv, TypeOK, CoreState
<1>3. /\ c \in CoreState /\ c.machineState = core.machineState
      /\ c.configuredTarget = rpm /\ c.requestedForward = fwd
      /\ c.estopLatched = core.estopLatched
      /\ c.commandGeneration = core.commandGeneration
  <2>1. core \in CoreState
    BY DEF IInv, TypeOK
  <2> QED
    BY <1>2, <2>1 DEF CoreState
<1> HIDE DEF c
<1>4. inflight = "none" /\ sample = NoSample
  BY <1>1 DEF CommandMutexFree
<1>5. /\ inflight' = inflight /\ entry' = entry /\ sample' = sample
      /\ estopWaiting' = estopWaiting
  BY <1>1 DEF Idle
<1>6. CASE ~Moving
  <2>1. core' = c /\ tr' = tr /\ sg' = sg
    BY <1>1, <1>6 DEF c
  <2>2. MotionInv' /\ Still' = Still
    BY <2>1 DEF IInv, MotionInv, MotionTypeOK, PulsesNeedDriver,
       DirectionAgrees, RequestedMeansGenerated, Still
  <2>3. TypeOK'
    BY <1>3, <1>5, <2>1, <2>2 DEF IInv, TypeOK, MotionInv
  <2> QED
    BY <1>2, <1>3, <1>4, <1>5, <1>6, <2>1, <2>2, <2>3 DEF IInv, ControlInv,
       LatchedMeansStill, RestMeansStill, UnlockedMeansReleased,
       SetpointApplied, NoPreemptionInFlight, State, Moving
<1>7. CASE Moving /\ core' = c /\ SetTargetRpm(rpm, fwd)
  <2>1. /\ MotionInv' /\ tr'.target = rpm /\ tr'.targetForward = fwd
    BY <1>2, <1>7, SetTargetKeepsMotionInv DEF IInv
  <2>2. TypeOK'
    BY <1>3, <1>5, <1>7, <2>1 DEF IInv, TypeOK, MotionInv
  <2> QED
    BY <1>2, <1>3, <1>4, <1>5, <1>7, <2>1, <2>2 DEF IInv, ControlInv,
       LatchedMeansStill, RestMeansStill, UnlockedMeansReleased,
       SetpointApplied, NoPreemptionInFlight, State, Moving
<1>8. CASE Moving /\ core' = Fault(c, OpError) /\ UNCHANGED <<tr, sg>>
  <2>1. MotionInv'
    BY <1>8 DEF IInv, MotionInv, MotionTypeOK, PulsesNeedDriver,
       DirectionAgrees, RequestedMeansGenerated
  <2>2. estopWaiting' \in BOOLEAN
    BY <1>5 DEF IInv, TypeOK
  <2> QED
    BY <1>2, <1>3, <1>4, <1>5, <1>8, <2>1, <2>2, FaultKeepsIInv
<1> QED
  BY <1>1, <1>6, <1>7, <1>8 DEF c

\* start, first half: the machine is at rest until the rate is set.
LEMMA StartEnableKeepsIInv == ASSUME IInv, StartEnable PROVE IInv'
<1>1. /\ inflight = "none" /\ sample = NoSample /\ inflight' = "start"
      /\ sample' = sample /\ estopWaiting' = estopWaiting
      /\ ~core.estopLatched
      /\ core' = [core EXCEPT !.machineState = "STARTING"]
  BY DEF StartEnable, CommandMutexFree, StartPermitted
<1>2. PICK ok \in Results("enable_driver") :
        /\ IF ok THEN EnableDrive ELSE UNCHANGED <<tr, sg>>
        /\ entry' = [generation |-> core.commandGeneration, ok |-> ok]
  BY DEF StartEnable
<1>3. core \in CoreState /\ ok \in BOOLEAN
  BY DEF IInv, TypeOK, Results
<1>4. /\ core' \in CoreState /\ core'.machineState = "STARTING"
      /\ core'.estopLatched = core.estopLatched
      /\ core'.commandGeneration = core.commandGeneration
  BY <1>1, <1>3 DEF CoreState, States
<1>5. entry' \in Entries /\ entry'.generation = core.commandGeneration
  BY <1>2, <1>3 DEF Entries, CoreState
<1>6. MotionInv'
  <2>1. CASE EnableDrive
    BY <2>1, EnableKeepsMotionInv DEF IInv
  <2>2. CASE UNCHANGED <<tr, sg>>
    BY <2>2 DEF IInv, MotionInv, MotionTypeOK, PulsesNeedDriver,
       DirectionAgrees, RequestedMeansGenerated
  <2> QED
    BY <1>2, <2>1, <2>2
<1>7. TypeOK'
  BY <1>1, <1>4, <1>5, <1>6 DEF IInv, TypeOK, MotionInv
<1> QED
  BY <1>1, <1>4, <1>5, <1>6, <1>7 DEF IInv, ControlInv, LatchedMeansStill,
     RestMeansStill, UnlockedMeansReleased, SetpointApplied,
     NoPreemptionInFlight, State, Moving

\* start, second half: nothing preempted it, so the configured target is set
\* or the machine faults.
LEMMA StartRateKeepsIInv == ASSUME IInv, StartRate PROVE IInv'
<1>1. /\ inflight = "start" /\ inflight' = "none" /\ entry' = NoEntry
      /\ sample' = sample /\ estopWaiting' = estopWaiting
      /\ sample = NoSample
  BY DEF StartRate, IInv, ControlInv
<1>2. /\ ~core.estopLatched /\ core.machineState = "STARTING"
      /\ core.commandGeneration = entry.generation
  BY <1>1 DEF IInv, ControlInv, NoPreemptionInFlight, State
<1>3. ~Preempted
  BY <1>2 DEF Preempted, State
<1>4. core \in CoreState /\ core.configuredTarget \in Rates
      /\ core.requestedForward \in BOOLEAN
  BY DEF IInv, TypeOK, CoreState
<1>5. CASE core' = core
           /\ SetTargetRpm(core.configuredTarget, core.requestedForward)
  <2>1. /\ MotionInv' /\ tr'.target = core.configuredTarget
        /\ tr'.targetForward = core.requestedForward
    BY <1>4, <1>5, SetTargetKeepsMotionInv DEF IInv
  <2>2. TypeOK'
    BY <1>1, <1>4, <1>5, <2>1, NoEntryType DEF IInv, TypeOK, MotionInv
  <2> QED
    BY <1>1, <1>2, <1>5, <2>1, <2>2 DEF IInv, ControlInv, LatchedMeansStill,
       RestMeansStill, UnlockedMeansReleased, SetpointApplied,
       NoPreemptionInFlight, State, Moving
<1>6. CASE core' = Fault(core, OpError) /\ UNCHANGED <<tr, sg>>
  <2>1. MotionInv'
    BY <1>6 DEF IInv, MotionInv, MotionTypeOK, PulsesNeedDriver,
       DirectionAgrees, RequestedMeansGenerated
  <2>2. estopWaiting' \in BOOLEAN
    BY <1>1 DEF IInv, TypeOK
  <2> QED
    BY <1>1, <1>2, <1>4, <1>6, <2>1, <2>2, FaultKeepsIInv
<1> QED
  BY <1>3, <1>5, <1>6 DEF StartRate

\* A step that leaves the motion variables alone keeps what is said of them.
LEMMA UnchangedMotion ==
    ASSUME MotionInv, UNCHANGED <<tr, sg>>
    PROVE  MotionInv' /\ (Still => Still')
BY DEF MotionInv, MotionTypeOK, PulsesNeedDriver, DirectionAgrees,
   RequestedMeansGenerated, Still

\* stop_normal: the target drops to zero and the machine decelerates.
LEMMA StopKeepsIInv == ASSUME IInv, StopCommand PROVE IInv'
<1>1. /\ inflight = "none" /\ sample = NoSample /\ inflight' = inflight
      /\ sample' = sample /\ entry' = entry /\ estopWaiting' = estopWaiting
      /\ core.machineState \in {"STARTING", "RUNNING", "RECOVERING"}
  BY DEF StopCommand, CommandMutexFree, Idle, State
<1>2. core \in CoreState /\ tr.targetForward \in BOOLEAN /\ MotionInv
  BY DEF IInv, TypeOK, MotionTypeOK, TrajectoryState
<1>3. CASE core' = [core EXCEPT !.machineState = "DECELERATING"] /\ StopNormal
  <2>1. /\ core' \in CoreState /\ core'.machineState = "DECELERATING"
        /\ core'.estopLatched = core.estopLatched
    BY <1>2, <1>3 DEF CoreState, States
  <2>2. /\ MotionInv' /\ tr'.target = 0 /\ sg' = sg
        /\ tr'.applied = tr.applied
    BY <1>2, <1>3, RateFacts, SetTargetKeepsMotionInv DEF StopNormal
  <2>3. Still => Still'
    BY <2>2 DEF Still
  <2>4. TypeOK'
    BY <1>1, <2>1, <2>2 DEF IInv, TypeOK, MotionInv
  <2> QED
    BY <1>1, <2>1, <2>2, <2>3, <2>4 DEF IInv, ControlInv, LatchedMeansStill,
     RestMeansStill, UnlockedMeansReleased, SetpointApplied,
     NoPreemptionInFlight, State, Moving
<1>4. CASE core' = Fault(core, OpError) /\ UNCHANGED <<tr, sg>>
  <2>1. MotionInv' /\ (Still => Still')
    BY <1>2, <1>4, UnchangedMotion
  <2>2. core.estopLatched => Still'
    BY <2>1 DEF IInv, LatchedMeansStill
  <2>3. estopWaiting' \in BOOLEAN
    BY <1>1 DEF IInv, TypeOK
  <2> QED
    BY <1>1, <1>2, <1>4, <2>1, <2>2, <2>3, FaultKeepsIInv
<1> QED
  BY <1>3, <1>4 DEF StopCommand

\* unlock releases the shaft of a machine at rest.
LEMMA UnlockKeepsIInv == ASSUME IInv, UnlockCommand PROVE IInv'
<1>1. /\ inflight = "none" /\ sample = NoSample /\ inflight' = inflight
      /\ sample' = sample /\ entry' = entry /\ estopWaiting' = estopWaiting
      /\ core' = [core EXCEPT !.machineState = "UNLOCKED"] /\ Unlock
  BY DEF UnlockCommand, CommandMutexFree, Idle
<1>2. core \in CoreState /\ MotionInv
  BY DEF IInv, TypeOK
<1>3. core' \in CoreState /\ core'.machineState = "UNLOCKED"
  BY <1>1, <1>2 DEF CoreState, States
<1>4. MotionInv' /\ Still' /\ ~sg'.driverEnabled
  BY <1>1, <1>2, HaltingMakesStill
<1>5. TypeOK'
  BY <1>1, <1>3, <1>4 DEF IInv, TypeOK, MotionInv
<1> QED
  BY <1>1, <1>3, <1>4, <1>5 DEF IInv, ControlInv, LatchedMeansStill,
     RestMeansStill, UnlockedMeansReleased, SetpointApplied,
     NoPreemptionInFlight, State, Moving

\* reset_estop returns to the destination the E-stop remembered.
LEMMA ResetKeepsIInv == ASSUME IInv, ResetEstop PROVE IInv'
<1>1. /\ inflight = "none" /\ sample = NoSample /\ inflight' = inflight
      /\ sample' = sample /\ entry' = entry /\ estopWaiting' = estopWaiting
      /\ core' = [core EXCEPT !.estopLatched = FALSE,
                              !.machineState = core.estopResetDestination]
      /\ UNCHANGED <<tr, sg>> /\ core.machineState = "EMERGENCY_STOPPED"
  BY DEF ResetEstop, CommandMutexFree, Idle, State
<1>2. core \in CoreState /\ MotionInv /\ Still
      /\ (core.estopResetDestination = "UNLOCKED" => ~sg.driverEnabled)
  BY <1>1 DEF IInv, TypeOK, RestMeansStill, ControlInv, State
<1>3. /\ core' \in CoreState
      /\ core'.machineState = core.estopResetDestination
      /\ core'.estopLatched = FALSE
      /\ core.estopResetDestination \in {"HOLDING", "UNLOCKED"}
  BY <1>1, <1>2 DEF CoreState, States
<1>4. MotionInv' /\ Still'
  BY <1>1, <1>2, UnchangedMotion
<1>5. TypeOK'
  BY <1>1, <1>3, <1>4 DEF IInv, TypeOK, MotionInv
<1> QED
  BY <1>1, <1>2, <1>3, <1>4, <1>5 DEF IInv, ControlInv, LatchedMeansStill,
     RestMeansStill, UnlockedMeansReleased, SetpointApplied,
     NoPreemptionInFlight, State, Moving

\* recover, first half: the drive is stopped and released before the wait.
LEMMA RecoverBeginKeepsIInv == ASSUME IInv, RecoverBegin PROVE IInv'
<1>1. /\ inflight = "none" /\ sample = NoSample /\ inflight' = "recover"
      /\ sample' = sample /\ estopWaiting' = estopWaiting
      /\ core' = [core EXCEPT !.machineState = "RECOVERING"] /\ RecoverDrive
  BY DEF RecoverBegin, CommandMutexFree
<1>2. PICK ok \in Results("recover") :
        entry' = [generation |-> core.commandGeneration, ok |-> ok]
  BY DEF RecoverBegin
<1>3. core \in CoreState /\ MotionInv /\ ok \in BOOLEAN
  BY DEF IInv, TypeOK, Results
<1>4. /\ core' \in CoreState /\ core'.machineState = "RECOVERING"
      /\ core'.commandGeneration = core.commandGeneration
  BY <1>1, <1>3 DEF CoreState, States
<1>5. entry' \in Entries /\ entry'.generation = core.commandGeneration
  BY <1>2, <1>3 DEF Entries, CoreState
<1>6. MotionInv' /\ Still' /\ ~sg'.driverEnabled
  BY <1>1, <1>3, HaltingMakesStill
<1>7. TypeOK'
  BY <1>1, <1>4, <1>5, <1>6 DEF IInv, TypeOK, MotionInv
<1> QED
  BY <1>1, <1>4, <1>5, <1>6, <1>7 DEF IInv, ControlInv, LatchedMeansStill,
     RestMeansStill, UnlockedMeansReleased, SetpointApplied,
     NoPreemptionInFlight, State, Moving

\* recover, second half.
LEMMA RecoverFinishKeepsIInv == ASSUME IInv, RecoverFinish PROVE IInv'
<1>1. /\ inflight = "recover" /\ inflight' = "none" /\ entry' = NoEntry
      /\ sample' = sample /\ estopWaiting' = estopWaiting
      /\ sample = NoSample /\ UNCHANGED <<tr, sg>>
      /\ core.machineState = "RECOVERING" /\ ~sg.driverEnabled
  BY DEF RecoverFinish, IInv, ControlInv, State
<1>2. core \in CoreState /\ MotionInv /\ Still
      /\ sg.errorState \in {ErrNone, TimingUpdateFailed}
  BY <1>1 DEF IInv, TypeOK, RestMeansStill, State, MotionTypeOK, StepGenState
<1>3. MotionInv' /\ Still' /\ ~sg'.driverEnabled
  BY <1>1, <1>2, UnchangedMotion
<1>4. CASE core' = core
  <2>1. TypeOK'
    BY <1>1, <1>2, <1>3, <1>4, NoEntryType DEF IInv, TypeOK, MotionInv
  <2> QED
    BY <1>1, <1>3, <1>4, <2>1 DEF IInv, ControlInv, LatchedMeansStill,
     RestMeansStill, UnlockedMeansReleased, SetpointApplied,
     NoPreemptionInFlight, State, Moving
<1>5. CASE core' = [core EXCEPT !.machineState = "UNLOCKED", !.faultCode = 0]
  <2>1. core' \in CoreState /\ core'.machineState = "UNLOCKED"
    BY <1>2, <1>5 DEF CoreState, States
  <2>2. TypeOK'
    BY <1>1, <1>3, <2>1, NoEntryType DEF IInv, TypeOK, MotionInv
  <2> QED
    BY <1>1, <1>3, <2>1, <2>2 DEF IInv, ControlInv, LatchedMeansStill,
     RestMeansStill, UnlockedMeansReleased, SetpointApplied,
     NoPreemptionInFlight, State, Moving
<1>6. ASSUME NEW code \in {0, OpError, TimingUpdateFailed},
             core' = Fault(core, code)
      PROVE  IInv'
  <2>1. estopWaiting' \in BOOLEAN
    BY <1>1 DEF IInv, TypeOK
  <2> QED
    BY <1>1, <1>2, <1>3, <1>6, <2>1, FaultKeepsIInv
<1>7. \/ core' = core
      \/ core' = [core EXCEPT !.machineState = "UNLOCKED", !.faultCode = 0]
      \/ \E code \in {0, OpError, TimingUpdateFailed} : core' = Fault(core, code)
  <2>1. (IF sg.errorState # ErrNone THEN sg.errorState ELSE OpError)
          \in {0, OpError, TimingUpdateFailed}
    BY <1>2
  <2> QED
    BY <2>1 DEF RecoverFinish
<1> QED
  BY <1>4, <1>5, <1>6, <1>7

\* Asking for an E-stop changes nothing yet.
LEMMA EstopRequestKeepsIInv == ASSUME IInv, EstopRequest PROVE IInv'
<1>1. /\ UNCHANGED <<tr, sg, core, inflight, entry, sample>>
      /\ estopWaiting' \in BOOLEAN
  BY DEF EstopRequest
<1>2. MotionInv' /\ (Still <=> Still')
  BY <1>1 DEF IInv, MotionInv, MotionTypeOK, PulsesNeedDriver,
     DirectionAgrees, RequestedMeansGenerated, Still
<1>3. TypeOK'
  BY <1>1, <1>2 DEF IInv, TypeOK, MotionInv
<1> QED
  BY <1>1, <1>2, <1>3 DEF IInv, ControlInv, LatchedMeansStill,
     RestMeansStill, UnlockedMeansReleased, SetpointApplied,
     NoPreemptionInFlight, State, Moving

\* The E-stop halts the machine whatever it was doing, and remembers whether
\* the shaft was free.
LEMMA EstopKeepsIInv == ASSUME IInv, Estop PROVE IInv'
<1>1. /\ inflight = "none" /\ UNCHANGED <<inflight, entry, sample>>
      /\ estopWaiting' \in BOOLEAN
  BY DEF Estop, AlreadyStopped, StateMutexFree
<1>2. core \in CoreState /\ MotionInv
  BY DEF IInv, TypeOK
<1>3. CASE core.machineState = "EMERGENCY_STOPPED"
  <2>1. UNCHANGED <<core, tr, sg>>
    BY <1>3 DEF Estop, AlreadyStopped, State
  <2>2. MotionInv' /\ (Still <=> Still')
    BY <1>2, <2>1 DEF MotionInv, MotionTypeOK, PulsesNeedDriver,
       DirectionAgrees, RequestedMeansGenerated, Still
  <2>3. TypeOK'
    BY <1>1, <1>2, <2>1, <2>2 DEF IInv, TypeOK, MotionInv
  <2> QED
    BY <1>1, <2>1, <2>2, <2>3 DEF IInv, ControlInv, LatchedMeansStill,
     RestMeansStill, UnlockedMeansReleased, SetpointApplied,
     NoPreemptionInFlight, State, Moving
<1>4. CASE core.machineState # "EMERGENCY_STOPPED"
  <2> DEFINE dest == IF core.machineState = "UNLOCKED" THEN "UNLOCKED" ELSE "HOLDING"
             gen == (core.commandGeneration + 1) % GenModulus
  <2>1. /\ core' = [core EXCEPT !.estopResetDestination = dest,
                                !.estopLatched = TRUE,
                                !.commandGeneration = gen,
                                !.machineState = "EMERGENCY_STOPPED"]
        /\ StopImmediate
    BY <1>4 DEF Estop, AlreadyStopped, State
  <2>2. gen \in 0 .. (GenModulus - 1) /\ dest \in {"HOLDING", "UNLOCKED"}
    <3>1. core.commandGeneration \in Int
      BY <1>2, StateMgrAssumption DEF CoreState
    <3> QED
      BY <3>1, StateMgrAssumption
  <2>3. dest = "UNLOCKED" => core.machineState = "UNLOCKED"
    OBVIOUS
  <2> HIDE DEF dest, gen
  <2>4. /\ core' \in CoreState /\ core'.machineState = "EMERGENCY_STOPPED"
        /\ core'.estopLatched = TRUE
        /\ core'.estopResetDestination = dest
    BY <1>2, <2>1, <2>2 DEF CoreState, States
  <2>5. MotionInv' /\ Still' /\ sg'.driverEnabled = sg.driverEnabled
    BY <1>2, <2>1, HaltingMakesStill
  <2>6. core'.estopResetDestination = "UNLOCKED" => ~sg'.driverEnabled
    BY <2>3, <2>4, <2>5 DEF IInv, UnlockedMeansReleased, State
  <2>7. TypeOK'
    BY <1>1, <2>4, <2>5 DEF IInv, TypeOK, MotionInv
  <2> QED
    BY <1>1, <2>4, <2>5, <2>6, <2>7 DEF IInv, ControlInv, LatchedMeansStill,
     RestMeansStill, UnlockedMeansReleased, SetpointApplied,
     NoPreemptionInFlight, State, Moving
<1> QED
  BY <1>3, <1>4

\* Sampling: a decelerating machine that shows no rate and no error really is
\* at standstill.
LEMMA SampleKeepsIInv == ASSUME IInv, EvaluatorSample PROVE IInv'
<1> DEFINE new == [applied |-> tr.applied, generated |-> sg.generated,
                   rampActive |-> tr.rampActive, error |-> sg.errorState]
<1>1. /\ UNCHANGED <<tr, sg, core, inflight, entry, estopWaiting>>
      /\ sample' = new /\ inflight = "none"
  BY DEF EvaluatorSample, CommandMutexFree
<1>2. MotionInv' /\ (Still <=> Still')
  BY <1>1 DEF IInv, MotionInv, MotionTypeOK, PulsesNeedDriver,
     DirectionAgrees, RequestedMeansGenerated, Still
<1>3. new \in Samples
  BY DEF IInv, TypeOK, MotionTypeOK, TrajectoryState, StepGenState, Samples
<1>4. TypeOK'
  BY <1>1, <1>2, <1>3 DEF IInv, TypeOK, MotionInv
<1>5. /\ sample'.applied = tr.applied /\ sample'.generated = sg.generated
      /\ sample'.error = sg.errorState
  BY <1>1
<1>6. core.machineState = "DECELERATING" /\ tr.applied = 0
        /\ sg.generated = 0 /\ sg.errorState = ErrNone => Still
  <2>1. sg.requested \in Rates
    BY DEF IInv, TypeOK, MotionTypeOK, StepGenState
  <2> QED
    BY <2>1, RateFacts DEF IInv, MotionInv, RequestedMeansGenerated,
       ControlInv, State, Still
<1> HIDE DEF new
<1> QED
  BY <1>1, <1>2, <1>4, <1>5, <1>6 DEF IInv, ControlInv, LatchedMeansStill,
     RestMeansStill, UnlockedMeansReleased, SetpointApplied,
     NoPreemptionInFlight, State, Moving

\* Evaluation acts on the sample, which may be older than an E-stop.
LEMMA EvaluateKeepsIInv == ASSUME IInv, EvaluatePeriodic PROVE IInv'
<1>1. /\ UNCHANGED <<tr, sg, inflight, entry, estopWaiting>>
      /\ sample # NoSample /\ sample' = NoSample /\ inflight = "none"
      /\ core' = Evaluated
  BY DEF EvaluatePeriodic, StateMutexFree
<1>2. core \in CoreState /\ MotionInv /\ sample \in Samples
      /\ sample.error \in {ErrNone, TimingUpdateFailed}
  BY <1>1 DEF IInv, TypeOK, Samples
<1>3. MotionInv' /\ (Still <=> Still')
  BY <1>1, <1>2 DEF MotionInv, MotionTypeOK, PulsesNeedDriver,
     DirectionAgrees, RequestedMeansGenerated, Still
<1>4. CASE core' = Fault(core, sample.error)
  <2>1. estopWaiting' \in BOOLEAN /\ (core.estopLatched => Still')
    BY <1>1, <1>3 DEF IInv, TypeOK, LatchedMeansStill
  <2> QED
    BY <1>1, <1>2, <1>3, <1>4, <2>1, FaultKeepsIInv
<1>5. CASE /\ core.machineState = "STARTING"
           /\ core' = [core EXCEPT !.machineState = "RUNNING"]
  <2>1. /\ core' \in CoreState /\ core'.machineState = "RUNNING"
        /\ core'.configuredTarget = core.configuredTarget
        /\ core'.requestedForward = core.requestedForward
        /\ core'.estopLatched = core.estopLatched
    BY <1>2, <1>5 DEF CoreState, States
  <2>2. TypeOK'
    BY <1>1, <1>3, <2>1 DEF IInv, TypeOK, MotionInv
  <2> QED
    BY <1>1, <1>3, <1>5, <2>1, <2>2 DEF IInv, ControlInv, LatchedMeansStill,
     RestMeansStill, UnlockedMeansReleased, SetpointApplied,
     NoPreemptionInFlight, State, Moving
<1>6. CASE /\ core.machineState = "DECELERATING" /\ sample.error = ErrNone
           /\ sample.applied = 0 /\ sample.generated = 0
           /\ core' = [core EXCEPT !.machineState = "HOLDING"]
  <2>1. /\ core' \in CoreState /\ core'.machineState = "HOLDING"
        /\ core'.estopLatched = core.estopLatched
    BY <1>2, <1>6 DEF CoreState, States
  <2>2. Still'
    BY <1>1, <1>3, <1>6 DEF IInv, ControlInv, State
  <2>3. TypeOK'
    BY <1>1, <1>3, <2>1 DEF IInv, TypeOK, MotionInv
  <2> QED
    BY <1>1, <1>3, <2>1, <2>2, <2>3 DEF IInv, ControlInv, LatchedMeansStill,
     RestMeansStill, UnlockedMeansReleased, SetpointApplied,
     NoPreemptionInFlight, State, Moving
<1>7. CASE core' = core
  <2>1. TypeOK'
    BY <1>1, <1>2, <1>3, <1>7 DEF IInv, TypeOK, MotionInv
  <2> QED
    BY <1>1, <1>3, <1>7, <2>1 DEF IInv, ControlInv, LatchedMeansStill,
     RestMeansStill, UnlockedMeansReleased, SetpointApplied,
     NoPreemptionInFlight, State, Moving
<1>8. sample.error # ErrNone /\ core.machineState \in {"FAULTED", "RECOVERING"}
        => Evaluated = core
  BY DEF Evaluated, State
<1> QED
  BY <1>1, <1>4, <1>5, <1>6, <1>7, <1>8 DEF Evaluated, State

\* A tick of the trajectory engine moves no state of the manager.
LEMMA TickKeepsIInv == ASSUME IInv, TrajectoryTick PROVE IInv'
<1>1. /\ Tick /\ MotionInv /\ MotionTypeOK
      /\ UNCHANGED <<core, inflight, entry, sample, estopWaiting>>
  BY DEF TrajectoryTick, IInv, MotionInv
<1>2. MotionInv'
  BY <1>1, TickKeepsMotionInv
<1>3. Still => Still' /\ sg'.driverEnabled = sg.driverEnabled
  BY <1>1, TickKeepsStill
<1>4. tr'.target = tr.target /\ tr'.targetForward = tr.targetForward
  BY <1>1 DEF Tick, TickTrajectory, MotionTypeOK, TrajectoryState
<1>5. TypeOK'
  BY <1>1, <1>2 DEF IInv, TypeOK, MotionInv
<1>6. core.machineState \in {"UNLOCKED", "RECOVERING", "EMERGENCY_STOPPED"}
        => sg'.driverEnabled = sg.driverEnabled
  BY <1>3 DEF IInv, RestMeansStill, State
<1> QED
  BY <1>1, <1>2, <1>3, <1>4, <1>5, <1>6 DEF IInv, ControlInv, LatchedMeansStill,
     RestMeansStill, UnlockedMeansReleased, SetpointApplied,
     NoPreemptionInFlight, State, Moving

\* Nor does the timer.
LEMMA AlarmKeepsIInv == ASSUME IInv, TimerAlarm PROVE IInv'
<1>1. /\ AcceptRate /\ MotionInv
      /\ UNCHANGED <<core, inflight, entry, sample, estopWaiting>>
  BY DEF TimerAlarm, IInv
<1>2. MotionInv' /\ ~Still /\ sg'.driverEnabled = sg.driverEnabled /\ tr' = tr
  BY <1>1, AcceptKeepsMotionInv
<1>3. TypeOK'
  BY <1>1, <1>2 DEF IInv, TypeOK, MotionInv
<1> QED
  BY <1>1, <1>2, <1>3 DEF IInv, ControlInv, LatchedMeansStill,
     RestMeansStill, UnlockedMeansReleased, SetpointApplied,
     NoPreemptionInFlight, State, Moving

\* Nothing happens.
LEMMA StutterKeepsIInv == ASSUME IInv, UNCHANGED vars PROVE IInv'
<1>1. UNCHANGED <<tr, sg, core, inflight, entry, sample, estopWaiting>>
  BY DEF vars
<1>2. MotionInv' /\ (Still <=> Still')
  BY <1>1 DEF IInv, MotionInv, MotionTypeOK, PulsesNeedDriver,
     DirectionAgrees, RequestedMeansGenerated, Still
<1>3. TypeOK'
  BY <1>1, <1>2 DEF IInv, TypeOK, MotionInv
<1> QED
  BY <1>1, <1>2, <1>3 DEF IInv, ControlInv, LatchedMeansStill,
     RestMeansStill, UnlockedMeansReleased, SetpointApplied,
     NoPreemptionInFlight, State, Moving

\* Every step of the state manager, the evaluator, the trajectory task and the
\* timer keeps the inductive invariant.
LEMMA NextKeepsIInv == ASSUME IInv, [Next]_vars PROVE IInv'
<1>1. CASE Command
  BY <1>1, SetTargetKeepsIInv, StartEnableKeepsIInv, StartRateKeepsIInv,
     StopKeepsIInv, UnlockKeepsIInv, ResetKeepsIInv, RecoverBeginKeepsIInv,
     RecoverFinishKeepsIInv DEF Command
<1>2. CASE EstopRequest \/ Estop
  BY <1>2, EstopRequestKeepsIInv, EstopKeepsIInv
<1>3. CASE Evaluator
  BY <1>3, SampleKeepsIInv, EvaluateKeepsIInv DEF Evaluator
<1>4. CASE TrajectoryTick \/ TimerAlarm
  BY <1>4, TickKeepsIInv, AlarmKeepsIInv
<1>5. CASE UNCHANGED vars
  BY <1>5, StutterKeepsIInv
<1> QED
  BY <1>1, <1>2, <1>3, <1>4, <1>5 DEF Next

---------------------------------------------------------------------------
(* The theorems.                                                           *)

\* IInv holds in every reachable state.
THEOREM IInvHolds == Spec => []IInv
BY InitEstablishesIInv, NextKeepsIInv, PTL DEF Spec

\* Every variable keeps the type of the C variable it models.
THEOREM TypeCorrect == Spec => []TypeOK
<1>1. IInv => TypeOK
  BY DEF IInv
<1> QED
  BY <1>1, IInvHolds, PTL

\* While the E-stop is latched nothing moves and nothing is about to.
THEOREM LatchedIsStill == Spec => []LatchedMeansStill
<1>1. IInv => LatchedMeansStill
  BY DEF IInv
<1> QED
  BY <1>1, IInvHolds, PTL

\* UNLOCKED, HOLDING, RECOVERING and EMERGENCY_STOPPED are states of a machine
\* at standstill, and UNLOCKED of one whose driver is off.
THEOREM RestIsStill == Spec => [](RestMeansStill /\ UnlockedMeansReleased)
<1>1. IInv => RestMeansStill /\ UnlockedMeansReleased
  BY DEF IInv
<1> QED
  BY <1>1, IInvHolds, PTL

\* The DIR line is where the trajectory engine believes it to be and pulses
\* are generated only with the driver on.
THEOREM MotionConsistent == Spec => [](DirectionAgrees /\ PulsesNeedDriver)
<1>1. IInv => DirectionAgrees /\ PulsesNeedDriver
  BY DEF IInv, MotionInv
<1> QED
  BY <1>1, IInvHolds, PTL

\* A starting or running machine pursues the configured setpoint, and no E-stop
\* takes effect inside a start or a recover.
THEOREM SetpointAndLocks == Spec => [](SetpointApplied /\ NoPreemptionInFlight)
<1>1. IInv => SetpointApplied /\ NoPreemptionInFlight
  BY DEF IInv
<1> QED
  BY <1>1, IInvHolds, PTL

---------------------------------------------------------------------------
(* What a step may never do.                                               *)

\* The operations that the state manager calls: none raises the applied rate
\* and none moves the DIR line.
LEMMA OperationsOnMotion ==
    ASSUME MotionTypeOK
    PROVE  /\ \A rpm, fwd : SetTargetRpm(rpm, fwd) =>
                tr'.applied = tr.applied /\ sg'.forward = sg.forward
           /\ StopImmediate \/ Unlock \/ RecoverDrive =>
                tr'.applied = 0 /\ sg'.forward = sg.forward
           /\ EnableDrive => tr'.applied = tr.applied /\ sg'.forward = sg.forward
<1>1. tr \in TrajectoryState /\ sg \in StepGenState
  BY DEF MotionTypeOK
<1>2. EnableDriver(sg).forward = sg.forward
  BY <1>1 DEF EnableDriver, StepGenState
<1>3. ASSUME NEW rpm, NEW fwd, SetTargetRpm(rpm, fwd)
      PROVE  tr'.applied = tr.applied /\ sg'.forward = sg.forward
  BY <1>1, <1>2, <1>3 DEF SetTargetRpm, TrajectoryState
<1>4. Halted(tr).applied = 0
  BY <1>1, HaltedType
<1>5. StopPulses(sg) \in StepGenState /\ StopPulses(sg).forward = sg.forward
  BY <1>1, StepGenOps
<1>6. DisableDriver(sg).forward = sg.forward
  BY <1>1, StepGenOps
<1>7. ClearError(DisableDriver(StopPulses(sg))).forward = sg.forward
  <2>1. /\ DisableDriver(StopPulses(sg)) \in StepGenState
        /\ DisableDriver(StopPulses(sg)).forward = sg.forward
    BY <1>5, StepGenOps
  <2> QED
    BY <2>1 DEF ClearError, StepGenState
<1> QED
  BY <1>2, <1>3, <1>4, <1>5, <1>6, <1>7 DEF StopImmediate, Unlock, RecoverDrive, EnableDrive

\* So only a tick of the trajectory engine does.
LEMMA OnlyTicksMove ==
    ASSUME IInv, Next, ~TrajectoryTick
    PROVE  /\ tr'.applied \in {0, tr.applied}
           /\ sg'.forward = sg.forward
<1>1. MotionTypeOK /\ sg \in StepGenState
  BY DEF IInv, MotionInv, MotionTypeOK
<1>2. CASE SetTarget
  BY <1>1, <1>2, OperationsOnMotion DEF SetTarget
<1>3. CASE StartEnable
  BY <1>1, <1>3, OperationsOnMotion DEF StartEnable
<1>4. CASE StartRate
  BY <1>1, <1>4, OperationsOnMotion DEF StartRate
<1>5. CASE StopCommand
  BY <1>1, <1>5, OperationsOnMotion DEF StopCommand, StopNormal
<1>6. CASE UnlockCommand \/ RecoverBegin
  BY <1>1, <1>6, OperationsOnMotion DEF UnlockCommand, RecoverBegin
<1>7. CASE ResetEstop \/ RecoverFinish \/ EstopRequest \/ Evaluator
  BY <1>7 DEF ResetEstop, RecoverFinish, EstopRequest, Evaluator, EvaluatorSample,
     EvaluatePeriodic
<1>8. CASE Estop
  BY <1>1, <1>8, OperationsOnMotion DEF Estop
<1>9. CASE TimerAlarm
  BY <1>1, <1>9 DEF TimerAlarm, AcceptRate, StepGenState
<1> QED
  BY <1>2, <1>3, <1>4, <1>5, <1>6, <1>7, <1>8, <1>9 DEF Next, Command

\* A tick climbs by at most DeltaAccel, and not above the target.
LEMMA TickClimbs ==
    ASSUME MotionTypeOK, Tick
    PROVE  /\ tr'.applied <= tr.applied + DeltaAccel
           /\ tr'.applied > tr.applied => tr'.applied <= tr.target
<1>1. tr' = TickTrajectory /\ tr \in TrajectoryState
  BY DEF Tick, MotionTypeOK
<1>2. tr'.applied = NextApplied
  BY <1>1 DEF TickTrajectory, TrajectoryState
<1>3. tr.applied \in Nat /\ tr.target \in Nat
  BY <1>1, RateFacts DEF TrajectoryState
<1> QED
  BY <1>2, <1>3, RateAssumption DEF NextApplied, GreaterOf, LesserOf

\* In FAULTED the trajectory keeps the target it had, or is halted by a recover
\* or an E-stop: set_target, start, stop and unlock are refused, and a start
\* that failed has left no second half behind.
LEMMA FaultedKeepsTarget ==
    ASSUME IInv, [Next]_vars, State = "FAULTED"
    PROVE  tr'.target \in {tr.target, 0}
<1>1. tr \in TrajectoryState /\ Halted(tr).target = 0
  BY HaltedType DEF IInv, TypeOK, MotionTypeOK
<1>2. CASE SetTarget \/ StartEnable \/ StopCommand \/ UnlockCommand
  BY <1>2 DEF SetTarget, SetTargetPermitted, StartEnable, StartPermitted, StopCommand,
              UnlockCommand
<1>3. CASE StartRate
  BY <1>3 DEF StartRate, IInv, ControlInv
<1>4. CASE RecoverBegin \/ Estop
  BY <1>1, <1>4 DEF RecoverBegin, RecoverDrive, Estop, StopImmediate
<1>5. CASE ResetEstop \/ RecoverFinish \/ EstopRequest \/ Evaluator
  BY <1>5 DEF ResetEstop, RecoverFinish, EstopRequest, Evaluator, EvaluatorSample,
     EvaluatePeriodic
<1>6. CASE TrajectoryTick
  BY <1>1, <1>6 DEF TrajectoryTick, Tick, TickTrajectory, TrajectoryState
<1>7. CASE TimerAlarm
  BY <1>7 DEF TimerAlarm, AcceptRate
<1>8. CASE UNCHANGED vars
  BY <1>8 DEF vars
<1> QED
  BY <1>2, <1>3, <1>4, <1>5, <1>6, <1>7, <1>8 DEF Next, Command

\* The applied rate climbs by at most one tick's worth at a time, towards the
\* target in force and only in STARTING, RUNNING and FAULTED: commands, E-stops,
\* the evaluator and the timer never raise it.  In FAULTED, where
\* argus_state_core_evaluate_periodic leaves the trajectory alone, that target is
\* the one the fault found, since nothing sets another.
THEOREM NeverSurges == Spec => NoSurge
<1>1. ASSUME IInv, [Next]_vars, tr'.applied > tr.applied
      PROVE  /\ tr'.applied <= tr.applied + DeltaAccel /\ tr'.applied <= tr.target
             /\ Moving \/ State = "FAULTED"
  <2>1. MotionTypeOK /\ tr.applied \in Nat /\ tr.target \in Nat /\ State \in States
    <3>1. MotionTypeOK /\ core \in CoreState /\ tr \in TrajectoryState
      BY <1>1 DEF IInv, TypeOK, MotionTypeOK
    <3> QED
      BY <3>1, RateFacts DEF TrajectoryState, CoreState, State
  <2>2. ~(UNCHANGED vars)
    BY <1>1, <2>1 DEF vars
  <2>3. TrajectoryTick
    BY <1>1, <2>1, <2>2, OnlyTicksMove
  <2>4. tr'.applied \in Int
    BY <1>1, NextKeepsIInv, RateFacts DEF IInv, TypeOK, MotionTypeOK, TrajectoryState
  <2>5. tr'.applied <= tr.applied + DeltaAccel /\ tr'.applied <= tr.target /\ tr.target # 0
    BY <1>1, <2>1, <2>3, <2>4, TickClimbs DEF TrajectoryTick
  <2>6. State \notin {"UNLOCKED", "HOLDING", "RECOVERING", "EMERGENCY_STOPPED",
                      "DECELERATING"}
    BY <1>1, <2>5 DEF IInv, RestMeansStill, Still, ControlInv
  <2> QED
    BY <2>1, <2>5, <2>6 DEF States, Moving
<1>2. IInv /\ [Next]_vars =>
        [/\ tr'.applied > tr.applied =>
              /\ tr'.applied <= tr.applied + DeltaAccel /\ tr'.applied <= tr.target
              /\ Moving \/ State = "FAULTED"
         /\ State = "FAULTED" => tr'.target \in {tr.target, 0}]_vars
  BY <1>1, FaultedKeepsTarget
<1> QED
  BY <1>2, IInvHolds, PTL DEF Spec, NoSurge

\* The DIR line moves only at the end of a tick that leaves the pump at
\* standstill with its pulses stopped.
THEOREM DirectionOnlyAtRest == Spec => DirectionChangesAtRest
<1>1. ASSUME IInv, TrajectoryTick, sg'.forward # sg.forward
      PROVE  tr'.applied = 0 /\ sg'.generated = 0
  <2>1. PICK ok \in BOOLEAN : tr' = TickTrajectory /\ sg' = TickStepGen(ok)
    BY <1>1 DEF TrajectoryTick, Tick
  <2>2. tr \in TrajectoryState /\ sg \in StepGenState /\ tr.targetForward \in BOOLEAN
    BY <1>1 DEF IInv, TypeOK, MotionTypeOK, TrajectoryState
  <2>3. tr'.applied = NextApplied
    BY <2>1, <2>2 DEF TickTrajectory, TrajectoryState
  <2>4. CASE CompletesReversal
    <3>1. NextApplied = 0
      BY <2>4 DEF CompletesReversal
    <3>2. SwitchDirection(sg).generated = 0
      BY <2>2, SwitchSucceeds DEF SwitchDirection
    <3> QED
      BY <2>1, <2>3, <2>4, <3>1, <3>2 DEF TickStepGen
  <2>5. CASE ~CompletesReversal
    <3>1. StopProfiled(sg).forward = sg.forward
      BY <2>2 DEF StopProfiled, StepGenState
    <3>2. SetRate(StartPulses(EnableDriver(sg)), NextApplied, ok).forward = sg.forward
      BY <2>2 DEF SetRate, StartPulses, EnableDriver, StepGenState
    <3> QED
      BY <1>1, <2>1, <2>5, <3>1, <3>2 DEF TickStepGen
  <2> QED
    BY <2>4, <2>5
<1>2. IInv /\ [Next]_vars =>
        [sg'.forward # sg.forward => tr'.applied = 0 /\ sg'.generated = 0]_vars
  BY <1>1, OnlyTicksMove
<1> QED
  BY <1>2, IInvHolds, PTL DEF Spec, DirectionChangesAtRest

\* Only argus_state_core_reset_estop clears the latch.
LEMMA OnlyResetUnlatches ==
    ASSUME IInv, Next, ~ResetEstop
    PROVE  core'.estopLatched = core.estopLatched \/ core'.estopLatched = TRUE
<1>1. core \in CoreState
  BY DEF IInv, TypeOK
<1>2. \A code : \A c \in CoreState : Fault(c, code).estopLatched = c.estopLatched
  BY DEF Fault, CoreState
<1>3. CASE SetTarget
  <2>1. PICK rpm \in Requests, fwd \in BOOLEAN :
          /\ rpm \in Rates
          /\ LET c == [core EXCEPT !.configuredTarget = rpm, !.requestedForward = fwd]
             IN  core' \in {c, Fault(c, OpError)}
    BY <1>3 DEF SetTarget, SetTargetPermitted
  <2> DEFINE c == [core EXCEPT !.configuredTarget = rpm, !.requestedForward = fwd]
  <2>2. c \in CoreState /\ c.estopLatched = core.estopLatched
    BY <1>1, <2>1 DEF CoreState
  <2> HIDE DEF c
  <2> QED
    BY <1>2, <2>1, <2>2 DEF c
<1>4. CASE StartEnable \/ UnlockCommand \/ RecoverBegin
  BY <1>1, <1>4 DEF StartEnable, UnlockCommand, RecoverBegin, CoreState
<1>5. CASE StartRate
  BY <1>1, <1>2, <1>5 DEF StartRate
<1>6. CASE StopCommand
  <2>1. core' \in {[core EXCEPT !.machineState = "DECELERATING"], Fault(core, OpError)}
    BY <1>6 DEF StopCommand
  <2> QED
    BY <1>1, <1>2, <2>1 DEF CoreState
<1>7. CASE RecoverFinish
  <2>1. \/ core' = core
        \/ core' = [core EXCEPT !.machineState = "UNLOCKED", !.faultCode = 0]
        \/ \E code : core' = Fault(core, code)
    BY <1>7 DEF RecoverFinish
  <2>2. CASE \E code : core' = Fault(core, code)
    BY <1>1, <1>2, <2>2
  <2>3. CASE core' = [core EXCEPT !.machineState = "UNLOCKED", !.faultCode = 0]
    BY <1>1, <2>3 DEF CoreState
  <2> QED
    BY <2>1, <2>2, <2>3
<1>8. CASE Estop
  BY <1>1, <1>8 DEF Estop, CoreState
<1>9. CASE EvaluatePeriodic
  <2>1. \/ core' = core \/ \E code : core' = Fault(core, code)
        \/ \E st \in States : core' = [core EXCEPT !.machineState = st]
    BY <1>9 DEF EvaluatePeriodic, Evaluated, States
  <2> QED
    BY <1>1, <1>2, <2>1 DEF CoreState
<1>10. CASE EstopRequest \/ EvaluatorSample \/ TrajectoryTick \/ TimerAlarm
  BY <1>10 DEF EstopRequest, EvaluatorSample, TrajectoryTick, TimerAlarm
<1> QED
  BY <1>3, <1>4, <1>5, <1>6, <1>7, <1>8, <1>9, <1>10 DEF Next, Command, Evaluator

\* Clearing the E-stop latch never starts motion, whatever state the reset
\* returns to.
THEOREM ResetStaysStill == Spec => ResetNeverRestarts
<1>1. ASSUME IInv, Next, core.estopLatched, ~core'.estopLatched
      PROVE  Still /\ UNCHANGED <<tr, sg>>
  <2>1. ResetEstop
    BY <1>1, OnlyResetUnlatches
  <2> QED
    BY <1>1, <2>1 DEF IInv, LatchedMeansStill, ResetEstop
<1>2. IInv /\ [Next]_vars =>
        [core.estopLatched /\ ~core'.estopLatched => Still /\ UNCHANGED <<tr, sg>>]_vars
  BY <1>1
<1> QED
  BY <1>2, IInvHolds, PTL DEF Spec, ResetNeverRestarts
===========================================================================
