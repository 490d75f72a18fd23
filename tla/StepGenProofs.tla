--------------------------- MODULE StepGenProofs ---------------------------
(***************************************************************************)
(* The step generator against its interrupt, for every set of rates and    *)
(* whether or not the timer may fail to start: the stop invariants, the    *)
(* chain of alarms, and the refinement of PulseContract.  Then the rates   *)
(* themselves, for every clock, gearing and number of steps: the pulse     *)
(* train is exact, and every target a command may set is one it can run.   *)
(***************************************************************************)
EXTENDS StepGen, TargetPath, TLAPS

---------------------------------------------------------------------------
(* The inductive invariant.                                                *)

\* TypeOK, by kind of variable.
RateTypes ==
    /\ requested \in Rate \cup {0} /\ generated \in Rate \cup {0}
    /\ pending \in Rate \cup {0} /\ active \in Rate \cup {0}
FlagTypes ==
    /\ immediateStop \in BOOLEAN /\ forward \in BOOLEAN /\ running \in BOOLEAN
    /\ driverEnabled \in BOOLEAN /\ failed \in BOOLEAN /\ timerOn \in BOOLEAN
    /\ armed \in BOOLEAN /\ step \in BOOLEAN /\ pinAsserted \in BOOLEAN
ControlTypes ==
    /\ isr \in {"idle", "deassert", "guard", "accept", "check", "assert", "rearm"}
    /\ task \in Steps
    /\ lateEdges \in 0 .. HistoryCap

\* The step within a function says what the rest of the call is.
CallAgrees ==
    /\ task = "idle" => call = <<>>
    /\ task = "enable" => call \in {<<"enable", "start", "rate">>, <<"enable">>}
    /\ task \in {"start", "start_timer"} => call = <<"start", "rate">>
    /\ task \in {"rate", "rate_check", "kick_apply", "kick_assert", "kick_arm"}
         => call = <<"rate">>
    /\ task \in {"stop", "stop_timer", "stop_pin"}
         => call \in {<<"stop", "turn">>, <<"stop">>, <<"stop", "disable">>}
    /\ task \in {"disable", "disable_timer", "disable_pin"} => call = <<"disable">>
    /\ task \in {"turn", "turn_dir"} => call = <<"turn">>
    /\ task = "profiled" => call = <<"profiled">>

\* What a function may rely on because its caller ran others before it.
CallerAgrees ==
    /\ task \in {"start", "start_timer"} => driverEnabled
    /\ task \in {"start_timer", "rate", "rate_check", "kick_apply", "kick_assert",
                 "kick_arm"} => running
    /\ task \in {"rate", "rate_check", "kick_apply", "kick_assert", "kick_arm"}
         => driverEnabled /\ timerOn
    /\ task \in {"stop_timer", "stop_pin", "disable_timer", "disable_pin", "turn",
                 "turn_dir"} => ~running

Quiet == requested = 0 /\ generated = 0 /\ pending = 0 /\ active = 0

\* A period and the rate it stands for change together.
PeriodsAgree == pending = requested /\ active = generated

\* Rates exist only in a running generator with the driver on, and an immediate
\* stop that the interrupt has not seen yet has taken them all away.
RatesNeedRunning ==
    /\ ~(running /\ driverEnabled) => Quiet
    /\ immediateStop => Quiet

\* The edge that an interrupt has decided on is the only one left after a stop.
EdgesLeft == ~running => lateEdges + (IF isr = "assert" THEN 1 ELSE 0) <= 1

\* The chain of alarms, also inside a call.
AlarmChain ==
    /\ pending > 0 \/ active > 0 => timerOn
    /\ active > 0 /\ task \notin {"kick_assert", "kick_arm"} => armed \/ isr # "idle"

Inv == /\ RateTypes /\ FlagTypes /\ ControlTypes /\ CallAgrees /\ CallerAgrees /\ PeriodsAgree /\ RatesNeedRunning
       /\ EdgesLeft /\ AlarmChain

---------------------------------------------------------------------------
LEMMA InitInv == Init => Inv
<1> SUFFICES ASSUME Init PROVE Inv
  OBVIOUS
<1>1. FlagTypes
  BY DEF Init, FlagTypes
<1>2. RateTypes /\ ControlTypes /\ CallAgrees /\ CallerAgrees
  BY DEF Init, RateTypes, ControlTypes, Steps, HistoryCap, CallAgrees, CallerAgrees
<1>3. PeriodsAgree /\ RatesNeedRunning /\ EdgesLeft /\ AlarmChain
  BY DEF Init, PeriodsAgree, RatesNeedRunning, Quiet, EdgesLeft, AlarmChain
<1> QED
  BY <1>1, <1>2, <1>3 DEF Inv

\* The interrupt keeps the invariant, wherever the task is.
LEMMA IsrKeepsInv == ASSUME Inv, Isr PROVE Inv'
<1> USE DEF timing, enables, pins
<1>1. FlagTypes'
  <2>1. CASE AlarmFires \/ Deassert \/ Guard
    BY <2>1 DEF Inv, FlagTypes, AlarmFires, Deassert, Guard
  <2>2. CASE Accept \/ Check
    BY <2>2 DEF Inv, FlagTypes, Accept, Check
  <2>3. CASE IsrAssert \/ Rearm
    BY <2>3 DEF Inv, FlagTypes, IsrAssert, AssertStep, Rearm
  <2> QED
    BY <2>1, <2>2, <2>3 DEF Isr
<1>2. RateTypes' /\ ControlTypes'
  BY DEF Inv, RateTypes, ControlTypes, HistoryCap, Isr, AlarmFires, Deassert, Guard, Accept, Check, IsrAssert,
     AssertStep, Rearm
<1>3. CallAgrees' /\ CallerAgrees'
  BY DEF Inv, CallAgrees, CallerAgrees, Isr, AlarmFires, Deassert, Guard, Accept, Check, IsrAssert,
     AssertStep, Rearm
<1>4. PeriodsAgree' /\ RatesNeedRunning'
  BY DEF Inv, PeriodsAgree, RatesNeedRunning, Quiet, Isr, AlarmFires, Deassert, Guard, Accept, Check, IsrAssert,
     AssertStep, Rearm
<1>5. EdgesLeft'
  BY DEF Inv, EdgesLeft, ControlTypes, HistoryCap, RatesNeedRunning, Quiet,
     Isr, AlarmFires, Deassert, Guard, Accept, Check, IsrAssert,
     AssertStep, Rearm
<1>6. AlarmChain'
  BY RateAssumption DEF Inv, AlarmChain, RateTypes, RatesNeedRunning, Quiet,
     Isr, AlarmFires, Deassert, Guard, Accept, Check, IsrAssert,
     AssertStep, Rearm
<1> QED
  BY <1>1, <1>2, <1>3, <1>4, <1>5, <1>6 DEF Inv

\* Beginning a call only decides what runs next.
LEMMA BeginKeepsInv == ASSUME Inv, Begin PROVE Inv'
<1> USE DEF timing, enables, pins
<1>1. /\ call' \in Calls /\ task' = Head(call')
      /\ task = "idle"
      /\ UNCHANGED <<timing, failed, enables, timerOn, armed, pins, isr, lateEdges>>
  BY DEF Begin
<1>2. CallAgrees' /\ task' \in {"enable", "stop", "profiled", "disable"}
  BY <1>1 DEF Calls, CallAgrees
<1>3. FlagTypes' /\ PeriodsAgree' /\ RatesNeedRunning'
  BY <1>1 DEF Inv, FlagTypes, PeriodsAgree, RatesNeedRunning, Quiet
<1>4. RateTypes' /\ ControlTypes' /\ CallerAgrees'
  BY <1>1, <1>2 DEF Inv, RateTypes, ControlTypes, Steps, CallerAgrees
<1>5. EdgesLeft' /\ AlarmChain'
  BY <1>1, <1>2 DEF Inv, EdgesLeft, AlarmChain
<1> QED
  BY <1>2, <1>3, <1>4, <1>5 DEF Inv

\* What is left of a call when the function at its head returns.
LEMMA TailsOfCalls ==
    /\ Tail(<<"enable", "start", "rate">>) = <<"start", "rate">>
    /\ Tail(<<"start", "rate">>) = <<"rate">>
    /\ Tail(<<"stop", "turn">>) = <<"turn">>
    /\ Tail(<<"stop", "disable">>) = <<"disable">>
    /\ \A c \in {<<"enable">>, <<"rate">>, <<"stop">>, <<"disable">>, <<"turn">>,
                 <<"profiled">>} : Tail(c) = <<>>
    /\ Head(<<"start", "rate">>) = "start" /\ <<"start", "rate">> # <<>>
    /\ Head(<<"rate">>) = "rate" /\ <<"rate">> # <<>>
    /\ Head(<<"turn">>) = "turn" /\ <<"turn">> # <<>>
    /\ Head(<<"disable">>) = "disable" /\ <<"disable">> # <<>>
OBVIOUS

\* The functions of the step generator keep it, wherever the interrupt is.
LEMMA BodyKeepsInv == ASSUME Inv, Body PROVE Inv'
<1> USE DEF timing, enables, pins
<1>1. FlagTypes'
  <2>1. CASE EnableDriver \/ StartRunning \/ StartTimer
    BY <2>1 DEF Inv, FlagTypes, EnableDriver, StartRunning, StartTimer
  <2>2. CASE RequestRate \/ KickApply
    BY <2>2 DEF Inv, FlagTypes, RequestRate, KickApply
  <2>3. CASE RateCheck \/ KickAssert \/ KickArm
    BY <2>3 DEF Inv, FlagTypes, RateCheck, KickAssert, AssertStep, KickArm
  <2>4. CASE TurnCheck \/ TurnDir \/ StopProfiled
    BY <2>4 DEF Inv, FlagTypes, TurnCheck, TurnDir, StopProfiled
  <2>5. CASE StopTiming \/ DisableTiming
    BY <2>5 DEF Inv, FlagTypes, StopTiming, DisableTiming, ClearTiming
  <2>6. CASE StopTimer \/ StopPin \/ DisableTimer \/ DisablePins
    BY <2>6 DEF Inv, FlagTypes, StopTimer, StopPin, DisableTimer, DisablePins
  <2> QED
    BY <2>1, <2>2, <2>3, <2>4, <2>5, <2>6 DEF Body
<1>2. RateTypes'
  BY DEF Inv, RateTypes, Body, EnableDriver, StartRunning, StartTimer, RequestRate,
     RateCheck, KickApply, KickAssert, KickArm, StopTiming, StopTimer, StopPin,
     DisableTiming, DisableTimer, DisablePins, TurnCheck, TurnDir, StopProfiled,
     ClearTiming, AssertStep
<1>3. ControlTypes'
  BY DEF Inv, ControlTypes, CallAgrees, Steps, HistoryCap,
     Body, EnableDriver, StartRunning, StartTimer, RequestRate,
     RateCheck, KickApply, KickAssert, KickArm, StopTiming, StopTimer, StopPin,
     DisableTiming, DisableTimer, DisablePins, TurnCheck, TurnDir, StopProfiled,
     ClearTiming, AssertStep, Goto, Return
<1>4. CallAgrees'
  <2>1. CASE Return
    <3>1. call \in {<<"enable", "start", "rate">>, <<"enable">>, <<"start", "rate">>,
                    <<"rate">>, <<"stop", "turn">>, <<"stop">>, <<"stop", "disable">>,
                    <<"disable">>, <<"turn">>, <<"profiled">>}
      BY DEF Inv, CallAgrees, ControlTypes, Steps, Body, EnableDriver, StartRunning,
         StartTimer, RequestRate, RateCheck, KickApply, KickAssert, KickArm, StopTiming,
         StopTimer, StopPin, DisableTiming, DisableTimer, DisablePins, TurnCheck,
         TurnDir, StopProfiled
    <3>2. \/ task' = "idle" /\ call' = <<>>
          \/ task' = "start" /\ call' = <<"start", "rate">>
          \/ task' = "rate" /\ call' = <<"rate">>
          \/ task' = "turn" /\ call' = <<"turn">>
          \/ task' = "disable" /\ call' = <<"disable">>
      BY <2>1, <3>1, TailsOfCalls, Zenon DEF Return
    <3> QED
      BY <3>2 DEF CallAgrees
  <2>2. CASE UNCHANGED call
    BY <2>2 DEF Inv, Goto, Return, CallAgrees, Body, EnableDriver, StartRunning,
       StartTimer, RequestRate, RateCheck, KickApply, KickAssert, KickArm, StopTiming,
       StopTimer, StopPin, DisableTiming, DisableTimer, DisablePins, TurnCheck, TurnDir,
       StopProfiled
  <2> QED
    BY <2>1, <2>2 DEF Body, EnableDriver, StartRunning,
       StartTimer, RequestRate, RateCheck, KickApply, KickAssert, KickArm, StopTiming,
       StopTimer, StopPin, DisableTiming, DisableTimer, DisablePins, TurnCheck, TurnDir,
       StopProfiled, Goto
<1>5. CallerAgrees'
  BY DEF Inv, CallAgrees, CallerAgrees, Body, EnableDriver, StartRunning, StartTimer, RequestRate,
     RateCheck, KickApply, KickAssert, KickArm, StopTiming, StopTimer, StopPin,
     DisableTiming, DisableTimer, DisablePins, TurnCheck, TurnDir, StopProfiled,
     ClearTiming, AssertStep, Goto, Return
<1>6. PeriodsAgree' /\ RatesNeedRunning'
  BY DEF Inv, PeriodsAgree, CallerAgrees, RatesNeedRunning, Quiet,
     Body, EnableDriver, StartRunning, StartTimer, RequestRate,
     RateCheck, KickApply, KickAssert, KickArm, StopTiming, StopTimer, StopPin,
     DisableTiming, DisableTimer, DisablePins, TurnCheck, TurnDir, StopProfiled,
     ClearTiming, AssertStep
<1>7. EdgesLeft'
  BY DEF Inv, EdgesLeft, CallerAgrees, ControlTypes, HistoryCap,
     Body, EnableDriver, StartRunning, StartTimer, RequestRate,
     RateCheck, KickApply, KickAssert, KickArm, StopTiming, StopTimer, StopPin,
     DisableTiming, DisableTimer, DisablePins, TurnCheck, TurnDir, StopProfiled,
     ClearTiming, AssertStep
<1>8. AlarmChain'
  BY RateAssumption DEF Inv, AlarmChain, CallerAgrees, CallAgrees, RateTypes, PeriodsAgree, RatesNeedRunning,
     Quiet, Body, EnableDriver, StartRunning, StartTimer, RequestRate,
     RateCheck, KickApply, KickAssert, KickArm, StopTiming, StopTimer, StopPin,
     DisableTiming, DisableTimer, DisablePins, TurnCheck, TurnDir, StopProfiled,
     ClearTiming, AssertStep, Goto, Return
<1> QED
  BY <1>1, <1>2, <1>3, <1>4, <1>5, <1>6, <1>7, <1>8 DEF Inv

LEMMA NextKeepsInv == ASSUME Inv, [Next]_vars PROVE Inv'
<1>1. CASE UNCHANGED vars
  <2> USE <1>1 DEF vars, timing, enables, pins
  <2>1. RateTypes' /\ FlagTypes' /\ ControlTypes' /\ PeriodsAgree'
    BY DEF Inv, RateTypes, FlagTypes, ControlTypes, PeriodsAgree
  <2>2. CallAgrees' /\ CallerAgrees'
    BY DEF Inv, CallAgrees, CallerAgrees
  <2>3. RatesNeedRunning' /\ EdgesLeft' /\ AlarmChain'
    BY DEF Inv, RatesNeedRunning, Quiet, EdgesLeft, AlarmChain
  <2> QED
    BY <2>1, <2>2, <2>3 DEF Inv
<1> QED
  BY <1>1, IsrKeepsInv, BeginKeepsInv, BodyKeepsInv DEF Next

LEMMA InvHolds == Spec => []Inv
BY InitInv, NextKeepsInv, PTL DEF Spec

---------------------------------------------------------------------------
(* The theorems.                                                           *)

\* Every variable keeps the type of the C variable it models.
THEOREM StepGenTypeCorrect == Spec => []TypeOK
<1>1. Inv => TypeOK
  <2> SUFFICES ASSUME Inv PROVE TypeOK
    OBVIOUS
  <2>1. {requested, generated, pending, active} \subseteq Rate \cup {0}
    BY DEF Inv, RateTypes
  <2>2. {immediateStop, forward, running, driverEnabled, failed, timerOn, armed,
         step, pinAsserted} \subseteq BOOLEAN
    BY DEF Inv, FlagTypes
  <2> QED
    BY <2>1, <2>2 DEF TypeOK, Inv, ControlTypes
<1> QED
  BY <1>1, InvHolds, PTL

\* No late interrupt, whatever it had read before, brings a rate back after
\* argus_step_gen_stop_immediate or argus_step_gen_disable_driver cleared it.
THEOREM StopIsFinalAlways == Spec => []StopIsFinal
<1>1. Inv => StopIsFinal
  BY DEF Inv, RatesNeedRunning, Quiet, StopIsFinal
<1> QED
  BY <1>1, InvHolds, PTL

\* A stop lets at most one more STEP edge out: that of an interrupt which was
\* past its checks when the stop began.
THEOREM AtMostOneLateEdge == Spec => []OneLateEdge
<1>1. Inv => OneLateEdge
  BY DEF Inv, CallerAgrees, ControlTypes, HistoryCap, EdgesLeft, OneLateEdge, Stopping
<1> QED
  BY <1>1, InvHolds, PTL

\* While a rate is in effect an alarm is armed on a running timer or the
\* interrupt is about to arm one: pulses never end by themselves.
THEOREM ChainStaysAlive == Spec => []ChainAlive
<1>1. Inv => ChainAlive
  BY RateAssumption DEF Inv, RateTypes, AlarmChain, ChainAlive
<1> QED
  BY <1>1, InvHolds, PTL

\* Every step of the interrupt and of the functions is a step of the contract
\* or none: a rate takes effect only while running with the driver on, a halt
\* takes all rates away at once, DIR moves only while no rate is in effect.
LEMMA StepImplementsContract ==
    ASSUME Inv, [Next]_vars
    PROVE  [Contract!ContractNext]_Contract!contractVars
<1> USE DEF timing, enables, pins, Contract!contractVars
<1>1. CASE Accept
  <2>1. CASE running /\ driverEnabled
    BY <1>1, <2>1 DEF Accept, Inv, PeriodsAgree, RatesNeedRunning, Quiet,
       Contract!ContractNext, Contract!TakeEffect
  <2>2. CASE ~(running /\ driverEnabled)
    BY <1>1, <2>2 DEF Accept, Inv, PeriodsAgree, RatesNeedRunning, Quiet
  <2> QED
    BY <2>1, <2>2
<1>2. CASE KickApply
  BY <1>2 DEF KickApply, Inv, CallerAgrees, Contract!ContractNext, Contract!TakeEffect
<1>3. CASE RequestRate \/ StopProfiled
  BY <1>3 DEF RequestRate, StopProfiled, Contract!ContractNext, Contract!Request
<1>4. CASE StopTiming \/ DisableTiming
  BY <1>4 DEF StopTiming, DisableTiming, ClearTiming, Contract!ContractNext, Contract!Halt
<1>5. CASE EnableDriver \/ StartRunning
  BY <1>5 DEF EnableDriver, StartRunning, Contract!ContractNext, Contract!Enable,
     Contract!Run
<1>6. CASE DisablePins
  BY <1>6 DEF DisablePins, Inv, CallerAgrees, Contract!ContractNext, Contract!Release
<1>7. CASE TurnDir
  BY <1>7 DEF TurnDir, Inv, CallerAgrees, RatesNeedRunning, Quiet,
     Contract!ContractNext, Contract!Turn
<1>8. CASE AlarmFires \/ Deassert \/ Guard \/ Check \/ IsrAssert \/ Rearm \/ Begin
  BY <1>8 DEF AlarmFires, Deassert, Guard, Check, IsrAssert, Rearm, Begin
<1>9. CASE StartTimer \/ RateCheck \/ KickAssert \/ KickArm \/ StopTimer \/ StopPin
            \/ DisableTimer \/ TurnCheck
  BY <1>9 DEF StartTimer, RateCheck, KickAssert, KickArm, StopTimer, StopPin,
     DisableTimer, TurnCheck
<1>10. CASE UNCHANGED vars
  BY <1>10 DEF vars
<1> QED
  BY <1>1, <1>2, <1>3, <1>4, <1>5, <1>6, <1>7, <1>8, <1>9, <1>10 DEF Next, Isr, Body

\* The step generator implements its contract.
THEOREM StepGenImplementsContract == Spec => ImplementsContract
<1>1. Init => Contract!ContractInit
  BY DEF Init, Contract!ContractInit
<1> QED
  BY <1>1, InvHolds, StepImplementsContract, PTL
     DEF Spec, ImplementsContract, Contract!ContractSpec

---------------------------------------------------------------------------
(* The rates the pulses have, and the targets that may be asked of the     *)
(* generator: TargetPath, which extends StepTiming and CommandDecode.      *)

\* Division with remainder, as argus_step_gen_set_rate_rpm_milli computes it.
LEMMA Division ==
    ASSUME NEW d \in Nat \ {0}
    PROVE  /\ Integer(d) \in Nat /\ Remainder(d) \in Nat
           /\ Remainder(d) < d
           /\ Num = Integer(d) * d + Remainder(d)
BY TimingAssumption DEF Integer, Remainder

\* Distributing the denominator over the ticks of one more step.
LEMMA Distribute ==
    ASSUME NEW t \in Nat, NEW q \in Nat, NEW d \in Nat, NEW s \in Nat, NEW n \in Nat
    PROVE  /\ (t + q) * d = t * d + q * d
           /\ (t + (q + 1)) * d = t * d + q * d + d
           /\ (t + 1) * d = t * d + d
           /\ (s + 1) * n = s * n + n
           /\ t * d \in Nat /\ q * d \in Nat /\ s * n \in Nat
OBVIOUS

\* A rate the driver accepts has a positive denominator.
LEMMA AcceptedRate ==
    ASSUME NEW rpm \in Asked, Valid(rpm)
    PROVE  /\ rpm * Spr \in Nat \ {0}
           /\ Integer(rpm * Spr) >= MinPeriod
<1>1. rpm \in Nat \ {0} /\ Spr \in Nat \ {0}
  BY TimingAssumption DEF Valid
<1>2. \A a, b \in Nat \ {0} : a * b \in Nat \ {0}
  OBVIOUS
<1> QED
  BY <1>1, <1>2 DEF Valid

\* A new rate starts with an empty account.
LEMMA NewRateAccounted ==
    ASSUME Accounted, NewRate
    PROVE  Accounted'
<1>1. PICK rpm \in Asked : Valid(rpm) /\ den' = rpm * Spr
  BY DEF NewRate
<1>2. den' \in Nat \ {0} /\ Integer(den') >= MinPeriod
  BY <1>1, AcceptedRate
<1>3. acc' = 0 /\ steps' = 0 /\ ticks' = 0 /\ nextTicks' = nextTicks
  BY DEF NewRate
<1>4. 0 * den' = 0 /\ 0 * Num = 0
  <2>1. \A k \in Nat : 0 * k = 0
    OBVIOUS
  <2>2. den' \in Nat /\ Num \in Nat
    BY <1>2, TimingAssumption
  <2> QED
    BY <2>1, <2>2
<1>5. nextTicks' \in Nat
  BY <1>3 DEF Accounted, TimingTypes
<1>6. acc' < den'
  BY <1>2, <1>3
<1>7. ticks' * den' + acc' = steps' * Num
  <2>1. ticks' * den' = 0 /\ steps' * Num = 0
    BY <1>3, <1>4, Zenon
  <2> QED
    BY <1>3, <2>1
<1>8. Integer(den)' >= MinPeriod
  BY <1>2 DEF Integer
<1>9. TimingTypes'
  BY <1>2, <1>3, <1>5 DEF TimingTypes
<1>10. steps' = 0 /\ den' # 0
  BY <1>2, <1>3
<1> QED
  BY <1>6, <1>7, <1>8, <1>9, <1>10 DEF Accounted

\* Asserting a step adds the exact period to the account.
LEMMA AssertStepAccounted ==
    ASSUME Accounted, AssertPhase
    PROVE  Accounted'
<1> DEFINE q == Integer(den)
           r == Remainder(den)
<1>1. den \in Nat \ {0} /\ den' = den /\ steps' = steps + 1
  BY DEF AssertPhase, Accounted, TimingTypes
<1>2. q \in Nat /\ r \in Nat /\ r < den /\ Num = q * den + r
  BY <1>1, Division
<1>3. /\ acc \in Nat /\ acc < den /\ steps \in Nat /\ ticks \in Nat
      /\ ticks * den + acc = steps * Num /\ q >= MinPeriod
  BY <1>1 DEF Accounted, TimingTypes
<1>4. Num \in Nat /\ MinPeriod \in Nat
  BY TimingAssumption
<1>5. /\ (ticks + q) * den = ticks * den + q * den
      /\ (ticks + (q + 1)) * den = ticks * den + q * den + den
      /\ (steps + 1) * Num = steps * Num + Num
      /\ ticks * den \in Nat /\ q * den \in Nat /\ steps * Num \in Nat
  BY <1>1, <1>2, <1>3, <1>4, Distribute
<1>6. Integer(den') = q
  BY <1>1
<1>7. CASE Carry
  <2>1. acc' = acc + r - den /\ nextTicks' = q + 1 /\ acc + r >= den
    BY <1>7 DEF AssertPhase, Carry
  <2>2. ticks' = ticks + (q + 1)
    BY <2>1 DEF AssertPhase
  <2>3. acc' \in Nat /\ acc' < den
    BY <2>1, <1>1, <1>2, <1>3
  <2>4. ticks' * den' = ticks * den + q * den + den
    BY <2>2, <1>5, <1>1
  <2>5. steps' * Num = steps * Num + Num
    BY <1>5, <1>1
  <2> HIDE DEF q, r
  <2>6. ticks' * den' + acc' = steps' * Num
    BY <2>1, <2>3, <2>4, <2>5, <1>1, <1>2, <1>3, <1>4, <1>5
  <2>7. nextTicks' \in Nat /\ nextTicks' >= MinPeriod /\ ticks' \in Nat /\ steps' \in Nat
    BY <2>1, <2>2, <1>1, <1>2, <1>3, <1>4
  <2> QED
    BY <2>3, <2>6, <2>7, <1>1, <1>3, <1>6 DEF Accounted, TimingTypes
<1>8. CASE ~Carry
  <2>1. acc' = acc + r /\ nextTicks' = q /\ ~(acc + r >= den)
    BY <1>8 DEF AssertPhase, Carry
  <2>2. ticks' = ticks + q
    BY <2>1 DEF AssertPhase
  <2>3. acc' \in Nat /\ acc' < den
    BY <2>1, <1>1, <1>2, <1>3
  <2>4. ticks' * den' = ticks * den + q * den
    BY <2>2, <1>5, <1>1
  <2>5. steps' * Num = steps * Num + Num
    BY <1>5, <1>1
  <2> HIDE DEF q, r
  <2>6. ticks' * den' + acc' = steps' * Num
    BY <2>1, <2>3, <2>4, <2>5, <1>1, <1>2, <1>3, <1>4, <1>5
  <2>7. nextTicks' \in Nat /\ nextTicks' >= MinPeriod /\ ticks' \in Nat /\ steps' \in Nat
    BY <2>1, <2>2, <1>1, <1>2, <1>3, <1>4
  <2> QED
    BY <2>3, <2>6, <2>7, <1>1, <1>3, <1>6 DEF Accounted, TimingTypes
<1> QED
  BY <1>7, <1>8

\* Every step of the step timing keeps the account.
LEMMA AccountStep ==
    ASSUME Accounted, [TimingNext]_timingVars
    PROVE  Accounted'
<1>1. CASE UNCHANGED timingVars
  BY <1>1 DEF Accounted, TimingTypes, timingVars, Integer
<1> QED
  BY <1>1, NewRateAccounted, AssertStepAccounted DEF TimingNext

\* The account says how far the pulses are from the exact rate.
LEMMA AccountIsExact == Accounted => ExactRate
<1> SUFFICES ASSUME Accounted, den > 0
             PROVE  ticks * den <= steps * Num /\ steps * Num < (ticks + 1) * den
  BY DEF ExactRate
<1>1. den \in Nat /\ ticks \in Nat /\ acc \in Nat /\ steps \in Nat
  BY DEF Accounted, TimingTypes
<1>2. acc < den /\ ticks * den + acc = steps * Num
  BY DEF Accounted
<1>3. (ticks + 1) * den = ticks * den + den /\ ticks * den \in Nat
  BY <1>1, Distribute
<1> QED
  BY <1>1, <1>2, <1>3

\* The account balances in every reachable state: scheduled ticks and the
\* accumulator together are the exact time of the steps asserted.
THEOREM AccountBalances == TimingSpec => []Accounted
<1>1. TimingInit => Accounted
  BY TimingAssumption DEF TimingInit, Accounted, TimingTypes
<1>2. Accounted /\ [TimingNext]_timingVars => Accounted'
  BY AccountStep
<1> QED
  BY <1>1, <1>2, PTL DEF TimingSpec

\* The inactive level of STEP lasts at least its minimum, and the ISR's guard
\* against a period shorter than the pulse never acts.
THEOREM InactiveIsLongEnough == TimingSpec => []InactiveLongEnough
<1>1. Accounted => InactiveLongEnough
  BY TimingAssumption DEF Accounted, TimingTypes, InactiveLongEnough, InactiveTicks
<1>2. TimingSpec => []Accounted
  BY AccountBalances
<1> QED
  BY <1>1, <1>2, PTL

---------------------------------------------------------------------------
(* A target on its way from the body of a command to the pulses.           *)

\* The decoders' candidate, with no more than the greatest target.
RequestTyped ==
    request \in [command : CommandNames \cup {"none"}, target : 0 .. MaxTarget,
                 forward : BOOLEAN, sequence : Nat, epoch : Nat]

\* What is carried from the digits read to the target in force, and the rates.
PathInv ==
    /\ Accounted
    /\ number \in Nat /\ RequestTyped /\ top \in 0 .. MaxTarget

\* Each digit is worth a natural number.
LEMMA DigitsHaveValues == \A d \in DOMAIN DigitValue : DigitValue[d] \in Nat
<1> DEFINE D == {"0", "1", "2", "3", "4", "5", "6", "7", "8", "9"}
<1>1. DOMAIN DigitValue = D
  BY DEF DigitValue
<1>2. \A d \in D : DigitValue[d] \in Nat
  BY DEF DigitValue
<1> QED
  BY <1>1, <1>2

\* The digits of a number keep it a natural number, the accumulator of
\* parse_target_value and parse_u32 being unsigned.
LEMMA DigitRead ==
    ASSUME number \in Nat, NEW t \in Digits,
           FirstDigit(t) \/ MoreDigits(t)
    PROVE  number' \in Nat /\ request' = request
<1>1. DigitValue[t] \in Nat
  BY DigitsHaveValues, PathAssumption
<1>2. CASE FirstDigit(t)
  BY <1>1, <1>2 DEF FirstDigit
<1>3. CASE MoreDigits(t)
  <2>1. PICK v \in Nat : v = DigitValue[t]
    BY <1>1
  <2>2. Width \in Nat \ {0}
    BY PathAssumption DEF Width
  <2>3. \A n, w \in Nat : w # 0 => n % w \in Nat
    OBVIOUS
  <2>4. number * 10 + v \in Nat
    OBVIOUS
  <2>5. number' = (number * 10 + v) % Width /\ request' = request
    BY <1>3, <2>1 DEF MoreDigits
  <2> QED
    BY <2>2, <2>3, <2>4, <2>5
<1> QED
  BY <1>2, <1>3

\* A member is taken over or refused; the number is left alone.
LEMMA MemberTaken ==
    ASSUME NEW place, NEW r, Took(place, r)
    PROVE  number' = number /\ (request' = request \/ request' = r)
BY DEF Took, MoveTo

\* A number that ends is the target only within the range of one: TargetEnds
\* of the browser decoder, MqttNumberEnds of the other.
LEMMA NumberEnds ==
    ASSUME RequestTyped, number \in Nat, NEW t,
           TargetEnds(t) \/ MqttNumberEnds(t)
    PROVE  number' = number /\ RequestTyped'
<1>1. CASE request' = request /\ number' = number
  BY <1>1 DEF RequestTyped
<1>2. CASE number' = number /\ TargetInRange /\ request' = [request EXCEPT !.target = number]
  BY <1>2, PathAssumption DEF RequestTyped, TargetInRange
<1>3. CASE number' = number /\ request' = [request EXCEPT !.sequence = number]
  BY <1>3 DEF RequestTyped
<1>4. CASE number' = number /\ request' = [request EXCEPT !.epoch = number]
  BY <1>4 DEF RequestTyped
<1>5. CASE TargetEnds(t)
  BY <1>1, <1>2, <1>5 DEF TargetEnds, Took, MoveTo
<1>6. CASE MqttNumberEnds(t)
  <2>1. CASE BadValue
    BY <1>1, <2>1 DEF BadValue, MoveTo
  <2>2. CASE ~BadValue /\ field = "value"
    BY <1>1, <1>2, <1>6, <2>2, MemberTaken DEF MqttNumberEnds
  <2>3. CASE ~BadValue /\ field = "sequence"
    BY <1>1, <1>3, <1>6, <2>3, MemberTaken DEF MqttNumberEnds
  <2>4. CASE ~BadValue /\ field # "value" /\ field # "sequence"
    BY <1>1, <1>4, <1>6, <2>4, MemberTaken DEF MqttNumberEnds
  <2> QED
    BY <2>1, <2>2, <2>3, <2>4
<1> QED
  BY <1>5, <1>6

\* One token more leaves the candidate within its limits.
LEMMA ReadTyped ==
    ASSUME RequestTyped, number \in Nat, NEW t, Read(t)
    PROVE  number' \in Nat /\ RequestTyped'
<1>1. CASE number' \in Nat /\ request' = request
  BY <1>1 DEF RequestTyped
<1>2. CASE Skip(t) \/ Open(t) \/ Key(t) \/ Colon(t)
           \/ Separator(t) \/ Close(t)
  <2>1. ASSUME NEW place, MoveTo(place) PROVE number' = number /\ request' = request
    BY <2>1 DEF MoveTo
  <2>2. request' = request /\ (number' = number \/ number' = 0)
    BY <1>2, <2>1 DEF Skip, Open, Key, Colon, Separator, Close
  <2> QED
    BY <1>1, <2>2
<1>3. CASE CommandValue(t)
  <2>1. CASE /\ StringText(t) \in CommandNames
             /\ Took("after", [request EXCEPT !.command = StringText(t)])
    <3>1. CASE /\ number' = number
               /\ request' = [request EXCEPT !.command = StringText(t)]
      BY <2>1, <3>1 DEF RequestTyped
    <3> QED
      BY <1>1, <2>1, <3>1, MemberTaken
  <2>2. CASE \E place : MoveTo(place)
    BY <1>1, <2>2 DEF MoveTo
  <2> QED
    BY <1>3, <2>1, <2>2 DEF CommandValue
<1>4. CASE ForwardValue(t)
  <2>1. CASE Took("word", [request EXCEPT !.forward = (t = "true")])
    <3>1. CASE number' = number /\ request' = [request EXCEPT !.forward = (t = "true")]
      <4>1. PICK b \in BOOLEAN : b = (t = "true")
        OBVIOUS
      <4>2. request' = [request EXCEPT !.forward = b]
        BY <3>1, <4>1, Zenon
      <4> QED
        BY <3>1, <4>2 DEF RequestTyped
    <3> QED
      BY <1>1, <2>1, <3>1, MemberTaken
  <2>2. CASE \E place : MoveTo(place)
    BY <1>1, <2>2 DEF MoveTo
  <2> QED
    BY <1>4, <2>1, <2>2 DEF ForwardValue
<1>5. CASE MqttText(t) \/ MqttTrue(t)
  BY <1>1, <1>5, MemberTaken DEF MqttText, MqttTrue, BadValue, MoveTo
<1>6. CASE TargetValue(t)
  <2>1. CASE t \in Digits /\ (FirstDigit(t) \/ MoreDigits(t))
    BY <1>1, <2>1, DigitRead
  <2>2. CASE TargetEnds(t)
    BY <2>2, NumberEnds
  <2>3. CASE number' = number /\ request' = request
    BY <1>1, <2>3
  <2> QED
    BY <1>6, <2>1, <2>2, <2>3 DEF TargetValue, MoveTo
<1>7. CASE MqttNumber(t)
  <2>1. CASE t \in Digits /\ (FirstDigit(t) \/ MoreDigits(t))
    BY <1>1, <2>1, DigitRead
  <2>2. CASE MqttNumberEnds(t)
    BY <2>2, NumberEnds
  <2>3. CASE BadValue
    BY <1>1, <2>3 DEF BadValue, MoveTo
  <2> QED
    BY <1>7, <2>1, <2>2, <2>3 DEF MqttNumber
<1> QED
  BY <1>2, <1>3, <1>4, <1>5, <1>6, <1>7 DEF Read

\* An answered command leaves an empty candidate.
LEMMA AnsweredTyped ==
    ASSUME NEW status, Answered(status)
    PROVE  number' \in Nat /\ RequestTyped'
BY PathAssumption DEF Answered, NoRequest, CommandNames, RequestTyped

\* Every step of a target's way keeps the account and the limits.
LEMMA PathStep ==
    ASSUME PathInv,
           [PathNext]_<<decodeVars, pathVars, timingVars>>
    PROVE  PathInv'
<1> DEFINE still == UNCHANGED timingVars
<1>1. still => Accounted'
  BY AccountStep DEF PathInv
<1>2. CASE UNCHANGED <<decodeVars, pathVars, timingVars>>
  BY <1>1, <1>2 DEF PathInv, RequestTyped, decodeVars, pathVars
<1>3. CASE Receive
  BY <1>1, <1>3 DEF PathInv, RequestTyped, Receive, MoveTo, pathVars
<1>4. CASE ReceiveFails \/ PayloadRefused \/ Refuse \/ Forbid
           \/ NotAdmitted
  <2>1. top' = top /\ still /\ \E status : Answered(status)
    BY <1>4 DEF ReceiveFails, PayloadRefused, Refuse, Forbid,
                NotAdmitted
  <2> QED
    BY <1>1, <2>1, AnsweredTyped DEF PathInv
<1>5. CASE Admit
  <2>1. top' = top \/ top' = request.target
    BY <1>5 DEF Admit
  <2>2. top' \in 0 .. MaxTarget
    BY <2>1 DEF PathInv, RequestTyped
  <2>3. still /\ Answered(200)
    BY <1>5 DEF Admit
  <2> QED
    BY <1>1, <2>2, <2>3, AnsweredTyped DEF PathInv
<1>6. CASE Decode
  <2>1. PICK t \in Tokens(iface) : Read(t)
    BY <1>6 DEF Decode
  <2>2. still /\ top' = top
    BY <1>6 DEF Decode, pathVars
  <2> QED
    BY <1>1, <2>1, <2>2, ReadTyped DEF PathInv
<1>7. CASE Drive
  <2>1. TimingNext /\ number' = number /\ request' = request /\ top' = top
    BY <1>7 DEF Drive, TimingNext, decodeVars, pathVars
  <2> QED
    BY <2>1, AccountStep DEF PathInv, RequestTyped
<1> QED
  BY <1>2, <1>3, <1>4, <1>5, <1>6, <1>7 DEF PathNext

\* What holds on the way of every target.
THEOREM PathInvHolds == PathSpec => []PathInv
<1>1. PathInit => PathInv
  <2> SUFFICES ASSUME PathInit PROVE PathInv
    OBVIOUS
  <2>1. Accounted
    BY TimingAssumption DEF PathInit, TimingInit, Accounted, TimingTypes
  <2>2. RequestTyped /\ number \in Nat /\ top \in 0 .. MaxTarget
    BY PathAssumption DEF PathInit, NoRequest, CommandNames, RequestTyped
  <2> QED
    BY <2>1, <2>2 DEF PathInv
<1>2. PathInv /\ [PathNext]_<<decodeVars, pathVars, timingVars>>
        => PathInv'
  BY PathStep
<1> QED
  BY <1>1, <1>2, PTL DEF PathSpec

\* After any number of steps the pulse train is less than one tick away from
\* the exact rate that argus_step_gen_set_rate_rpm_milli was given, whatever
\* command the rates come from.
THEOREM RateIsExact == PathSpec => []ExactRate
<1>1. PathInv => ExactRate
  BY AccountIsExact DEF PathInv
<1>2. PathSpec => []PathInv
  BY PathInvHolds
<1> QED
  BY <1>1, <1>2, PTL

\* A smaller target has no shorter a period.
LEMMA PeriodIsMonotone ==
    ASSUME NEW a \in Nat \ {0}, NEW b \in Nat, a <= b
    PROVE  Integer(b * Spr) <= Integer(a * Spr)
<1> DEFINE da == a * Spr
           db == b * Spr
           qa == Integer(da)
           qb == Integer(db)
<1>1. Spr \in Nat \ {0} /\ Num \in Nat
  BY TimingAssumption
<1>2. \A x, y \in Nat \ {0} : x * y \in Nat \ {0}
  OBVIOUS
<1>3. \A x, y, k \in Nat : x <= y => x * k <= y * k
  OBVIOUS
<1>4. \A x, y, k \in Nat : x <= y => k * x <= k * y
  OBVIOUS
<1>5. da \in Nat \ {0} /\ db \in Nat \ {0} /\ da <= db
  BY <1>1, <1>2, <1>3
<1> HIDE DEF da, db
<1>6. /\ qa \in Nat /\ Num = qa * da + Remainder(da) /\ Remainder(da) < da
      /\ qb \in Nat /\ Num = qb * db + Remainder(db) /\ Remainder(db) \in Nat
      /\ Remainder(da) \in Nat
  BY <1>5, Division
<1> HIDE DEF qa, qb
<1>7. qb * da <= qb * db /\ qb * da \in Nat /\ qb * db \in Nat /\ qa * da \in Nat
  BY <1>4, <1>5, <1>6
<1>8. qb * da < qa * da + da
  BY <1>1, <1>5, <1>6, <1>7
<1>9. CASE qb >= qa + 1
  <2>1. (qa + 1) * da <= qb * da
    BY <1>3, <1>5, <1>6, <1>9
  <2>2. (qa + 1) * da = qa * da + da
    BY <1>5, <1>6, Distribute
  <2> QED
    BY <1>5, <1>7, <1>8, <2>1, <2>2
<1>10. CASE ~(qb >= qa + 1)
  BY <1>6, <1>10 DEF qa, qb, da, db
<1> QED
  BY <1>9, <1>10

\* Every target the browser's or the MQTT decoder lets through and the router
\* admits is a rate argus_step_gen_set_rate_rpm_milli accepts: the limits of
\* the two ends agree for every clock and gearing whose greatest target runs.
THEOREM AcceptedTargetsRun == PathSpec => []AcceptedTargetRuns
<1>1. PathInv => AcceptedTargetRuns
  <2> SUFFICES ASSUME PathInv, top # 0 PROVE Valid(top)
    BY DEF AcceptedTargetRuns
  <2>1. /\ top \in Nat \ {0} /\ top <= MaxTarget /\ MaxTarget \in Nat
        /\ MaxRate \in Nat /\ MaxTarget <= MaxRate
    BY PathAssumption, TimingAssumption DEF PathInv
  <2>2. Integer(MaxTarget * Spr) <= Integer(top * Spr)
    BY <2>1, PeriodIsMonotone
  <2>3. Integer(top * Spr) \in Nat /\ Integer(MaxTarget * Spr) \in Nat
    <3>1. \A x, y \in Nat \ {0} : x * y \in Nat \ {0}
      OBVIOUS
    <3>2. top * Spr \in Nat \ {0} /\ MaxTarget * Spr \in Nat \ {0}
      BY <2>1, <3>1, TimingAssumption, PathAssumption
    <3> QED
      BY <3>2, Division
  <2>4. Integer(MaxTarget * Spr) >= MinPeriod /\ MinPeriod \in Nat
    BY PathAssumption, TimingAssumption
  <2> QED
    BY <2>1, <2>2, <2>3, <2>4 DEF Valid
<1>2. PathSpec => []PathInv
  BY PathInvHolds
<1> QED
  BY <1>1, <1>2, PTL
============================================================================
