---------------------------- MODULE StepTiming ----------------------------
(***************************************************************************)
(* The arithmetic of argus_step_gen.c: how a rate becomes a period of      *)
(* timer ticks, and how the ISR spreads the fraction of that period over   *)
(* successive steps.  A rate r has the exact period Num / (r * Spr) ticks; *)
(* the ISR waits whole ticks and carries the remainder in an accumulator.  *)
(***************************************************************************)
EXTENDS Integers

CONSTANTS
    Num,         \* 600000000000: ticks per minute, times 1000
    Spr,         \* steps per output revolution
    MaxRate,     \* 200000 mRPM
    MinPeriod,   \* 300 ticks, both levels of STEP at their minimum
    PulseWidth,  \* 150 ticks, the active level of STEP
    Asked,       \* rates the caller asks for
    MaxSteps     \* bound on the steps counted at one rate

ASSUME TimingAssumption ==
    /\ Num \in Nat /\ Spr \in Nat \ {0} /\ MaxRate \in Nat
    /\ PulseWidth \in Nat \ {0} /\ MinPeriod \in Nat /\ MinPeriod > PulseWidth
    /\ Asked \subseteq Int /\ MaxSteps \in Nat

VARIABLES
    den,        \* s_active_timing.denominator, 0 before the first rate
    acc,        \* s_rem_accumulator
    nextTicks,  \* s_next_step_ticks
    steps,      \* steps asserted since the rate came into effect
    ticks       \* the ticks scheduled for them

timingVars == <<den, acc, nextTicks, steps, ticks>>

Integer(d) == Num \div d
Remainder(d) == Num % d

\* argus_step_gen_set_rate_rpm_milli accepts the rate.
Valid(rpm) ==
    /\ 1 <= rpm /\ rpm <= MaxRate
    /\ Integer(rpm * Spr) >= MinPeriod

TimingInit == den = 0 /\ acc = 0 /\ nextTicks = 0 /\ steps = 0 /\ ticks = 0

\* A new rate comes into effect and the accumulator starts again.
NewRate ==
    \E rpm \in Asked :
        /\ Valid(rpm)
        /\ den' = rpm * Spr
        /\ acc' = 0 /\ steps' = 0 /\ ticks' = 0
        /\ UNCHANGED nextTicks

\* Mutant: a full denominator is not carried.
CarryMutant == acc + Remainder(den) > den

Carry == acc + Remainder(den) >= den

\* The ISR's ASSERT phase.
AssertPhase ==
    /\ den > 0 /\ steps < MaxSteps
    /\ acc' = IF Carry THEN acc + Remainder(den) - den ELSE acc + Remainder(den)
    /\ nextTicks' = IF Carry THEN Integer(den) + 1 ELSE Integer(den)
    /\ ticks' = ticks + nextTicks'
    /\ steps' = steps + 1
    /\ UNCHANGED den

TimingNext == NewRate \/ AssertPhase

TimingSpec == TimingInit /\ [][TimingNext]_timingVars

\* The ISR's DEASSERT phase: how long STEP stays inactive.
InactiveTicks == IF nextTicks > PulseWidth THEN nextTicks - PulseWidth ELSE 1

---------------------------------------------------------------------------
\* The types of the variables; the accumulator and the tick counts of the
\* driver are unsigned and never go below zero.
TimingTypes ==
    /\ den \in Nat /\ acc \in Nat /\ nextTicks \in Nat
    /\ steps \in Nat /\ ticks \in Nat

\* The pulse train keeps the exact rate for ever: after any number of steps
\* the scheduled ticks are the exact time rounded down, so the error never
\* accumulates to a tick.
ExactRate ==
    den > 0 => /\ ticks * den <= steps * Num
               /\ steps * Num < (ticks + 1) * den

\* Every step leaves STEP inactive for the minimum time, and the guard of the
\* ISR against a shorter period never has to act.
InactiveLongEnough ==
    steps > 0 => InactiveTicks >= MinPeriod - PulseWidth /\ nextTicks > PulseWidth

\* What the accumulator holds, exactly; the inductive invariant.
Accounted ==
    /\ TimingTypes
    /\ den > 0 => /\ acc < den
                  /\ ticks * den + acc = steps * Num
                  /\ Integer(den) >= MinPeriod
    /\ den = 0 => steps = 0
    /\ steps > 0 => nextTicks >= MinPeriod
===========================================================================
