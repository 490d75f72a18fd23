--------------------------- MODULE PulseContract ---------------------------
(***************************************************************************)
(* What the step generator promises to the trajectory engine, leaving out  *)
(* the timer, the interrupt and the pins: a rate comes into effect only    *)
(* after it was requested, a stop takes every rate away at once, and the   *)
(* direction turns only while no rate is in effect.                        *)
(***************************************************************************)
EXTENDS Naturals

CONSTANT Rate  \* the rates that can be asked for, all positive

VARIABLES requested, generated, running, driverEnabled, forward

contractVars == <<requested, generated, running, driverEnabled, forward>>

ContractInit ==
    /\ requested = 0 /\ generated = 0
    /\ running = TRUE /\ driverEnabled = FALSE /\ forward = TRUE

Enable ==
    driverEnabled' = TRUE /\ UNCHANGED <<requested, generated, running, forward>>

Run ==
    running' = TRUE /\ UNCHANGED <<requested, generated, driverEnabled, forward>>

Request ==
    /\ \E r \in Rate \cup {0} : requested' = r
    /\ UNCHANGED <<generated, running, driverEnabled, forward>>

TakeEffect ==
    /\ running /\ driverEnabled
    /\ generated' = requested
    /\ UNCHANGED <<requested, running, driverEnabled, forward>>

Halt ==
    /\ running' = FALSE /\ requested' = 0 /\ generated' = 0
    /\ UNCHANGED <<driverEnabled, forward>>

Release ==
    /\ ~running /\ driverEnabled' = FALSE
    /\ UNCHANGED <<requested, generated, running, forward>>

Turn ==
    /\ generated = 0
    /\ forward' \in BOOLEAN
    /\ UNCHANGED <<requested, generated, running, driverEnabled>>

ContractNext ==
    \/ Enable \/ Run \/ Request \/ TakeEffect \/ Halt \/ Release \/ Turn

ContractSpec == ContractInit /\ [][ContractNext]_contractVars
===========================================================================
