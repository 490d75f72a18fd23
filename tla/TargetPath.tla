---------------------------- MODULE TargetPath ----------------------------
(***************************************************************************)
(* The way of a target from the bytes of a command to the pulse train: the *)
(* handler of POST /api/command (argus_http_server.c) or the MQTT command  *)
(* worker receives and decodes one command (CommandDecode), an admitted    *)
(* SET_TARGET becomes the limit of the rates the trajectory asks for, and  *)
(* the step generator times its steps at these rates (StepTiming).         *)
(* Admission, the state manager and the ramp between two rates are the     *)
(* business of Lifecycle, MqttRuntime and Trajectory: here a decoded       *)
(* command is admitted or not, and any rate up to the target is asked for. *)
(* One command per behaviour; the pump runs after it.                      *)
(***************************************************************************)
EXTENDS StepTiming, CommandDecode

\* The greatest target is a rate of the step generator.  argus_config.c sets
\* 200 steps * 4 microsteps * gear 10 and at most 200000 mRPM, the limit of
\* argus_browser_command.h too: 600000000000 \div (200000 * 8000) = 375 ticks,
\* more than the 300 of the shortest period.
ASSUME PathAssumption ==
    /\ Digits \subseteq DOMAIN DigitValue
    /\ MaxTarget \in Nat \ {0} /\ U32Max \in Nat /\ U64Max \in Nat
    /\ MaxTarget <= MaxRate /\ Integer(MaxTarget * Spr) >= MinPeriod

VARIABLES
    reply,  \* the HTTP status (of MQTT, its equivalent), 0 before the response
    top     \* the target the state manager accepted

pathVars == <<reply, top>>

PathInit ==
    /\ TimingInit
    /\ iface \in {"browser", "mqtt"} /\ topic \in {"set_target", "start"}
    /\ iface = "browser" => topic = "set_target"
    /\ script \in {<<>>} \cup Scripts(iface, topic)
    /\ body = <<>> /\ at = "receive" /\ seen = {} /\ field = "none"
    /\ negative = FALSE /\ number = 0 /\ request = NoRequest
    /\ reply = 0 /\ top = 0

\* The decoder's variables once the command is answered.
Answered(status) ==
    /\ reply' = status /\ at' = "answered"
    /\ script' = <<>> /\ body' = <<>> /\ seen' = {} /\ field' = "none"
    /\ negative' = FALSE /\ number' = 0 /\ request' = NoRequest
    /\ UNCHANGED <<iface, topic>>

\* argus_browser_command_receive_body: the whole body arrives.  An MQTT payload
\* is complete when the worker gets it.
Receive ==
    /\ at = "receive" /\ MoveTo("start")
    /\ UNCHANGED <<iface, topic, script, body, pathVars, timingVars>>

\* validate_payload: no payload, too long a payload, or a zero byte in it.
PayloadRefused ==
    /\ at = "receive" /\ iface = "mqtt"
    /\ Answered(400) /\ UNCHANGED <<top, timingVars>>

\* It does not: no body, too long a body, a timeout, an early end or an error.
\* argus_browser_command_receive_disposition answers 400 in each case.
ReceiveFails ==
    /\ at = "receive" /\ iface = "browser"
    /\ Answered(400) /\ UNCHANGED <<top, timingVars>>

Decode ==
    /\ \E t \in Tokens(iface) : Offered(t) /\ Read(t)
    /\ UNCHANGED <<pathVars, timingVars>>

\* A body that does not decode.
Refuse ==
    /\ at \in Refusals
    /\ Answered(400) /\ UNCHANGED <<top, timingVars>>

\* command_post_handler: the principal lacks the permission of the command
\* (command_capability), which Portal keeps.
Forbid ==
    /\ at = "OK" /\ iface = "browser"
    /\ Answered(403) /\ UNCHANGED <<top, timingVars>>

\* argus_browser_command_endpoint_process: the device is not in browser service
\* (403), the router refuses (409) or fails (500).
NotAdmitted ==
    /\ at = "OK"
    /\ \E status \in {403, 409, 500} : Answered(status)
    /\ UNCHANGED <<top, timingVars>>

\* The router dispatches the command.
Admit ==
    /\ at = "OK"
    /\ top' = IF (iface = "browser" /\ request.command = "set_target")
                 \/ (iface = "mqtt" /\ topic = "set_target") THEN request.target ELSE top
    /\ Answered(200) /\ UNCHANGED timingVars

\* The trajectory asks for a rate on the way to the target, and the ISR steps.
Drive ==
    /\ at = "answered"
    /\ (NewRate /\ den' <= top * Spr) \/ AssertPhase
    /\ UNCHANGED <<decodeVars, pathVars>>

PathNext ==
    \/ Receive \/ ReceiveFails \/ PayloadRefused \/ Decode \/ Refuse \/ Forbid \/ NotAdmitted \/ Admit \/ Drive

PathSpec == PathInit /\ [][PathNext]_<<decodeVars, pathVars, timingVars>>

---------------------------------------------------------------------------
\* Every target either interface lets through is one the step generator can run
\* at: the decoders' limit and the step generator's limits agree, so the pump
\* never holds a target that argus_step_gen_set_rate_rpm_milli refuses.
AcceptedTargetRuns == top = 0 \/ Valid(top)
===========================================================================
