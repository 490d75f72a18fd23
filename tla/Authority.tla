----------------------------- MODULE Authority -----------------------------
(***************************************************************************)
(* argus_authority_mgr.c: who may move the pump.  The authority is one     *)
(* record, replaced under s_auth_mutex; every replacement gets a new       *)
(* generation, and a command carries the generation it was built under.    *)
(***************************************************************************)
EXTENDS Naturals

Modes == {"NONE", "SUPERVISORY", "SERVICE_TRANSITION", "LOCAL_SERVICE"}
Owners == {"NONE", "MQTT", "BROWSER", "DIAGNOSTIC_CLI"}

\* Where commands come from: the MQTT runtime, the portal, the console.
Sources == {"mqtt", "http", "cli"}

\* argus_authority_validate_pair
ValidPair(mode, owner) ==
    CASE mode \in {"NONE", "SERVICE_TRANSITION"} -> owner = "NONE"
      [] mode = "SUPERVISORY"   -> owner = "MQTT"
      [] mode = "LOCAL_SERVICE" -> owner \in {"BROWSER", "DIAGNOSTIC_CLI"}

\* argus_authority_mgr_set_mode, which every caller below gives a valid pair
SetMode(a, mode, owner) ==
    IF ValidPair(mode, owner)
    THEN [mode |-> mode, owner |-> owner, generation |-> a.generation + 1]
    ELSE a

\* Mutant: a revocation that only outdates the envelopes.
RevokedMutant(a) == [a EXCEPT !.generation = @ + 1]

Revoked(a) == SetMode(a, "NONE", "NONE")

\* argus_authority_grant_local_service: the grant, or the abort it makes when
\* the transition it belongs to has been revoked meanwhile
GrantLocal(a, owner) ==
    IF a.mode = "SERVICE_TRANSITION" THEN SetMode(a, "LOCAL_SERVICE", owner)
                                     ELSE Revoked(a)

\* argus_authority_validate_permission, for the commands that are no E-stop
Permitted(a, source) ==
    \/ a.mode = "SUPERVISORY" /\ a.owner = "MQTT" /\ source = "mqtt"
    \/ /\ a.mode = "LOCAL_SERVICE"
       /\ \/ source = "http" /\ a.owner = "BROWSER"
          \/ source = "cli" /\ a.owner = "DIAGNOSTIC_CLI"

AuthorityType ==
    [mode : Modes, owner : Owners, generation : Nat]
===========================================================================
