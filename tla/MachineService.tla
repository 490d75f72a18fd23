--------------------------- MODULE MachineService ---------------------------
(***************************************************************************)
(* The records of enrolled machines and what the machine service does with *)
(* them (argus_machine_service.c): the administrative operations, each of  *)
(* which replaces the record in one commit of the machine directory, and   *)
(* the two questions the broker asks: does a credential authenticate, and  *)
(* is an authenticated principal still the one in the directory.           *)
(*                                                                         *)
(* A record is there or not; enabled; revoked; cred is the version of its  *)
(* secret and rev its revision, which every change advances.  Names,       *)
(* scopes, transports and permissions are left out: set_permissions is a   *)
(* change of the revision, and a request the actor may not make is simply  *)
(* not made.  The identifiers are random, so none is enrolled twice.       *)
(***************************************************************************)
EXTENDS Integers, FiniteSets

Absent == [there |-> FALSE, enabled |-> FALSE, revoked |-> FALSE, cred |-> 0, rev |-> 0]

\* argus_machine_service_enroll.
Enroll == [there |-> TRUE, enabled |-> TRUE, revoked |-> FALSE, cred |-> 1, rev |-> 1]

\* argus_machine_service_rotate: also of a disabled or revoked machine.
Rotate(r) == [r EXCEPT !.cred = @ + 1, !.rev = @ + 1]

\* argus_machine_service_set_enabled.
SetEnabled(r, on) == [r EXCEPT !.enabled = on, !.rev = @ + 1]

\* argus_machine_service_set_permissions.
SetPermissions(r) == [r EXCEPT !.rev = @ + 1]

\* argus_machine_service_revoke.
Revoke(r) == [r EXCEPT !.enabled = FALSE, !.revoked = TRUE, !.cred = @ + 1, !.rev = @ + 1]

\* argus_machine_service_delete.
Delete(r) == Absent

\* argus_machine_service_quarantine_undisclosed.
Quarantine(r) == [r EXCEPT !.enabled = FALSE, !.rev = @ + 1]

Operations == {"rotate", "enable", "disable", "permissions", "revoke", "delete"}

\* mutable_target, and each operation's own condition.
MutableTarget(op, r) ==
    /\ r.there
    /\ op \in {"enable", "permissions"} => ~r.revoked
    /\ op = "delete" => r.revoked

\* The operation machine_action_post calls.
Mutate(op, r) ==
    CASE op = "rotate" -> Rotate(r)
      [] op = "enable" -> SetEnabled(r, TRUE)
      [] op = "disable" -> SetEnabled(r, FALSE)
      [] op = "permissions" -> SetPermissions(r)
      [] op = "revoke" -> Revoke(r)
      [] op = "delete" -> Delete(r)

\* argus_machine_service_authenticate's decision on the record it found.
Authenticates(r, cred) == r.there /\ r.enabled /\ ~r.revoked /\ r.cred = cred

\* principal_from_record.
PrincipalFromRecord(m, r) == [id |-> m, cred |-> r.cred, rev |-> r.rev]

\* argus_machine_service_revalidate.
Revalidate(r, p) == r.enabled /\ ~r.revoked /\ r.cred = p.cred /\ r.rev = p.rev
=============================================================================
