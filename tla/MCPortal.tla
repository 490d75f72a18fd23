----------------------------- MODULE MCPortal -----------------------------
(* Instances of Portal for TLC. *)
EXTENDS Portal

\* Accounts and roles over a long history; the log works.
AccountsScenario == [ops |-> {"login"} \cup AccountOps \cup RoleOps, records |-> 12, faults |-> 0]
\* Sessions of the console, every request but those about accounts.
SessionScenario == [ops |-> {"login", "logout", "reauth", "get", "time", "self_password",
                             "ap_password"}, records |-> 7, faults |-> 0]
\* Everything that can go wrong around the audit log.
FaultScenario == [ops |-> {"login", "revoke_sessions", "ap_password", "recovery_exit",
                           "self_password", "noise", "button", "power", "get"}, records |-> 6, faults |-> 1]

MCScenarios == {AccountsScenario, SessionScenario, FaultScenario}
MCRoleChoices == {{"users"}, {"audit"}}

=============================================================================
