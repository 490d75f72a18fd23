----------------------------- MODULE Accounts -----------------------------
(***************************************************************************)
(* Who may do what to whom: the rules of argus_authorization.c and the     *)
(* operations of argus_security_admin.c on the directory of people, as     *)
(* functions of a directory, an acting principal and a target.             *)
(*                                                                         *)
(* A directory is a record of the people by identifier, the custom roles   *)
(* in order and the generation of its last commit.  A person's role_mask   *)
(* is its level's built-in bit, always set, and roles, the set of indices  *)
(* of custom roles.  Of the 23 permissions the ones that decide something  *)
(* here are kept; "commission" stands for those nobody may delegate.       *)
(***************************************************************************)
EXTENDS Naturals, Sequences, FiniteSets, SequencesExt

CONSTANTS
    Ids,           \* identifiers (and login names) of people
    MaxHumans,     \* ARGUS_SECURITY_MAX_HUMANS
    MaxRoles       \* ARGUS_SECURITY_CUSTOM_ROLE_CAPACITY

ASSUME AccountsAssumption == MaxHumans \in Nat \ {0} /\ MaxRoles \in Nat

Permissions == {"view", "operate", "users", "roles", "client_admins", "audit",
                "machines", "network", "recovery", "commission"}

\* Levels, from most to least trusted; a greater number is a lower level.
Personnel == 0
ClientAdmin == 1
Supervisor == 2
Operator == 3
Viewer == 4
Levels == Personnel..Viewer

LevelPermissions(level) ==
    CASE level = Personnel              -> Permissions
      [] level = ClientAdmin            -> {"view", "operate", "users", "roles", "machines",
                                            "audit"}
      [] level \in {Supervisor, Operator} -> {"view", "operate"}
      [] level = Viewer                 -> {"view"}

LevelDelegable(level) == LevelPermissions(level) \ {"client_admins", "commission"}

\* argus_authorization_principal_valid, as far as the model can tell apart.
PrincipalValid(p) ==
    /\ p.cred # 0 /\ p.epoch # 0 /\ p.rev # 0
    /\ p.perms \subseteq Permissions
    /\ p.delegable \subseteq p.perms \ {"client_admins"}

Require(actor, required) ==
    PrincipalValid(actor) /\ required # {} /\ required \subseteq actor.perms

ScopeContains(actor, target) == actor.scope = "*" \/ actor.scope = target

\* A supervisor or lower who may manage users manages operators and viewers.
ManageTarget(actor, level, scope) ==
    /\ Require(actor, {"users"})
    /\ \/ level = Personnel /\ actor.level = Personnel
       \/ /\ level # Personnel
          /\ ScopeContains(actor, scope)
          /\ level >= actor.level
          /\ level = ClientAdmin => "client_admins" \in actor.perms
          /\ actor.level > ClientAdmin => level >= Operator

Delegate(actor, level, scope, requested) ==
    /\ ManageTarget(actor, level, scope)
    /\ requested # {}
    /\ requested \subseteq actor.delegable \ {"client_admins"}

\* target_authorized: the actor must be able to grant all the target has.
TargetAuthorized(actor, level, scope, requested) ==
    /\ ManageTarget(actor, level, scope)
    /\ LET plain == requested \ {"client_admins"}
       IN  plain # {} => Delegate(actor, level, scope, plain)
    /\ "client_admins" \in requested => actor.level = Personnel /\ level = ClientAdmin

(***************************************************************************)
(* Directories.                                                            *)
(***************************************************************************)
EmptyDirectory == [humans |-> <<>>, roles |-> <<>>, gen |-> 1]

\* argus_security_directory_find_id
Known(dir, id) == id \in DOMAIN dir.humans
FindId(dir, id) == dir.humans[id]
\* argus_security_directory_find_login finds the record, and the login takes it
\* if it is in use.
MayLogin(dir) == {id \in DOMAIN dir.humans : dir.humans[id].enabled /\ ~dir.humans[id].revoked}

HumanPermissions(dir, h) ==
    h.direct \cup LevelPermissions(h.level) \cup UNION {dir.roles[i].perms : i \in h.roles}

HumanDelegable(dir, h) ==
    LevelDelegable(h.level) \cup UNION {dir.roles[i].delegable : i \in h.roles}

IsEnabledAdmin(dir, h) ==
    h.enabled /\ ~h.revoked /\ "users" \in HumanPermissions(dir, h)

RemovalWouldLockOut(dir, id) ==
    /\ IsEnabledAdmin(dir, dir.humans[id])
    /\ Cardinality({i \in DOMAIN dir.humans : IsEnabledAdmin(dir, dir.humans[i])}) = 1

\* build_human_principal: what a login makes of a record.
HumanPrincipal(dir, id, epoch) ==
    LET h == dir.humans[id]
        perms == HumanPermissions(dir, h)
    IN  [type |-> "human", id |-> id, level |-> h.level, scope |-> h.scope,
         perms |-> perms,
         delegable |-> (HumanDelegable(dir, h) \cap perms) \ {"client_admins"},
         cred |-> h.cred, epoch |-> epoch, rev |-> h.rev]

ConsolePrincipal(version, epoch) ==
    [type |-> "console", id |-> "argus_console", level |-> Personnel, scope |-> "*",
     perms |-> Permissions, delegable |-> LevelDelegable(Personnel),
     cred |-> version, epoch |-> epoch, rev |-> epoch]

(***************************************************************************)
(* Operations.  Each says whether it is allowed and what it makes of the   *)
(* directory; the commit, which may fail and advances the generation, is   *)
(* the caller's.                                                           *)
(***************************************************************************)
Without(f, x) == [y \in DOMAIN f \ {x} |-> f[y]]
With(f, x, v) == [y \in DOMAIN f \cup {x} |-> IF y = x THEN v ELSE f[y]]
Changed(dir, id, h) == [dir EXCEPT !.humans = With(@, id, h)]

MayCreateHuman(dir, actor, id, level, scope, direct) ==
    /\ PrincipalValid(actor)
    /\ TargetAuthorized(actor, level, scope, LevelPermissions(level) \cup direct)
    /\ Cardinality(DOMAIN dir.humans) < MaxHumans
    /\ id \notin DOMAIN dir.humans

\* The new record's epoch is the generation it is committed with: no earlier
\* record of the same identifier can have had it.
CreateHuman(dir, id, level, scope, direct) ==
    Changed(dir, id, [level |-> level, scope |-> scope, enabled |-> TRUE, revoked |-> FALSE,
                      roles |-> {}, direct |-> direct, cred |-> 1, rev |-> dir.gen + 1])

\* snapshot_target
MayChange(dir, actor, id) ==
    /\ PrincipalValid(actor)
    /\ Known(dir, id)
    /\ LET h == FindId(dir, id)
       IN  TargetAuthorized(actor, h.level, h.scope, HumanPermissions(dir, h))

MaySetEnabled(dir, actor, id, enabled) ==
    MayChange(dir, actor, id) /\ (enabled \/ ~RemovalWouldLockOut(dir, id))

SetEnabled(dir, id, enabled) ==
    LET h == dir.humans[id]
    IN  Changed(dir, id, [h EXCEPT !.enabled = enabled, !.revoked = ~enabled, !.rev = @ + 1])

ReplacePassword(dir, id) ==
    LET h == dir.humans[id]
    IN  Changed(dir, id, [h EXCEPT !.cred = @ + 1, !.rev = @ + 1])

\* argus_security_admin_replace_own_password: no authorization over oneself.
MayReplaceOwnPassword(dir, actor) ==
    PrincipalValid(actor) /\ actor.type = "human" /\ Known(dir, actor.id)

MayAssignCustomRoles(dir, actor, id, roles) ==
    /\ MayChange(dir, actor, id)
    /\ roles \subseteq DOMAIN dir.roles
    /\ LET perms == UNION {dir.roles[i].perms : i \in roles}
           h == dir.humans[id]
       IN  perms # {} => Delegate(actor, h.level, h.scope, perms)

AssignCustomRoles(dir, id, roles) ==
    LET h == dir.humans[id]
    IN  Changed(dir, id, [h EXCEPT !.roles = roles, !.rev = @ + 1])

MayDeleteHuman(dir, actor, id) == MayChange(dir, actor, id) /\ ~RemovalWouldLockOut(dir, id)

DeleteHuman(dir, id) == [dir EXCEPT !.humans = Without(@, id)]

MayCreateRole(dir, actor, role, level, perms, delegable) ==
    /\ Require(actor, {"roles"})
    /\ level \in ClientAdmin..Viewer
    /\ delegable \subseteq perms
    /\ Delegate(actor, level, actor.scope, perms)
    /\ delegable \subseteq actor.delegable
    /\ Len(dir.roles) < MaxRoles
    /\ \A i \in DOMAIN dir.roles : dir.roles[i].id # role

CreateRole(dir, role, perms, delegable) ==
    [dir EXCEPT !.roles = Append(@, [id |-> role, perms |-> perms, delegable |-> delegable])]

\* A role in use stays.
MayDeleteRole(dir, actor, i) ==
    /\ Require(actor, {"roles"})
    /\ i \in DOMAIN dir.roles
    /\ \A id \in DOMAIN dir.humans : i \notin dir.humans[id].roles

\* A plausible slip: the bits above the deleted role are cut off, not moved down.
DeleteRoleMutant(dir, i) ==
    [dir EXCEPT !.roles = RemoveAt(@, i),
                !.humans = [id \in DOMAIN @ |->
                    [@[id] EXCEPT !.roles = {r \in @ : r < i}]]]

\* The roles above the deleted one move down, and so do their bits in every
\* mask; the records' epochs stay.
MovedDown(h, i) == [h EXCEPT !.roles = {IF r > i THEN r - 1 ELSE r : r \in @}]
DeleteRole(dir, i) ==
    [dir EXCEPT !.roles = RemoveAt(@, i),
                !.humans = [id \in DOMAIN dir.humans |-> MovedDown(dir.humans[id], i)]]

=============================================================================
