------------------------------ MODULE Portal ------------------------------
(***************************************************************************)
(* The portal's security functions: sessions (argus_session_manager.c),    *)
(* login (argus_auth_service.c, argus_http_server.c), the access check     *)
(* (argus_http_security.c), the administrative requests                    *)
(* (argus_security_http.c), each bracketed by two records of the audit log *)
(* (argus_security_audit.c), and the delayed transitions that follow a     *)
(* change of the access point's secret or the end of a recovery            *)
(* (argus_security_transition.c).                                          *)
(*                                                                         *)
(* The HTTP server handles one request at a time.  Beside it run the       *)
(* audit task, the tasks that append to the log without waiting (the MQTT  *)
(* runtime), the timers of the transitions and the task of the recovery    *)
(* button, which writes the security store.  Power may be lost at any      *)
(* moment.  A request is described by what its handler decodes it to;      *)
(* requests over the station interface, with a bad body, a bad origin or   *)
(* a bad CSRF token are refused before anything changes and left out.      *)
(***************************************************************************)
EXTENDS Accounts, AuditRing, FiniteSetsExt

CONSTANTS
    Scenarios,     \* which requests and events a behaviour may have; bounds on its
                   \* audit records and on the storage operations that fail
    LevelChoices, RoleNames, RoleChoices,   \* what new accounts and roles may be
    SessionCapacity, PerPrincipal,          \* ARGUS_SESSION_CAPACITY, _PER_PRINCIPAL
    QueueLength,   \* AUDIT_QUEUE_LENGTH
    PageMax,       \* ARGUS_AUDIT_PAGE_MAX
    MaxGen,        \* bound on the directory's generation
    MaxEpoch       \* bound on the security epoch

AccountOps == {"create", "enable", "disable", "delete", "revoke_sessions",
               "reset_password", "update_display", "assign_roles"}
RoleOps == {"create_role", "delete_role"}
Mutations == AccountOps \cup RoleOps \cup {"self_password", "ap_password", "recovery_exit"}
Others == {"login", "logout", "reauth", "get", "time", "noise", "button", "power"}

ASSUME PortalAssumption ==
    /\ \A s \in Scenarios : /\ s.ops \subseteq Mutations \cup Others
                             /\ s.faults \in Nat /\ s.records \in 0..MaxLifecycleId
    /\ LevelChoices \subseteq Levels
    /\ \A p \in RoleChoices : p \subseteq Permissions
    /\ {SessionCapacity, PerPrincipal, QueueLength, PageMax} \subseteq Nat \ {0}
    /\ {MaxGen, MaxEpoch} \subseteq Nat

VARIABLES
    scenario,    \* what this behaviour is about
    dir,         \* the directory of people
    store,       \* the security store: AP secret, console credential, recovery, epoch
    sessions,    \* the session table
    http,        \* the request being handled
    ring,        \* the audit records in flash
    meta,        \* the audit metadata: in flash, and s_meta
    s_queue,     \* the requests the audit task has not taken yet
    writing,     \* the record the audit task has written but not yet counted
    answer,      \* what the audit task told the request that waits for it
    degraded,    \* s_finalization_degraded
    transition,  \* s_ap_transition and s_recovery_transition
    applied,     \* the AP secret the radio uses
    pressed,     \* the recovery detector has triggered since boot
    done,        \* mutations that were committed, by lifecycle id (history)
    open,        \* those of this boot that have no terminal record yet (history)
    faults       \* storage operations that failed so far

audit == <<ring, meta, s_queue, writing, answer>>
radio == <<applied, pressed>>
changes == <<done, open>>
portalVars == <<scenario, dir, store, sessions, http, audit, degraded, transition,
                radio, changes, faults>>

May(op) == op \in scenario.ops
NoPrincipal == [id |-> "none"]
NoSession == [principal |-> NoPrincipal, age |-> "none"]
HttpIdle == [pc |-> "idle", op |-> "none", actor |-> NoPrincipal,
         id |-> "none", arg |-> {}, life |-> 0, ok |-> FALSE]
NoRequest == [by |-> "none", outcome |-> "none", life |-> 0]
NoAnswer == [result |-> "none", life |-> 0]
Unreserved == [ap |-> "free", recovery |-> "free"]
TransitionOf(op) == CASE op = "ap_password" -> "ap" [] op = "recovery_exit" -> "recovery"
                      [] OTHER -> "none"

PortalInit ==
    /\ scenario \in Scenarios
    /\ dir = EmptyDirectory
    /\ store = [ap |-> 1, console |-> 1, recovery |-> FALSE, epoch |-> 1]
    /\ sessions = [i \in 1..SessionCapacity |-> NoSession]
    /\ http = HttpIdle
    /\ ring = [s \in Slots |-> NoRecord]
    /\ meta = [flash |-> EmptyMeta, ram |-> EmptyMeta]
    /\ s_queue = <<>>
    /\ writing = NoRequest
    /\ answer = NoAnswer
    /\ degraded = FALSE
    /\ transition = Unreserved
    /\ applied = 1
    /\ pressed = FALSE
    /\ done = {}
    /\ open = {}
    /\ faults = 0

(***************************************************************************)
(* Sessions.  A session that has expired stays in the table until the next *)
(* login or request finds it.                                              *)
(***************************************************************************)
Occupied(table) == {i \in DOMAIN table : table[i].age # "none"}
Swept(table) ==
    [i \in DOMAIN table |-> IF table[i].age = "expired" THEN NoSession ELSE table[i]]
RevokeAll(table) == [i \in DOMAIN table |-> NoSession]
RevokePrincipal(table, id) ==
    [i \in DOMAIN table |-> IF table[i].principal.id = id THEN NoSession ELSE table[i]]
\* A token is 32 random bytes: no two sessions have the same, so that the index
\* stands for it here.
RevokeToken(table, i) == [table EXCEPT ![i] = NoSession]

MarkReauthenticated(table, i) == [table EXCEPT ![i].age = "recent"]

\* argus_session_create
CanCreate(table, principal) ==
    /\ PrincipalValid(principal)
    /\ Cardinality({i \in Occupied(table) : table[i].principal.id = principal.id}) < PerPrincipal
    /\ Occupied(table) # DOMAIN table
Created(table, principal) ==
    LET free == Min({i \in DOMAIN table : table[i].age = "none"})
    IN  [table EXCEPT ![free] = [principal |-> principal, age |-> "recent"]]

\* Five minutes since the password was given; fifteen minutes without a request,
\* or eight hours since the login.
SessionAges ==
    \E i \in Occupied(sessions), age \in {"old", "expired"} :
        /\ May("time")
        /\ sessions[i].age # "expired" /\ sessions[i].age # age
        /\ sessions' = [sessions EXCEPT ![i].age = age]
        /\ UNCHANGED <<scenario, dir, store, http, audit, degraded, transition,
                       radio, changes, faults>>

(***************************************************************************)
(* The access check.                                                       *)
(***************************************************************************)
\* principal_current: the account and the store are as they were at the login.
PrincipalCurrent(p) ==
    /\ p.epoch = store.epoch
    /\ IF p.type = "console"
       THEN p.cred = store.console /\ p.rev = store.epoch
       ELSE /\ Known(dir, p.id)
            /\ LET h == FindId(dir, p.id)
               IN  h.enabled /\ ~h.revoked /\ h.cred = p.cred /\ h.rev = p.rev

\* argus_http_security_require, for the session at index i.
Allowed(i, required) ==
    LET p == sessions[i].principal
    IN  PrincipalCurrent(p) /\ (required # {} => Require(p, required))

\* A request with a session that has expired or is no longer current: it ends.
AccessRefused ==
    \E i \in Occupied(sessions) :
        /\ http.pc = "idle"
        /\ May("get")
        /\ i \in Occupied(Swept(sessions)) => ~PrincipalCurrent(sessions[i].principal)
        /\ sessions' = RevokeToken(Swept(sessions), i)
        /\ UNCHANGED <<scenario, dir, store, http, audit, degraded, transition,
                       radio, changes, faults>>

\* What each page of the portal asks for.  Every one of them only reads.
SessionGet(i) == Allowed(i, {})
AccountsGet(i) == Allowed(i, {"users"})
RolesGet(i) == Allowed(i, {"roles"})
AuditGet(i) == Allowed(i, {"audit"})
MachinesGet(i) == Allowed(i, {}) /\ "machines" \in sessions[i].principal.perms
Get ==
    \E i \in Occupied(Swept(sessions)) :
        /\ http.pc = "idle"
        /\ May("get")
        /\ SessionGet(i) \/ AccountsGet(i) \/ RolesGet(i) \/ AuditGet(i) \/ MachinesGet(i)
        /\ sessions' = Swept(sessions)
        /\ UNCHANGED <<scenario, dir, store, http, audit, degraded, transition,
                       radio, changes, faults>>

(***************************************************************************)
(* The audit log.  A required record is waited for; a full queue refuses   *)
(* any record.                                                             *)
(***************************************************************************)
\* parse_audit_query: what a reader may ask a page to be limited to.
PageLimits == 1..PageMax

Bounded(n) == meta.ram.next + Len(s_queue) + n <= scenario.records + 1
QueueFull == Len(s_queue) = QueueLength
Request(by, outcome, life) == [by |-> by, outcome |-> outcome, life |-> life]
AppendBestEffort(request) == s_queue' = IF QueueFull THEN s_queue ELSE Append(s_queue, request)

\* Another task's event: a refused MQTT client, a refused command.
Noise ==
    /\ May("noise") /\ Bounded(3)
    /\ ~QueueFull
    /\ s_queue' = Append(s_queue, Request("mqtt", "event", 0))
    /\ UNCHANGED <<scenario, dir, store, sessions, http, ring, meta, writing, answer,
                   degraded, transition, radio, changes, faults>>

\* argus_http_security_ap_only: a request that did not come over the access
\* point is refused and, at most once a minute, recorded.
StationRefused ==
    /\ http.pc = "idle"
    /\ May("noise") /\ Bounded(3)
    /\ AppendBestEffort(Request("mqtt", "event", 0))
    /\ UNCHANGED <<scenario, dir, store, sessions, http, ring, meta, writing, answer,
                   degraded, transition, radio, changes, faults>>

Tell(request, result, life) ==
    answer' = IF request.by = "http" THEN [result |-> result, life |-> life] ELSE answer

AuditFails(request) ==
    /\ faults < scenario.faults
    /\ faults' = faults + 1
    /\ Tell(request, "failed", 0)

\* append_locked: the record goes to the spare slot ...
AuditWrite ==
    /\ writing.by = "none" /\ s_queue # <<>>
    /\ LET request == Head(s_queue)
       IN  \/ /\ ring' = [ring EXCEPT ![meta.ram.spare] = Stamped(meta.ram, request)]
              /\ writing' = request
              /\ UNCHANGED <<answer, faults>>
           \/ AuditFails(request) /\ UNCHANGED <<ring, writing>>
    /\ s_queue' = Tail(s_queue)
    /\ UNCHANGED <<scenario, dir, store, sessions, http, meta, degraded, transition,
                   radio, changes>>

\* ... and counts once the metadata is written too.
AuditCount ==
    /\ writing.by # "none"
    /\ LET next == NextMeta(meta.ram)
           record == Stamped(meta.ram, writing)
       IN  \/ /\ meta' = [flash |-> next, ram |-> next]
              /\ Tell(writing, "ok", record.life)
              /\ open' = IF record.outcome \in {"success", "failed"}
                         THEN open \ {record.life} ELSE open
              /\ UNCHANGED faults
           \/ AuditFails(writing) /\ UNCHANGED <<meta, open>>
    /\ writing' = NoRequest
    /\ UNCHANGED <<scenario, dir, store, sessions, http, ring, s_queue, degraded,
                   transition, radio, done>>

(***************************************************************************)
(* Login, logout and reauthentication.                                     *)
(***************************************************************************)
\* argus_auth_service_authenticate with the right password, up to the
\* derivation of the key: record and epoch are read before it.
LoginRead ==
    /\ http.pc = "idle"
    /\ May("login") /\ Bounded(3)
    /\ \E p \in {ConsolePrincipal(store.console, store.epoch)} \cup
                {HumanPrincipal(dir, id, store.epoch) : id \in MayLogin(dir)} :
            http' = [HttpIdle EXCEPT !.pc = "kdf", !.op = "login", !.actor = p]
    /\ UNCHANGED <<scenario, dir, store, sessions, audit, degraded, transition,
                   radio, changes, faults>>

\* The login is recorded before there is a session.
LoginRecord ==
    /\ http.pc = "kdf"
    /\ IF QueueFull
       THEN http' = HttpIdle /\ UNCHANGED s_queue
       ELSE http' = [http EXCEPT !.pc = "login"] /\ s_queue' = Append(s_queue, Request("http", "login", 0))
    /\ UNCHANGED <<scenario, dir, store, sessions, ring, meta, writing, answer,
                   degraded, transition, radio, changes, faults>>

LoginCreate ==
    /\ http.pc = "login" /\ answer.result # "none"
    /\ IF answer.result = "ok" /\ CanCreate(Swept(sessions), http.actor)
       THEN sessions' = Created(Swept(sessions), http.actor)
       ELSE sessions' = IF answer.result = "ok" THEN Swept(sessions) ELSE sessions
    /\ answer' = NoAnswer
    /\ http' = HttpIdle
    /\ UNCHANGED <<scenario, dir, store, ring, meta, s_queue, writing, degraded, transition,
                   radio, changes, faults>>

Logout ==
    \E i \in Occupied(Swept(sessions)) :
        /\ http.pc = "idle"
        /\ May("logout") /\ Bounded(3)
        /\ Allowed(i, {})
        /\ sessions' = RevokeToken(Swept(sessions), i)
        /\ AppendBestEffort(Request("mqtt", "event", 0))
        /\ UNCHANGED <<scenario, dir, store, http, ring, meta, writing, answer,
                       degraded, transition, radio, changes, faults>>

\* reauth_post_handler with the right password.
Reauthenticate ==
    \E i \in Occupied(Swept(sessions)) :
        /\ http.pc = "idle"
        /\ May("reauth")
        /\ Allowed(i, {})
        /\ sessions' = MarkReauthenticated(Swept(sessions), i)
        /\ UNCHANGED <<scenario, dir, store, http, audit, degraded, transition,
                       radio, changes, faults>>

(***************************************************************************)
(* Administrative requests: admitted, prepared in the audit log, carried   *)
(* out, finalised in the audit log, answered.                              *)
(***************************************************************************)
Required(op) == CASE op \in AccountOps      -> {"users"}
                  [] op \in RoleOps         -> {"roles"}
                  [] op = "ap_password"     -> {"network"}
                  [] op = "recovery_exit"   -> {"recovery"}
                  [] op = "self_password"   -> {}

\* What a request may be about: the account and its level, roles or permissions.
Arguments(op) ==
    CASE op = "create"       -> {{level} : level \in LevelChoices}
      [] op = "assign_roles" -> SUBSET DOMAIN dir.roles
      [] op = "create_role"  -> RoleChoices
      [] op = "delete_role"  -> {{i} : i \in DOMAIN dir.roles}
      [] OTHER               -> {{}}
Targets(op) == IF op \in AccountOps THEN Ids ELSE IF op = "create_role" THEN RoleNames ELSE {"none"}

\* ap_password_post and recovery_exit_post: the password was given in the last
\* five minutes, and no transition of the same kind is under way.
MayReplaceAp(i) == sessions[i].age = "recent" /\ transition.ap = "free"
MayExitRecovery(i) ==
    sessions[i].age = "recent" /\ store.recovery /\ transition.recovery = "free"

\* The handler up to the request for a prepared record.  Nobody disables or
\* deletes their own account.  A transition that is under way refuses a second
\* one; a refused prepared record gives the reservation back.
Admit ==
    \E i \in Occupied(Swept(sessions)), op \in Mutations \cap scenario.ops :
    \E id \in Targets(op), arg \in Arguments(op) :
        LET actor == sessions[i].principal
            t == TransitionOf(op)
        IN  /\ http.pc = "idle"
            /\ Bounded(2) /\ dir.gen < MaxGen /\ store.epoch < MaxEpoch
            /\ Allowed(i, Required(op))
            /\ op = "ap_password" => MayReplaceAp(i)
            /\ op = "recovery_exit" => MayExitRecovery(i)
            /\ ~(id = actor.id /\ op \in {"disable", "delete"})
            /\ sessions' = Swept(sessions)
            /\ IF degraded \/ QueueFull
               THEN UNCHANGED <<http, s_queue, transition>>
               ELSE /\ http' = [HttpIdle EXCEPT !.pc = "begin", !.op = op, !.actor = actor,
                                            !.id = id, !.arg = arg]
                    /\ s_queue' = Append(s_queue, Request("http", "prepared", 0))
                    /\ transition' = IF t = "none" THEN transition
                                     ELSE [transition EXCEPT ![t] = "reserved"]
            /\ UNCHANGED <<scenario, dir, store, ring, meta, writing, answer, degraded,
                           radio, changes, faults>>

Cancelled == IF TransitionOf(http.op) = "none" THEN transition
             ELSE [transition EXCEPT ![TransitionOf(http.op)] = "free"]

\* argus_security_audit_mutation_begin returns.
Prepared ==
    /\ http.pc = "begin" /\ answer.result # "none"
    /\ IF answer.result = "ok"
       THEN /\ http' = [http EXCEPT !.pc = "mutate", !.life = answer.life]
            /\ UNCHANGED transition
       ELSE http' = HttpIdle /\ transition' = Cancelled
    /\ answer' = NoAnswer
    /\ UNCHANGED <<scenario, dir, store, sessions, ring, meta, s_queue, writing, degraded,
                   radio, changes, faults>>

The(set) == CHOOSE x \in set : TRUE

\* What the operation itself checks.
Permitted ==
    CASE http.op = "create"          -> MayCreateHuman(dir, http.actor, http.id, The(http.arg), "site", {})
      [] http.op = "enable"          -> MaySetEnabled(dir, http.actor, http.id, TRUE)
      [] http.op = "disable"         -> MaySetEnabled(dir, http.actor, http.id, FALSE)
      [] http.op = "delete"          -> MayDeleteHuman(dir, http.actor, http.id)
      [] http.op = "revoke_sessions" -> \E i \in Occupied(sessions) :
                                            sessions[i].principal.id = http.id
      [] http.op \in {"reset_password", "update_display"} ->
                                        MayChange(dir, http.actor, http.id)
      [] http.op = "assign_roles"    -> MayAssignCustomRoles(dir, http.actor, http.id, http.arg)
      [] http.op = "create_role"     -> MayCreateRole(dir, http.actor, http.id, Operator, http.arg, {})
      [] http.op = "delete_role"     -> MayDeleteRole(dir, http.actor, The(http.arg))
      [] http.op = "self_password"   -> http.actor.type = "console"
                                            \/ MayReplaceOwnPassword(dir, http.actor)
      [] OTHER                       -> TRUE

Mutating(op) == http.pc = "mutate" /\ http.op = op /\ Permitted
Mutated(ok) == http' = [http EXCEPT !.pc = "mutated", !.ok = ok]

\* The mutation took effect.
Took ==
    /\ Mutated(TRUE)
    /\ done' = done \cup {http.life}
    /\ open' = open \cup {http.life}

\* argus_security_directory_commit
CommitDirectory(next) == dir' = [next EXCEPT !.gen = @ + 1]
Unchanged == UNCHANGED <<scenario, audit, degraded, transition, radio, faults>>

Create ==
    /\ Mutating("create")
    /\ CommitDirectory(CreateHuman(dir, http.id, The(http.arg), "site", {}))
    /\ Took /\ Unchanged /\ UNCHANGED <<store, sessions>>

Enable(enabled) ==
    /\ Mutating(IF enabled THEN "enable" ELSE "disable")
    /\ CommitDirectory(SetEnabled(dir, http.id, enabled))
    /\ sessions' = RevokePrincipal(sessions, http.id)
    /\ Took /\ Unchanged /\ UNCHANGED store

Delete ==
    /\ Mutating("delete")
    /\ CommitDirectory(DeleteHuman(dir, http.id))
    /\ sessions' = RevokePrincipal(sessions, http.id)
    /\ Took /\ Unchanged /\ UNCHANGED store

\* Any identifier: the session manager is asked directly.
RevokeSessions ==
    /\ Mutating("revoke_sessions")
    /\ sessions' = RevokePrincipal(sessions, http.id)
    /\ Took /\ Unchanged /\ UNCHANGED <<dir, store>>

ResetPassword ==
    /\ Mutating("reset_password")
    /\ CommitDirectory(ReplacePassword(dir, http.id))
    /\ sessions' = RevokePrincipal(sessions, http.id)
    /\ Took /\ Unchanged /\ UNCHANGED store

UpdateDisplayName ==
    /\ Mutating("update_display")
    /\ CommitDirectory(dir)
    /\ Took /\ Unchanged /\ UNCHANGED <<store, sessions>>

AssignRoles ==
    /\ Mutating("assign_roles")
    /\ CommitDirectory(AssignCustomRoles(dir, http.id, http.arg))
    /\ sessions' = RevokePrincipal(sessions, http.id)
    /\ Took /\ Unchanged /\ UNCHANGED store

NewRole ==
    /\ Mutating("create_role")
    /\ CommitDirectory(CreateRole(dir, http.id, http.arg, {}))
    /\ Took /\ Unchanged /\ UNCHANGED <<store, sessions>>

RemoveRole ==
    /\ Mutating("delete_role")
    /\ CommitDirectory(DeleteRole(dir, The(http.arg)))
    /\ Took /\ Unchanged /\ UNCHANGED <<store, sessions>>

\* change_own_password_post_handler: the console's credential is the store's and
\* a change of it ends every session; a person's is the directory's.
SelfPassword ==
    /\ Mutating("self_password")
    /\ \/ /\ http.actor.type = "console"
          /\ store' = [store EXCEPT !.console = @ + 1, !.epoch = @ + 1]
          /\ sessions' = RevokeAll(sessions)
          /\ UNCHANGED dir
       \/ /\ http.actor.type = "human"
          /\ CommitDirectory(ReplacePassword(dir, http.actor.id))
          /\ sessions' = RevokePrincipal(sessions, http.actor.id)
          /\ UNCHANGED store
    /\ Took /\ Unchanged

ReplaceApSecret ==
    /\ Mutating("ap_password")
    /\ store' = [store EXCEPT !.ap = @ + 1, !.epoch = @ + 1]
    /\ Took /\ Unchanged /\ UNCHANGED <<dir, sessions>>

\* argus_security_store_set_recovery_state: nothing to do is a success.
RecoveryExit ==
    /\ Mutating("recovery_exit")
    /\ store' = IF store.recovery
                THEN [store EXCEPT !.recovery = FALSE, !.epoch = @ + 1] ELSE store
    /\ Took /\ Unchanged /\ UNCHANGED <<dir, sessions>>

\* The operation is not allowed, or the storage failed.
MutationFails ==
    /\ http.pc = "mutate"
    /\ \/ ~Permitted /\ UNCHANGED faults
       \/ Permitted /\ faults < scenario.faults /\ faults' = faults + 1
    /\ Mutated(FALSE)
    /\ UNCHANGED <<scenario, audit, degraded, transition, radio, dir, store, sessions, changes>>

\* A plausible slip: the terminal record does not depend on the result.
FinaliseMutant ==
    /\ http.pc = "mutated"
    /\ IF QueueFull
       THEN degraded' = TRUE /\ http' = HttpIdle /\ transition' = Cancelled /\ UNCHANGED s_queue
       ELSE /\ http' = [http EXCEPT !.pc = "finish"]
            /\ s_queue' = Append(s_queue, Request("http", "success", http.life))
            /\ UNCHANGED <<degraded, transition>>
    /\ UNCHANGED <<scenario, dir, store, sessions, ring, meta, writing, answer, radio,
                   changes, faults>>

\* argus_security_audit_mutation_finish asks for the terminal record.  If the log
\* does not take it, the latch that refuses further mutations is set.
Finalise ==
    /\ http.pc = "mutated"
    /\ IF QueueFull
       THEN degraded' = TRUE /\ http' = HttpIdle /\ transition' = Cancelled /\ UNCHANGED s_queue
       ELSE /\ http' = [http EXCEPT !.pc = "finish"]
            /\ s_queue' = Append(s_queue, Request("http", IF http.ok THEN "success" ELSE "failed",
                                              http.life))
            /\ UNCHANGED <<degraded, transition>>
    /\ UNCHANGED <<scenario, dir, store, sessions, ring, meta, writing, answer, radio,
                   changes, faults>>

\* A plausible slip: the latch is not set when the terminal record is lost.
FinishedMutant ==
    /\ http.pc = "finish" /\ answer.result # "none"
    /\ http' = HttpIdle
    /\ transition' = Cancelled
    /\ answer' = NoAnswer
    /\ UNCHANGED <<scenario, dir, store, sessions, ring, meta, s_queue, writing, degraded, radio,
                   changes, faults>>

\* A change that leads to a transition ends every session before the answer.
Finished ==
    /\ http.pc = "finish" /\ answer.result # "none"
    /\ degraded' = (degraded \/ answer.result = "failed")
    /\ IF answer.result = "ok" /\ http.ok /\ TransitionOf(http.op) # "none"
       THEN /\ http' = [http EXCEPT !.pc = "respond"]
            /\ sessions' = RevokeAll(sessions)
            /\ UNCHANGED transition
       ELSE http' = HttpIdle /\ transition' = Cancelled /\ UNCHANGED sessions
    /\ answer' = NoAnswer
    /\ UNCHANGED <<scenario, dir, store, ring, meta, s_queue, writing, radio, changes, faults>>

\* argus_security_transition_respond_then_arm: the timer is started once the
\* answer is out.  The callback comes 300 ms later, after armed is set.
RespondThenArm ==
    /\ http.pc = "respond"
    /\ \/ /\ transition' = [transition EXCEPT ![TransitionOf(http.op)] = "armed"]
          /\ UNCHANGED s_queue
       \/ /\ transition' = Cancelled          \* the answer was not sent
          /\ UNCHANGED s_queue
       \/ /\ transition' = Cancelled          \* the timer did not start
          /\ Bounded(1) /\ AppendBestEffort(Request("mqtt", "event", 0))
    /\ http' = HttpIdle
    /\ UNCHANGED <<scenario, dir, store, sessions, ring, meta, writing, answer, degraded,
                   radio, changes, faults>>

(***************************************************************************)
(* Timers, the recovery button, power.                                     *)
(***************************************************************************)
Boot ==
    /\ sessions' = RevokeAll(sessions)
    /\ http' = HttpIdle
    /\ meta' = [meta EXCEPT !.ram = meta.flash]
    /\ s_queue' = <<>>
    /\ writing' = NoRequest
    /\ answer' = NoAnswer
    /\ degraded' = FALSE
    /\ transition' = Unreserved
    /\ applied' = store.ap
    /\ pressed' = FALSE
    /\ open' = {}
    /\ UNCHANGED <<scenario, dir, store, ring, done, faults>>

PowerLost == May("power") /\ Boot

\* ap_apply_callback: the network manager applies the secret if its queue takes
\* the request.
ApTimer ==
    /\ transition.ap = "armed"
    /\ transition' = [transition EXCEPT !.ap = "free"]
    /\ applied' \in {applied, store.ap}
    /\ UNCHANGED <<scenario, dir, store, sessions, http, audit, degraded, pressed, changes,
                   faults>>

\* recovery_callback: the restart transaction may refuse.
RecoveryTimer ==
    /\ transition.recovery = "armed"
    /\ \/ Boot
       \/ /\ transition' = [transition EXCEPT !.recovery = "free"]
          /\ UNCHANGED <<scenario, dir, store, sessions, http, audit, degraded, radio, changes,
                         faults>>

\* recovery_task: the button was held and released; once per boot.
RecoveryButton ==
    /\ May("button") /\ ~pressed /\ store.epoch < MaxEpoch
    /\ pressed' = TRUE
    /\ store' \in {store} \cup
                  (IF store.recovery THEN {}
                   ELSE {[store EXCEPT !.recovery = TRUE, !.epoch = @ + 1]})
    /\ UNCHANGED <<scenario, dir, sessions, http, audit, degraded, transition, applied, changes,
                   faults>>

Mutate ==
    \/ Create \/ Enable(TRUE) \/ Enable(FALSE) \/ Delete \/ RevokeSessions \/ ResetPassword
    \/ UpdateDisplayName \/ AssignRoles \/ NewRole \/ RemoveRole \/ SelfPassword
    \/ ReplaceApSecret \/ RecoveryExit \/ MutationFails

PortalNext ==
    \/ SessionAges \/ AccessRefused \/ Get
    \/ Noise \/ StationRefused \/ AuditWrite \/ AuditCount
    \/ LoginRead \/ LoginRecord \/ LoginCreate \/ Logout \/ Reauthenticate
    \/ Admit \/ Prepared \/ Mutate \/ Finalise \/ Finished \/ RespondThenArm
    \/ ApTimer \/ RecoveryTimer \/ RecoveryButton \/ PowerLost

PortalSpec == PortalInit /\ [][PortalNext]_portalVars

(***************************************************************************)
(* Properties.                                                             *)
(***************************************************************************)
\* A session that still passes the access check carries exactly the level,
\* permissions and credential a new login of that account would be given: no
\* change of an account, a role or the store leaves an older one behind
\* (principal_current, argus_security_admin_delete_role).
NoStaleAuthority ==
    \A i \in Occupied(sessions) :
        LET p == sessions[i].principal
        IN  PrincipalCurrent(p) =>
                p = IF p.type = "console" THEN ConsolePrincipal(store.console, store.epoch)
                    ELSE HumanPrincipal(dir, p.id, store.epoch)

\* Whenever power is lost, the log a boot finds has no gap: reading it page by
\* page, whatever the length of a page, shows each of its records once, newest
\* first, with consecutive sequence numbers (append_locked, argus_security_audit_read_page).
AuditComplete ==
    \A limit \in PageLimits :
        LET seen == AllPages(ring, meta.flash, limit)
        IN  /\ Len(seen) = meta.flash.count
            /\ \A k \in DOMAIN seen : seen[k].seq = meta.flash.next - k

\* The records the log counts, which a boot finds and its pages show.
Log == {ReadSlot(ring, meta.flash, offset) : offset \in 0 .. meta.flash.count - 1}

\* The log never says what is not so: a success was committed, a failure was
\* not, and what was committed was prepared in the log before
\* (argus_security_audit_mutation_begin, _finish).
AuditTruthful ==
    /\ \A record \in Log :
          /\ record.outcome = "success" => record.life \in done
          /\ record.outcome = "failed"  => record.life \notin done
          /\ record.seq \in done        => record.outcome = "prepared"
    /\ \A life \in done : life < meta.flash.next

\* Between two restarts at most one committed change lacks its terminal record:
\* after the first that could not be recorded nothing is changed any more
\* (s_finalization_degraded).
FailsClosed == Cardinality(open) <= 1

=============================================================================
