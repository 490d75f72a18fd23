---------------------------- MODULE MqttSession ----------------------------
(***************************************************************************)
(* The session core of the MQTT contract (argus_mqtt_contract.c): who      *)
(* holds the command lease, over which connection, in which authority      *)
(* epoch, and which command was accepted last.  The functions of the C     *)
(* module are operators on a record, the core.                             *)
(*                                                                         *)
(* Time is abstract: age is how long ago the last heartbeat was, compared  *)
(* with ARGUS_MQTT_HEARTBEAT_TIMEOUT_MS, and window is the ArgusCore       *)
(* acquisition window: unset before the broker runs, then open, then       *)
(* closed.                                                                 *)
(***************************************************************************)
EXTENDS Integers, Sequences, FiniteSets

CONSTANTS
    Machines,      \* enrolled machines, named after their client type
    SeqModulus     \* 2^32 in the code: sequence numbers and counters wrap

Local == {"hmi", "tool"}     \* HMI and SERVICE_TOOL; "core" is ARGUS_COMMAND

ASSUME MqttSessionAssumption ==
    /\ Machines \subseteq Local \cup {"core", "other"}
    /\ SeqModulus \in Nat /\ SeqModulus > 3

Nobody == "nobody"
Ages == {"fresh", "expired"}
Windows == {"unset", "open", "closed"}
Links == {"offline", "online", "stale"}

NoCommand == [session |-> 0, n |-> 0, epoch |-> 0]

\* argus_mqtt_session_core_init.
SessionCoreInit(s) ==
    [session |-> s, link |-> "offline", holder |-> Nobody, conn |-> 0, hbconn |-> 0,
     counter |-> 0, epoch |-> 0, last |-> NoCommand]

\* argus_mqtt_session_is_newer: serial number arithmetic.
IsNewer(candidate, reference) ==
    (candidate - reference) % SeqModulus \in 1 .. (SeqModulus \div 2 - 1)

\* Only the end of a lease starts a new epoch, not a transfer.
AdvanceEpochMutant(core) ==
    [core EXCEPT !.epoch = IF core.holder = Nobody THEN @ + 1 ELSE @]

\* advance_epoch: 0 is never an epoch; the wrap to 1 is out of the bounds' reach.
AdvanceEpoch(core) == [core EXCEPT !.epoch = @ + 1]

---------------------------------------------------------------------------
(* The lease.                                                              *)

\* profile_permits: without a preference only local machines may acquire; with
\* one ArgusCore always may, and local machines once its window has closed.
ProfilePermits(profile, m, window) ==
    IF profile = "standalone" THEN m \in Local
    ELSE m = "core" \/ (m \in Local /\ window = "closed")

\* may_preempt.
MayPreempt(m, holder) == m = "core" /\ holder \in Local

\* The assignments that bind the lease to a machine and its connection.
Bind(core, m, c) ==
    [core EXCEPT !.holder = m, !.conn = c, !.hbconn = c, !.link = "online",
                 !.counter = IF core.holder = m /\ core.hbconn = c THEN @ ELSE 0]

Answer(result, core, fresh) == [result |-> result, core |-> core, fresh |-> fresh]

\* argus_mqtt_session_request_authority: an unexpired lease is renewed and
\* rebound by its holder, taken by a machine that may preempt, refused to the
\* others; a free or expired one is granted in a new epoch.
RequestAuthority(core, age, m, c, profile, window) ==
    LET held == core.holder # Nobody /\ age # "expired"
    IN  IF ~ProfilePermits(profile, m, window)
        THEN Answer(IF profile = "preferred" /\ m \in Local THEN "denied_window_open"
                                                            ELSE "denied_by_profile",
                    core, FALSE)
        ELSE IF held /\ core.holder = m
        THEN Answer("already_held", Bind(core, m, c), TRUE)
        ELSE IF held /\ ~MayPreempt(m, core.holder)
        THEN Answer("denied_held_by_other", core, FALSE)
        ELSE Answer("granted", AdvanceEpoch(Bind([core EXCEPT !.holder = Nobody], m, c)), TRUE)

\* argus_mqtt_session_request_authority_with_state: a transfer needs the
\* current epoch and a machine at rest.
RequestAuthorityWithState(core, age, m, c, profile, window, running, epoch) ==
    LET transfer == /\ ProfilePermits(profile, m, window)
                    /\ core.holder \notin {Nobody, m} /\ age # "expired"
                    /\ MayPreempt(m, core.holder)
    IN  IF transfer /\ epoch = 0 THEN Answer("stale_epoch", core, FALSE)
        ELSE IF transfer /\ running THEN Answer("transfer_unsupported_running", core, FALSE)
        ELSE RequestAuthority(core, age, m, c, profile, window)

\* argus_mqtt_session_release_authority.
ReleaseAuthority(core, m) ==
    IF core.holder # m THEN Answer("not_owner", core, FALSE)
    ELSE Answer("released",
                AdvanceEpoch([core EXCEPT !.holder = Nobody, !.conn = 0, !.hbconn = 0,
                                          !.counter = 0, !.link = "offline"]), FALSE)

\* argus_mqtt_session_accept_heartbeat.
AcceptsHeartbeat(core, m, c, session, n) ==
    /\ core.session = session
    /\ ~(core.conn \notin {0, c} /\ core.link = "online" /\ core.holder # m)
    /\ core.hbconn = c /\ core.counter # 0 => IsNewer(n, core.counter)

AcceptHeartbeat(core, m, c, n) ==
    [core EXCEPT !.holder = m, !.conn = c, !.hbconn = c, !.counter = n, !.link = "online"]

\* argus_mqtt_session_tick: the heartbeat's binding survives the lease.
SessionTick(core, age) ==
    IF (core.holder # Nobody \/ core.link = "online") /\ age = "expired"
    THEN AdvanceEpoch([core EXCEPT !.link = "stale", !.conn = 0, !.holder = Nobody])
    ELSE core

\* argus_mqtt_session_disconnect: only the binding goes, the lease stays.
SessionDisconnect(core, c) ==
    IF c \in {core.conn, core.hbconn}
    THEN [core EXCEPT !.conn = 0, !.hbconn = 0, !.counter = 0, !.link = "offline"]
    ELSE core

---------------------------------------------------------------------------
(* Commands.                                                               *)

\* The epoch of a command is not compared.
CommandAdmissionCheckMutant(core, m) ==
    IF m.session # core.session THEN "session_mismatch"
    ELSE IF core.link # "online" \/ core.holder # m.from \/ core.conn # m.conn
    THEN "not_authority_holder"
    ELSE "ok"

\* argus_mqtt_command_admission_check.
CommandAdmissionCheck(core, m) ==
    IF m.session # core.session THEN "session_mismatch"
    ELSE IF core.link # "online" \/ core.holder # m.from \/ core.conn # m.conn
    THEN "not_authority_holder"
    ELSE IF m.epoch # core.epoch THEN "stale_epoch"
    ELSE "ok"

\* A sequence number counts as a duplicate only with everything else equal.
CheckSequenceMutant(core, cmd) ==
    IF core.last = NoCommand THEN "first"
    ELSE IF cmd = core.last THEN "duplicate"
    ELSE IF IsNewer(cmd.n, core.last.n) \/ cmd.n = core.last.n THEN "newer" ELSE "stale"

\* argus_mqtt_session_check_sequence.
CheckSequence(core, cmd) ==
    IF core.last = NoCommand THEN "first"
    ELSE IF cmd.n = core.last.n THEN IF cmd = core.last THEN "duplicate" ELSE "conflict"
    ELSE IF IsNewer(cmd.n, core.last.n) THEN "newer" ELSE "stale"

\* argus_mqtt_session_commit_result.
CommitResult(core, cmd) == [core EXCEPT !.last = cmd]
=============================================================================
