------------------------------ MODULE StaLink ------------------------------
(***************************************************************************)
(* The station interface of argus_net_mgr.c: connecting to the plant's     *)
(* access point, retrying after a failure, applying a new configuration    *)
(* and giving the interface up for local service or security recovery.     *)
(*                                                                         *)
(* Four things happen beside each other.  The Wi-Fi driver associates,     *)
(* gets an address or loses the link; its callback, wifi_event_handler,    *)
(* sets the atomic flags at once and posts an event tagged with            *)
(* s_active_transaction_generation.  Two timers post events with the       *)
(* generation they were started for.  The network manager's task handles   *)
(* the events one by one, later, and drops those that are out of date.     *)
(* The console task enters local service on its own.  The queue drops an   *)
(* event when it is full.  Lifecycle models the same task as far as the    *)
(* authority over the pump is concerned; here the broker and the authority *)
(* are left out.                                                           *)
(***************************************************************************)
EXTENDS Naturals, Sequences, SequencesExt

CONSTANTS
    EventQueueLength, \* 10: depth of s_event_queue
    AuthLimit,        \* 3: authentication failures in a row that end the retries
    MaxGen            \* bound on s_timer_generation

ASSUME StaLinkAssumption == EventQueueLength \in Nat \ {0} /\ AuthLimit \in Nat \ {0} /\ MaxGen \in Nat

VARIABLES
    mode,        \* s_net_mode
    sta,         \* s_sta_state
    radio,       \* the driver: off, down, trying, linked, online
    flags,       \* s_sta_started, s_sta_connected, s_sta_ip_acquired
    txn,         \* s_wifi_transaction
    tag,         \* s_active_transaction_generation
    tgen,        \* s_timer_generation
    retry,       \* s_auto_retry_timer and its generation
    iptimer,     \* s_ip_timeout_timer and its generation
    authFailures,\* s_auth_failures
    s_event_queue, \* the queue of the network manager's task
    pc,          \* where the network manager's task and the console's are
    lost,        \* an event was dropped (history)
    abandoned    \* a transaction or a service entry failed half way, or was refused its
                 \* connection by a station already online; a new attempt ends it (history)

timers == <<tgen, retry, iptimer>>
driver == <<radio, flags>>
history == <<lost, abandoned>>
staVars == <<mode, sta, driver, txn, tag, timers, authFailures, s_event_queue, pc, history>>

Operational == {"UNCOMMISSIONED_AP", "AP_DISCOVERABLE", "NETWORK_FAULT"}
Service == {"SERVICE_TRANSITION", "SERVICE_AP_ONLY",
            "SECURITY_RECOVERY_TRANSITION", "SECURITY_RECOVERY_AP_ONLY"}
StaStates == {"DISABLED", "IDLE", "CONNECTING", "ASSOCIATED_WAITING_IP", "CONNECTED",
              "RETRY_WAIT", "ACTION_REQUIRED"}
ApplyStates == {"IDLE", "PREPARING", "WAITING_DISCONNECT", "CONNECTING", "COMPLETE",
                "FAILED", "CANCELLED"}

Absent == [started |-> FALSE, connected |-> FALSE, ip |-> FALSE]
Started == [Absent EXCEPT !.started = TRUE]
Off == [armed |-> FALSE, gen |-> 0]
NoTransaction == [active |-> FALSE, kind |-> "NONE", gen |-> 0, state |-> "IDLE",
                  staged |-> FALSE, wasUp |-> FALSE]

Event(type, gen) == [type |-> type, gen |-> gen, reason |-> "none"]
Disconnected(gen, reason) == [type |-> "DISCONNECTED", gen |-> gen, reason |-> reason]

\* argus_net_classify_disconnect: the driver's reasons that speak of the
\* credentials, here one of them, against those that speak of the access point.
Reasons == {"AUTH_FAIL", "NO_AP_FOUND"}
ClassifyDisconnect(reason) ==
    IF reason = "AUTH_FAIL" THEN "AUTHENTICATION" ELSE "AP_UNAVAILABLE"

\* argus_net_mgr_init, without and with a configuration.
StaInit ==
    /\ \/ mode = "UNCOMMISSIONED_AP" /\ sta = "DISABLED" /\ radio = "off" /\ flags = Absent
       \/ /\ mode = "AP_DISCOVERABLE" /\ flags = Started
          /\ \/ sta = "CONNECTING" /\ radio = "trying"
             \/ sta = "IDLE" /\ radio = "down"
    /\ txn = NoTransaction /\ tag = 0
    /\ tgen = 0 /\ retry = Off /\ iptimer = Off
    /\ authFailures = 0
    /\ s_event_queue = <<>>
    /\ pc = [net |-> "idle", cli |-> "idle"]
    /\ lost = FALSE /\ abandoned = FALSE

HasRoom == tgen < MaxGen

\* argus_net_mgr_post_event, for one or several events at once.
Post(events) ==
    LET room == EventQueueLength - Len(s_event_queue)
        fit == IF Len(events) <= room THEN Len(events) ELSE room
    IN  /\ s_event_queue' = s_event_queue \o SubSeq(events, 1, fit)
        /\ lost' = (lost \/ fit < Len(events))

(***************************************************************************)
(* The driver and its callback.                                            *)
(***************************************************************************)
RadioStep ==
    /\ HasRoom
    /\ UNCHANGED <<mode, sta, txn, tag, timers, authFailures, pc, abandoned>>

Associates ==
    /\ radio = "trying"
    /\ radio' = "linked"
    /\ flags' = [flags EXCEPT !.connected = TRUE]
    /\ Post(<<Event("ASSOCIATED", tag)>>)
    /\ RadioStep

GetsAddress ==
    /\ radio = "linked"
    /\ radio' = "online"
    /\ flags' = [flags EXCEPT !.ip = TRUE]
    /\ Post(<<Event("IP_ACQUIRED", tag)>>)
    /\ RadioStep

\* An attempt fails or the link is lost, for one reason or another.
LinkFails ==
    /\ radio \in {"trying", "linked", "online"}
    /\ radio' = "down"
    /\ flags' = [flags EXCEPT !.connected = FALSE, !.ip = FALSE]
    /\ \E reason \in Reasons : Post(<<Disconnected(tag, reason)>>)
    /\ RadioStep

\* esp_wifi_connect, modelled from its use: it refuses a station that is off or
\* already associated and may fail otherwise.
ConnectOutcomes ==
    {[ok |-> FALSE, radio |-> radio]} \cup
    (IF radio \in {"down", "trying"} THEN {[ok |-> TRUE, radio |-> "trying"]} ELSE {})

(***************************************************************************)
(* Timers.  Each callback reads the generation its timer was started with. *)
(***************************************************************************)
RetryExpires ==
    /\ retry.armed /\ HasRoom
    /\ retry' = [retry EXCEPT !.armed = FALSE]
    /\ Post(<<Event("WAKEUP", retry.gen)>>)
    /\ UNCHANGED <<mode, sta, driver, txn, tag, tgen, iptimer, authFailures, pc, abandoned>>

IpTimeoutExpires ==
    /\ iptimer.armed /\ HasRoom
    /\ iptimer' = [iptimer EXCEPT !.armed = FALSE]
    /\ Post(<<Event("IP_TIMEOUT", iptimer.gen)>>)
    /\ UNCHANGED <<mode, sta, driver, txn, tag, tgen, retry, authFailures, pc, abandoned>>

\* xTimerStop: the command queue of the timer task may be full.
StopOutcomes(timer) == {timer, [timer EXCEPT !.armed = FALSE]}
TimersStopped == ~retry'.armed /\ ~iptimer'.armed

(***************************************************************************)
(* Which events count.                                                     *)
(***************************************************************************)
\* argus_net_decide_sta_event
Decide(type, gen) ==
    LET active == IF type = "IP_TIMEOUT" THEN tgen ELSE tag
        plausible == CASE type = "ASSOCIATED"   -> flags.started /\ flags.connected
                       [] type = "IP_ACQUIRED"  -> flags.started /\ flags.connected /\ flags.ip
                       [] type = "DISCONNECTED" -> flags.started /\ ~flags.connected /\ ~flags.ip
                       [] type = "IP_TIMEOUT"   -> flags.started /\ ~flags.ip
                       [] type = "STOPPED"      -> flags = Absent
    IN  IF mode \in {"SERVICE_AP_ONLY", "SECURITY_RECOVERY_AP_ONLY"}
        THEN IF type \in {"DISCONNECTED", "STOPPED"} THEN "CONFIRM_DISABLED" ELSE "IGNORE"
        ELSE IF mode \in Operational /\ gen = active /\ plausible THEN "PROCESS" ELSE "IGNORE"

\* argus_net_apply_sta_event_action, for the events that are not processed.
NotProcessed(action) ==
    /\ flags' = IF mode \in Service THEN Absent ELSE flags
    /\ sta' = IF action = "CONFIRM_DISABLED" THEN "DISABLED" ELSE sta

Taken(type) ==
    /\ pc.net = "idle" /\ s_event_queue # <<>> /\ Head(s_event_queue).type = type
    /\ s_event_queue' = Tail(s_event_queue)

\* s_net_mutex: the console task holds it only within a step.
NetFree == pc.net # "prepare"

(***************************************************************************)
(* Wi-Fi transactions.                                                     *)
(***************************************************************************)
FinishError == [txn EXCEPT !.active = FALSE, !.state = "FAILED", !.staged = FALSE]
Cancelled == [txn EXCEPT !.active = FALSE, !.state = "CANCELLED", !.staged = FALSE]
EventMatches(event) == txn.active /\ txn.gen # 0 /\ txn.gen = event.gen

\* What an event means to the active transaction: the disconnection it asked
\* for, the failure of its attempt, or its success.
Resumes(event) == EventMatches(event) /\ txn.state = "WAITING_DISCONNECT"
Fails(event) == EventMatches(event) /\ txn.state = "CONNECTING"
Completes(event) == EventMatches(event) /\ txn.state = "CONNECTING"
Complete == [txn EXCEPT !.active = FALSE, !.state = "COMPLETE", !.staged = FALSE]

\* argus_net_can_manual_reconnect
CanReconnect ==
    mode \in {"AP_DISCOVERABLE", "NETWORK_FAULT"} /\ sta \in {"ACTION_REQUIRED", "RETRY_WAIT", "IDLE"}

\* wifi_transaction_begin up to the wait for the broker: the timers are stopped,
\* or the transaction fails.
Begin(kind) ==
    /\ tgen' = tgen + 1
    /\ retry' \in StopOutcomes(retry) /\ iptimer' \in StopOutcomes(iptimer)
    /\ LET begun == [active |-> TRUE, kind |-> kind, gen |-> tgen + 1, state |-> "PREPARING",
                     staged |-> FALSE, wasUp |-> flags.connected]
       IN  IF TimersStopped
           THEN /\ txn' = begun /\ tag' = tgen + 1
                /\ pc' = [pc EXCEPT !.net = "prepare"]
                /\ UNCHANGED abandoned
           ELSE /\ txn' = [begun EXCEPT !.active = FALSE, !.state = "FAILED"]
                /\ tag' = 0 /\ abandoned' = TRUE
                /\ UNCHANGED pc
    /\ UNCHANGED <<mode, sta, driver, authFailures, lost>>

Skip == UNCHANGED <<mode, sta, driver, txn, tag, timers, authFailures, pc, history>>

HandleReconnect ==
    /\ Taken("RECONNECT")
    /\ IF CanReconnect /\ ~txn.active THEN Begin("RECONNECT") ELSE Skip

HandleApply ==
    /\ Taken("APPLY")
    /\ IF txn.active THEN Skip
       ELSE IF mode \in Operational THEN Begin("APPLY")
       ELSE /\ tgen' = tgen + 1 /\ tag' = 0
            /\ UNCHANGED <<mode, sta, driver, txn, retry, iptimer, authFailures, pc, history>>

\* The broker did not stop, or the configuration is missing or unusable.
PrepareFails ==
    /\ pc.net = "prepare"
    /\ txn' = FinishError /\ tag' = 0
    /\ pc' = [pc EXCEPT !.net = "idle"]
    /\ abandoned' = TRUE
    /\ UNCHANGED <<mode, sta, driver, timers, authFailures, s_event_queue, lost>>

\* wifi_transaction_connect: the configuration is set (which may fail), the
\* staged copy erased and a connection asked for.  Setting it turns the station on.
ConnectStation ==
    LET on == [radio |-> IF radio = "off" THEN "down" ELSE radio,
               flags |-> [flags EXCEPT !.started = TRUE]]
    IN  \/ /\ txn.kind = "APPLY"
           /\ txn' = FinishError /\ tag' = 0 /\ abandoned' = TRUE
           /\ UNCHANGED <<sta, driver>>
        \/ /\ IF txn.kind = "APPLY" THEN flags' = on.flags ELSE UNCHANGED flags
           /\ \/ /\ radio' = "trying"
                 /\ IF txn.kind = "APPLY" THEN on.radio \in {"down", "trying"}
                                          ELSE radio \in {"down", "trying"}
                 /\ sta' = "CONNECTING"
                 /\ txn' = [txn EXCEPT !.state = "CONNECTING", !.staged = FALSE]
                 /\ abandoned' = ~flags'.started
                 /\ UNCHANGED tag
              \/ /\ IF txn.kind = "APPLY" THEN radio' = on.radio ELSE UNCHANGED radio
                 /\ sta' = "IDLE"
                 /\ txn' = FinishError /\ tag' = 0
                 /\ abandoned' = (abandoned \/ radio' = "online")

\* The rest of wifi_transaction_begin.  A station that was up when the
\* transaction began is disconnected first; the event resumes the transaction.
PrepareEnds ==
    /\ pc.net = "prepare"
    /\ pc' = [pc EXCEPT !.net = "idle"]
    /\ IF txn.wasUp
       THEN \/ /\ txn' = [txn EXCEPT !.state = "WAITING_DISCONNECT", !.staged = TRUE]
               /\ IF radio \in {"linked", "online"}
                  THEN /\ radio' = "down"
                       /\ flags' = [flags EXCEPT !.connected = FALSE, !.ip = FALSE]
                       /\ Post(<<Disconnected(tag, "NO_AP_FOUND")>>)
                  ELSE UNCHANGED <<driver, s_event_queue, lost>>
               /\ UNCHANGED <<sta, tag, abandoned>>
            \/ /\ txn' = FinishError /\ tag' = 0 /\ abandoned' = TRUE
               /\ UNCHANGED <<sta, driver, s_event_queue, lost>>
       ELSE ConnectStation /\ UNCHANGED <<s_event_queue, lost>>
    /\ UNCHANGED <<mode, timers, authFailures>>

(***************************************************************************)
(* The network manager's task: events of the driver and the timers.        *)
(***************************************************************************)
HandleWakeup ==
    /\ Taken("WAKEUP")
    /\ IF Head(s_event_queue).gen = tgen /\ sta = "RETRY_WAIT"
       THEN \E c \in ConnectOutcomes :
                radio' = c.radio /\ sta' = IF c.ok THEN "CONNECTING" ELSE "IDLE"
       ELSE UNCHANGED <<radio, sta>>
    /\ UNCHANGED <<mode, flags, txn, tag, timers, authFailures, pc, history>>

HandleAssociated ==
    /\ Taken("ASSOCIATED")
    /\ LET action == Decide("ASSOCIATED", Head(s_event_queue).gen)
       IN  IF action = "PROCESS"
           THEN /\ \/ sta' = "ASSOCIATED_WAITING_IP" /\ iptimer' = [armed |-> TRUE, gen |-> tgen]
                   \/ sta' = "IDLE" /\ iptimer' = [iptimer EXCEPT !.gen = tgen]
                /\ UNCHANGED flags
           ELSE NotProcessed(action) /\ UNCHANGED iptimer
    /\ UNCHANGED <<mode, radio, txn, tag, tgen, retry, authFailures, pc, history>>

HandleAddress ==
    /\ Taken("IP_ACQUIRED")
    /\ LET event == Head(s_event_queue)
           action == Decide("IP_ACQUIRED", event.gen)
       IN  IF action = "PROCESS"
           THEN /\ tgen' = tgen + 1
                /\ iptimer' \in StopOutcomes(iptimer) /\ retry' \in StopOutcomes(retry)
                /\ txn' = IF Completes(event) THEN Complete
                          ELSE IF ~txn.active /\ txn.state = "FAILED" THEN NoTransaction ELSE txn
                /\ tag' = IF Completes(event) THEN 0 ELSE tag
                /\ sta' = "CONNECTED"
                /\ authFailures' = 0
                /\ mode' = IF mode = "AP_DISCOVERABLE" THEN mode ELSE "AP_DISCOVERABLE"
                /\ UNCHANGED flags
           ELSE /\ NotProcessed(action)
                /\ UNCHANGED <<mode, txn, tag, timers, authFailures>>
    /\ UNCHANGED <<radio, pc, history>>

\* argus_net_failure_evidence_record: authentication failures in a row, counted
\* no further than the limit.
Evidence(category) ==
    IF category # "AUTHENTICATION" THEN 0
    ELSE IF authFailures < AuthLimit THEN authFailures + 1 ELSE AuthLimit

EvaluateRetry(category, failures) ==
    IF category = "AUTHENTICATION" /\ failures >= AuthLimit THEN "ACTION_REQUIRED" ELSE "RETRY_WAIT"

\* A plausible slip: the timer is started for the generation before.
FailureRecordedMutant(category) ==
    LET failures == Evidence(category)
    IN  /\ authFailures' = failures
        /\ sta' = EvaluateRetry(category, failures)
        /\ IF sta' = "RETRY_WAIT"
           THEN tgen' = tgen + 1 /\ retry' = [armed |-> TRUE, gen |-> tgen]
           ELSE UNCHANGED <<tgen, retry>>

\* A failed attempt or a lost link: retry in fifteen seconds, or stop retrying.
FailureRecorded(category) ==
    LET failures == Evidence(category)
        next == EvaluateRetry(category, failures)
    IN  /\ authFailures' = failures
        /\ \/ next = "ACTION_REQUIRED" /\ sta' = next /\ UNCHANGED <<tgen, retry>>
           \/ /\ next = "RETRY_WAIT" /\ tgen' = tgen + 1
              /\ \/ sta' = next /\ retry' = [armed |-> TRUE, gen |-> tgen + 1]
                 \/ sta' = "IDLE" /\ retry' = [retry EXCEPT !.gen = tgen + 1]

\* A disconnection: the transaction's own, or a failure, of a transaction's
\* attempt or of another.
HandleDisconnected ==
    /\ Taken("DISCONNECTED")
    /\ LET event == Head(s_event_queue)
           action == Decide("DISCONNECTED", event.gen)
       IN  IF action # "PROCESS"
           THEN NotProcessed(action) /\ UNCHANGED <<radio, txn, tag, timers, authFailures, abandoned>>
           ELSE /\ iptimer' \in StopOutcomes(iptimer)
                /\ IF Resumes(event)
                   THEN ConnectStation /\ UNCHANGED <<tgen, retry, authFailures>>
                   ELSE /\ txn' = IF Fails(event) THEN FinishError ELSE txn
                        /\ tag' = IF Fails(event) THEN 0 ELSE tag
                        /\ FailureRecorded(ClassifyDisconnect(event.reason))
                        /\ UNCHANGED <<driver, abandoned>>
    /\ UNCHANGED <<mode, pc, lost>>

HandleIpTimeout ==
    /\ Taken("IP_TIMEOUT")
    /\ LET action == Decide("IP_TIMEOUT", Head(s_event_queue).gen)
       IN  IF action # "PROCESS"
           THEN NotProcessed(action) /\ UNCHANGED <<timers, authFailures>>
           ELSE /\ iptimer' \in StopOutcomes(iptimer)
                /\ FailureRecorded("IP_TIMEOUT")
                /\ UNCHANGED flags
    /\ UNCHANGED <<mode, radio, txn, tag, pc, history>>

HandleStopped ==
    /\ Taken("STOPPED")
    /\ LET action == Decide("STOPPED", Head(s_event_queue).gen)
       IN  CASE action = "CONFIRM_DISABLED" -> NotProcessed(action) /\ UNCHANGED mode
             [] action = "PROCESS" -> sta' = "DISABLED" /\ mode' = "NETWORK_FAULT" /\ UNCHANGED flags
             [] OTHER -> UNCHANGED <<sta, flags, mode>>
    /\ UNCHANGED <<radio, txn, tag, timers, authFailures, pc, history>>

(***************************************************************************)
(* Giving the station up.                                                  *)
(***************************************************************************)
\* esp_wifi_disconnect and esp_wifi_set_mode(WIFI_MODE_AP): how far it gets.
Shutdown ==
    LET leaves == IF radio \in {"trying", "linked", "online"}
                  THEN <<Disconnected(tag, "NO_AP_FOUND")>> ELSE <<>>
        stops == IF radio # "off" THEN <<Event("STOPPED", tag)>> ELSE <<>>
    IN  {[radio |-> radio, flags |-> flags, events |-> <<>>],
         [radio |-> IF radio = "off" THEN "off" ELSE "down",
          flags |-> [flags EXCEPT !.connected = FALSE, !.ip = FALSE], events |-> leaves],
         [radio |-> "off", flags |-> Absent, events |-> leaves \o stops]}

\* A plausible slip: the generation stays.
CancelRecoveryMutant ==
    /\ UNCHANGED tgen
    /\ tag' = 0
    /\ txn' = Cancelled
    /\ retry' \in {[r EXCEPT !.gen = 0] : r \in StopOutcomes(retry)}
    /\ iptimer' \in {[t EXCEPT !.gen = 0] : t \in StopOutcomes(iptimer)}

\* argus_net_cancel_recovery_for_service
CancelRecovery ==
    /\ tgen' = tgen + 1
    /\ tag' = 0
    /\ txn' = Cancelled
    /\ retry' \in {[r EXCEPT !.gen = 0] : r \in StopOutcomes(retry)}
    /\ iptimer' \in {[t EXCEPT !.gen = 0] : t \in StopOutcomes(iptimer)}

\* Service entry as far as it concerns the station (the policy's other
\* conditions are on the authority): the recovery is cancelled, or the entry
\* refused because a timer could not be stopped.
EnterService(task) ==
    /\ pc.net # "prepare" /\ pc[task] = "idle" /\ HasRoom
    /\ mode \in {"AP_DISCOVERABLE", "UNCOMMISSIONED_AP"}
    /\ CancelRecovery
    /\ IF TimersStopped
       THEN mode' = "SERVICE_TRANSITION" /\ pc' = [pc EXCEPT ![task] = "service"] /\ UNCHANGED sta
       ELSE sta' = "ACTION_REQUIRED" /\ UNCHANGED <<mode, pc>>
    /\ UNCHANGED <<driver, authFailures, s_event_queue, history>>

\* The entry succeeds with the station off, or is aborted at some stage.
ServiceEnds(task) ==
    /\ pc[task] = "service" /\ NetFree
    /\ pc' = [pc EXCEPT ![task] = "idle"]
    /\ \E s \in Shutdown :
         /\ radio' = s.radio /\ flags' = s.flags /\ Post(s.events)
         /\ \/ /\ s.radio = "off" /\ s.flags = Absent
               /\ sta' = "DISABLED" /\ mode' = "SERVICE_AP_ONLY" /\ UNCHANGED abandoned
            \/ /\ mode' = "NETWORK_FAULT" /\ abandoned' = TRUE
               /\ sta' \in {sta} \cup (IF s.flags = Absent THEN {"DISABLED"} ELSE {})
    /\ UNCHANGED <<txn, tag, timers, authFailures>>

\* set_net_mode for a mode in which the station is not used.
LeaveOperation(newMode) ==
    /\ mode' = newMode
    /\ tgen' = tgen + 1 /\ tag' = 0 /\ txn' = Cancelled
    /\ retry' \in StopOutcomes(retry) /\ iptimer' \in StopOutcomes(iptimer)

\* enter_security_recovery_network, in the network manager's task.
RecoveryBegins ==
    /\ Taken("RECOVERY")
    /\ IF mode = "SECURITY_RECOVERY_AP_ONLY" THEN Skip
       ELSE /\ LeaveOperation("SECURITY_RECOVERY_TRANSITION")
            /\ sta' = "DISABLED" /\ authFailures' = 0
            /\ pc' = [pc EXCEPT !.net = "recovery"]
            /\ UNCHANGED <<driver, history>>

RecoveryEnds ==
    /\ pc.net = "recovery"
    /\ pc' = [pc EXCEPT !.net = "idle"]
    /\ \E s \in Shutdown :
         /\ radio' = s.radio /\ flags' = s.flags /\ Post(s.events)
         /\ \/ s.radio = "off" /\ LeaveOperation("SECURITY_RECOVERY_AP_ONLY") /\ UNCHANGED abandoned
            \/ mode' = "NETWORK_FAULT" /\ abandoned' = TRUE /\ UNCHANGED <<txn, tag, timers>>
    /\ UNCHANGED <<sta, authFailures>>

\* The portal and the recovery button post their requests.
Request ==
    /\ HasRoom
    /\ \E type \in {"RECONNECT", "APPLY", "RECOVERY"} :
         /\ type = "RECONNECT" => CanReconnect
         /\ Len(s_event_queue) < EventQueueLength /\ s_event_queue' = Append(s_event_queue, Event(type, 0))
    /\ UNCHANGED <<mode, sta, driver, txn, tag, timers, authFailures, pc, history>>

Handle ==
    \/ HandleReconnect \/ HandleApply \/ HandleWakeup \/ HandleAssociated \/ HandleAddress
    \/ HandleDisconnected \/ HandleIpTimeout \/ HandleStopped \/ RecoveryBegins

StaNext ==
    \/ Associates \/ GetsAddress \/ LinkFails
    \/ RetryExpires \/ IpTimeoutExpires
    \/ Request
    \/ Handle /\ NetFree
    \/ PrepareFails \/ PrepareEnds
    \/ \E task \in {"net", "cli"} : EnterService(task) \/ ServiceEnds(task)
    \/ RecoveryEnds

StaSpec == StaInit /\ [][StaNext]_staVars

(***************************************************************************)
(* Properties.                                                             *)
(***************************************************************************)
StaTypeOK ==
    /\ mode \in Operational \cup Service
    /\ sta \in StaStates /\ txn.state \in ApplyStates
    /\ radio \in {"off", "down", "trying", "linked", "online"}
    /\ tag \in 0..tgen /\ Len(s_event_queue) <= EventQueueLength
    /\ authFailures \in 0..AuthLimit

\* Between two events the tag given to the driver's events names the active
\* transaction, and is 0 when there is none: otherwise every event of the
\* driver would be ignored (s_active_transaction_generation).
TagNamesTransaction == tag = IF txn.active THEN txn.gen ELSE 0

\* The staged copy of the password outlives a step only while the transaction
\* waits for the link to go down (wifi_transaction_scrub_config).
SecretsScrubbed == txn.staged => txn.active /\ txn.state = "WAITING_DISCONNECT"

Pending(type, gen) == \E k \in DOMAIN s_event_queue : s_event_queue[k].type = type /\ s_event_queue[k].gen = gen
DriverPending == \E type \in {"ASSOCIATED", "IP_ACQUIRED", "DISCONNECTED"} : Pending(type, tag)

\* A retry that is announced will come.
RetryScheduled ==
    sta = "RETRY_WAIT" /\ ~txn.active =>
        \/ retry.armed /\ retry.gen = tgen
        \/ Pending("WAKEUP", tgen)

\* A station that waits has something to wait for: its timer, the driver, or an
\* event that is queued and will not be dropped as out of date.
StationAlive ==
    mode \in Operational /\ pc.net = "idle" =>
        /\ RetryScheduled
        /\ sta = "CONNECTING" => radio = "trying" \/ DriverPending
        /\ sta = "ASSOCIATED_WAITING_IP" =>
               \/ iptimer.armed /\ iptimer.gen = tgen
               \/ Pending("IP_TIMEOUT", tgen) \/ DriverPending
        /\ sta = "CONNECTED" => radio = "online" \/ DriverPending
        /\ txn.active /\ txn.state = "WAITING_DISCONNECT" => Pending("DISCONNECTED", tag)

\* Unless an event was lost to a full queue, or a transaction or a service
\* entry failed half way and no new attempt was made since, a station in use is
\* never stuck: no order of driver, timers, requests and task leaves it waiting
\* for what cannot come (argus_net_mgr_task and its handlers).
NeverStuck == ~lost /\ ~abandoned => StationAlive

StaysQuiet ==
    mode \in Service /\ mode' \in Service =>
        (radio' = "trying" => radio = "trying") /\ sta' \in {sta, "DISABLED"}

\* While the pump is in local service or security recovery no event, timer or
\* request starts the station: neither the driver nor its state leaves rest
\* (argus_net_cancel_recovery_for_service, argus_net_decide_sta_event).
QuietInService == [][StaysQuiet]_staVars

\* The guidance "Automatic retry scheduled" is given when it is true
\* (argus_net_mgr_get_operator_guidance).
GuidanceTruthful == ~lost /\ mode \in Operational /\ ~txn.active => RetryScheduled

=============================================================================
