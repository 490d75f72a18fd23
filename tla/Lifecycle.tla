----------------------------- MODULE Lifecycle -----------------------------
(***************************************************************************)
(* Who controls the pump, and how control changes hands: the command       *)
(* router (argus_cmd_router.c), service entry and exit, security recovery  *)
(* and Wi-Fi transactions of the network manager (argus_net_mgr.c), the    *)
(* restart transaction (argus_restart_mgr.c) and the factory reset         *)
(* (argus_factory_reset.c).                                                *)
(*                                                                         *)
(* Two tasks change the lifecycle: the network manager's task, from its    *)
(* event queue, and the console task, which calls service entry and exit   *)
(* directly.  They meet at s_net_mutex and s_dispatch_mutex and give both  *)
(* up while they wait for the HTTP server to stop.  Commands are           *)
(* dispatched by the MQTT runtime, the portal's handlers and the console.  *)
(*                                                                         *)
(* The machine is argus_state_mgr.c as this code sees it: REST is HOLDING  *)
(* or UNLOCKED, MOVING is STARTING or RUNNING.  link is the station        *)
(* interface: absent in AP-only operation.                                 *)
(***************************************************************************)
EXTENDS Authority, Sequences, FiniteSets

CONSTANTS
    Clients,         \* the sources that send commands
    Commands,        \* the command types they send
    Requests,        \* the lifecycle requests that are made
    QueueLength,     \* 10: depth of s_event_queue
    MaxGeneration,   \* bound on the authority generation requests start at
    Commissioned     \* BOOLEAN: whether NVS holds a configuration at boot

PortalRequests == {"service_enter", "service_exit", "restart", "factory_reset",
                   "wifi", "reconnect"}
ConsoleRequests == {"console_enter", "console_exit"}

ASSUME LifecycleAssumption ==
    /\ Commands \subseteq {"SET_TARGET", "START", "STOP_NORMAL", "UNLOCK",
                           "RESET_ESTOP", "RECOVER"}
    /\ Clients \subseteq Sources
    /\ Requests \subseteq PortalRequests \cup ConsoleRequests \cup {"recovery"}
    /\ QueueLength \in Nat \ {0} /\ MaxGeneration \in Nat
    /\ Commissioned \in BOOLEAN

Tasks == {"net", "cli"}

VARIABLES
    authority,     \* s_authority
    netMode,       \* s_net_mode
    netHolder,     \* who holds s_net_mutex
    dispatchHolder,\* who holds s_dispatch_mutex
    machine,       \* machine_state, as above, and estop_latched
    broker,        \* the MQTT broker runs
    link,          \* the station interface
    txn,           \* s_wifi_transaction: "none" when it is not active
    http,          \* the HTTP server runs
    portal,        \* the request a handler is serving
    queue,         \* s_event_queue
    resetPending,  \* s_factory_reset_pending
    commissioned,  \* NVS holds a valid configuration
    recovery,      \* NVS holds a request for security recovery
    env,           \* the command each source is dispatching
    pc,            \* where each task is
    mem            \* what each task remembers across its waits

vars == <<authority, netMode, netHolder, dispatchHolder, machine, broker, link,
          txn, http, portal, queue, resetPending, commissioned, recovery, env, pc, mem>>

NetModes == {"UNCOMMISSIONED_AP", "AP_DISCOVERABLE", "SERVICE_TRANSITION",
             "SERVICE_AP_ONLY", "NETWORK_FAULT",
             "SECURITY_RECOVERY_TRANSITION", "SECURITY_RECOVERY_AP_ONLY"}
Operational == {"UNCOMMISSIONED_AP", "AP_DISCOVERABLE", "NETWORK_FAULT"}
MachineStates == {"REST", "MOVING", "DECELERATING", "RECOVERING",
                  "EMERGENCY_STOPPED", "FAULTED"}

NoEnv == [command |-> "none", generation |-> 0, admitted |-> FALSE]
NoEvent == [type |-> "none"]
NoMemory == [event |-> NoEvent, generation |-> 0, httpStopped |-> FALSE]

OwnerOf(task) == IF task = "net" THEN "BROWSER" ELSE "DIAGNOSTIC_CLI"

AtBoot == [mode |-> "NONE", owner |-> "NONE", generation |-> 2]

\* argus_net_mgr_init with a configuration: the broker starts and the station
\* connects, or not.
CommissionedBoots ==
    {[mode |-> "AP_DISCOVERABLE", link |-> l, broker |-> running,
      authority |-> IF running THEN SetMode(AtBoot, "SUPERVISORY", "MQTT") ELSE AtBoot] :
         l \in {"connecting", "idle"}, running \in BOOLEAN}

\* What a boot leads to, given what NVS holds.
Boots(configured, recovering) ==
    LET apOnly(mode) == {[mode |-> mode, link |-> "absent", broker |-> FALSE,
                          authority |-> AtBoot]}
    IN  IF recovering THEN apOnly("SECURITY_RECOVERY_AP_ONLY")
        ELSE IF ~configured THEN apOnly("UNCOMMISSIONED_AP")
        ELSE CommissionedBoots

Init ==
    /\ commissioned = Commissioned /\ recovery = FALSE
    /\ \E b \in Boots(Commissioned, FALSE) :
         /\ authority = b.authority /\ netMode = b.mode
         /\ broker = b.broker /\ link = b.link
    /\ netHolder = "none" /\ dispatchHolder = "none"
    /\ machine = [state |-> "REST", latched |-> FALSE]
    /\ txn = "none" /\ http = TRUE /\ portal = "idle" /\ queue = <<>>
    /\ resetPending = FALSE
    /\ env = [s \in Sources |-> NoEnv]
    /\ pc = [t \in Tasks |-> "idle"]
    /\ mem = [t \in Tasks |-> NoMemory]

\* Mutant: a decelerating machine passes for a stopped one.
AtRestMutant == machine.state \in {"REST", "DECELERATING"}

AtRest == machine.state = "REST"
Safe == AtRest /\ ~machine.latched

HasRoom == authority.generation < MaxGeneration

---------------------------------------------------------------------------
(* Groups of variables a step leaves alone.                                *)
locks == <<netHolder, dispatchHolder>>
network == <<broker, link, txn>>
requests == <<portal, queue, resetPending, env>>
store == <<commissioned, recovery>>

Goto(t, label) == pc' = [pc EXCEPT ![t] = label]
TakeNet(t) == netHolder = "none" /\ netHolder' = t
NetFree == netHolder = "none"
\* Mutant: the dispatch gate does not wait for a command in flight.
DispatchFreeMutant == TRUE

DispatchFree == dispatchHolder = "none"

---------------------------------------------------------------------------
(* The machine: argus_state_mgr.c seen from outside.                       *)

\* What a command can make of the machine m.  A refused command leaves it, and so
\* does one that waits 100 ms for s_command_mutex in vain.  A recovery under a
\* latched E-stop ends where it began to recover.
Outcomes(m, command) ==
    LET to(s) == [m EXCEPT !.state = s]
        when(states, results) == IF m.state \in states THEN {m} \cup results ELSE {m}
    IN  CASE command = "START" ->
               IF m.latched THEN {m} ELSE when({"REST"}, {to("MOVING"), to("FAULTED")})
          [] command = "STOP_NORMAL" ->
               when({"MOVING", "RECOVERING"}, {to("DECELERATING"), to("FAULTED")})
          [] command = "RESET_ESTOP" ->
               when({"EMERGENCY_STOPPED"}, {[state |-> "REST", latched |-> FALSE]})
          [] command = "RECOVER" ->
               when({"REST", "RECOVERING", "EMERGENCY_STOPPED", "FAULTED"},
                    IF m.latched THEN {to("RECOVERING")} ELSE {to("REST"), to("FAULTED")})
          [] command = "SET_TARGET" -> when({"MOVING"}, {to("FAULTED")})
          [] command = "UNLOCK" -> when({"RECOVERING"}, {to("REST")})

MachineStep(states, m) ==
    /\ machine.state \in states
    /\ machine' = m
    /\ UNCHANGED <<authority, netMode, locks, network, http, requests, store, pc, mem>>

\* An E-stop bypasses both mutexes and is accepted in every state.
Estop == MachineStep(MachineStates, [state |-> "EMERGENCY_STOPPED", latched |-> TRUE])
StopDone == MachineStep({"DECELERATING"}, [machine EXCEPT !.state = "REST"])
MachineFault == MachineStep({"MOVING", "DECELERATING"}, [machine EXCEPT !.state = "FAULTED"])

---------------------------------------------------------------------------
(* argus_cmd_router_dispatch                                               *)

\* A source builds an envelope from a snapshot of the authority.
BuildEnvelope(s) ==
    /\ env[s] = NoEnv
    /\ CASE s = "mqtt" -> broker
         [] s = "http" -> http /\ portal = "idle"
         [] s = "cli"  -> pc["cli"] = "idle"
    /\ \E c \in Commands :
         env' = [env EXCEPT ![s] = [command |-> c, generation |-> authority.generation,
                                    admitted |-> FALSE]]
    /\ UNCHANGED <<authority, netMode, locks, machine, network, http, portal, queue,
                   resetPending, store, pc, mem>>

\* The router checks generation and permission once it has s_dispatch_mutex.
Admit(s) ==
    /\ env[s] # NoEnv /\ ~env[s].admitted /\ DispatchFree
    /\ IF env[s].generation = authority.generation /\ Permitted(authority, s)
       THEN /\ env' = [env EXCEPT ![s].admitted = TRUE]
            /\ dispatchHolder' = s
       ELSE /\ env' = [env EXCEPT ![s] = NoEnv]
            /\ UNCHANGED dispatchHolder
    /\ UNCHANGED <<authority, netMode, netHolder, machine, network, http, portal, queue,
                   resetPending, store, pc, mem>>

\* The command runs with the mutex held.
Execute(s) ==
    /\ env[s].admitted
    /\ machine' \in Outcomes(machine, env[s].command)
    /\ env' = [env EXCEPT ![s] = NoEnv]
    /\ dispatchHolder' = "none"
    /\ UNCHANGED <<authority, netMode, netHolder, network, http, portal, queue,
                   resetPending, store, pc, mem>>

---------------------------------------------------------------------------
(* Service policy (argus_service_policy.c).                                *)

Fingerprint == [mode |-> netMode, authority |-> authority, broker |-> broker,
                link |-> link, txn |-> txn]

EntryPolicyOK ==
    \/ /\ netMode = "AP_DISCOVERABLE"
       /\ \/ authority.mode = "SUPERVISORY" /\ authority.owner = "MQTT"
          \/ /\ authority.mode = "NONE" /\ commissioned
             /\ link # "up" /\ ~broker
             /\ txn # "none" \/ link = "idle"
    \/ netMode = "UNCOMMISSIONED_AP" /\ authority.mode = "NONE"

\* A portal request carries the fingerprint its handler saw.
EntryPermitted(t) ==
    /\ EntryPolicyOK
    /\ mem[t].event # NoEvent => mem[t].event.preflight = Fingerprint

ExitPolicyOK ==
    /\ netMode = "SERVICE_AP_ONLY"
    /\ authority.mode = "LOCAL_SERVICE" /\ authority.owner = "BROWSER"

Converged == link = "absent" /\ ~broker

\* argus_net_can_manual_reconnect
CanReconnect ==
    /\ commissioned /\ link = "idle"
    /\ netMode \in {"AP_DISCOVERABLE", "NETWORK_FAULT"}

\* argus_factory_reset_evaluate_policy
ResetPolicyOK == txn = "none" /\ ExitPolicyOK /\ Safe /\ Converged

---------------------------------------------------------------------------
(* Requests and events.                                                    *)

Posted(q, evt) == IF Len(q) < QueueLength THEN Append(q, evt) ELSE q

HttpRequest ==
    /\ http /\ portal = "idle" /\ env["http"] = NoEnv /\ HasRoom
    /\ \E r \in Requests \cap PortalRequests : portal' = r
    /\ UNCHANGED <<authority, netMode, locks, machine, network, http, queue,
                   resetPending, env, store, pc, mem>>

\* Whether a handler posts its event: its policy is evaluated on a snapshot of
\* the network and the authority.
ServiceEnterAccepted == EntryPolicyOK
ServiceExitAccepted == ExitPolicyOK
RestartAccepted == Safe
FactoryResetAccepted == ResetPolicyOK /\ ~resetPending
ReconnectAccepted == CanReconnect
\* A configuration saved in a service session is applied by the restart that
\* ends it.
WifiAccepted == netMode \in {"UNCOMMISSIONED_AP", "AP_DISCOVERABLE"}

Accepted(request) ==
    CASE request = "service_enter" -> ServiceEnterAccepted
      [] request = "service_exit"  -> ServiceExitAccepted
      [] request = "restart"       -> RestartAccepted
      [] request = "factory_reset" -> FactoryResetAccepted
      [] request = "reconnect"     -> ReconnectAccepted
      [] request = "wifi"          -> WifiAccepted

EventFor(request) ==
    IF request = "service_enter" THEN [type |-> request, preflight |-> Fingerprint]
                                 ELSE [type |-> request]

\* The queue refuses an event when it is full.
ServeRequest ==
    /\ portal # "idle"
    /\ portal \in {"service_enter", "service_exit", "factory_reset", "reconnect"} => NetFree
    /\ queue' = IF Accepted(portal) THEN Posted(queue, EventFor(portal)) ELSE queue
    /\ resetPending' = (resetPending \/ (portal = "factory_reset" /\ queue' # queue))
    /\ commissioned' = (\/ commissioned
                        \/ portal = "wifi" /\ (Accepted(portal) \/ netMode = "SERVICE_AP_ONLY"))
    /\ portal' = "idle"
    /\ UNCHANGED <<authority, netMode, locks, machine, network, http, env, recovery, pc, mem>>

\* argus_local_recovery_commit: the request is stored, then posted.
RequestRecovery ==
    /\ "recovery" \in Requests /\ HasRoom
    /\ recovery' = TRUE
    /\ queue' = Posted(queue, [type |-> "recovery"])
    /\ UNCHANGED <<authority, netMode, locks, machine, network, http, portal,
                   resetPending, env, commissioned, pc, mem>>

\* wifi_event_handler: the station gets an address, or is lost, or a connection
\* attempt fails.  The flags change here, the rest when the event is handled.
LinkUp ==
    /\ link = "connecting" /\ txn # "waiting" /\ HasRoom
    /\ link' = "up"
    /\ queue' = Posted(queue, [type |-> "sta_connected"])
    /\ UNCHANGED <<authority, netMode, locks, machine, broker, txn, http, portal,
                   resetPending, env, store, pc, mem>>

LinkDown ==
    /\ link \in {"up", "connecting"}
    /\ link' = "idle"
    /\ queue' = Posted(queue, [type |-> "sta_disconnected"])
    /\ UNCHANGED <<authority, netMode, locks, machine, broker, txn, http, portal,
                   resetPending, env, store, pc, mem>>

\* The automatic reconnection, 15 s later; its timer is stopped when the mode
\* leaves normal operation.
LinkRetry ==
    /\ link = "idle" /\ netMode \in Operational /\ NetFree /\ pc["net"] = "idle"
    /\ link' = "connecting"
    /\ UNCHANGED <<authority, netMode, locks, machine, broker, txn, http, requests, store,
                   pc, mem>>

---------------------------------------------------------------------------
(* Service entry: argus_net_mgr_request_service_internal and               *)
(* argus_net_mgr_orchestrate_service_entry.                                *)

\* net_mgr_task takes the next event; the label it goes to is the first step of
\* that event's handler.
Handler ==
    [service_enter |-> "entry_policy", service_exit |-> "exit_lock",
     restart |-> "restart_gate", factory_reset |-> "reset_lock",
     wifi |-> "wifi_revoke", reconnect |-> "reconnect",
     recovery |-> "recovery_begin", sta_connected |-> "sta_connected",
     sta_disconnected |-> "sta_disconnected"]

NextEvent ==
    /\ pc["net"] = "idle" /\ queue # <<>>
    /\ queue' = Tail(queue)
    /\ mem' = [mem EXCEPT !["net"].event =
                 IF Head(queue).type = "service_enter" THEN Head(queue) ELSE NoEvent]
    /\ Goto("net", Handler[Head(queue).type])
    /\ UNCHANGED <<authority, netMode, locks, machine, network, http, portal,
                   resetPending, env, store>>

\* The console calls service entry or exit.
ConsoleRequest ==
    /\ pc["cli"] = "idle" /\ env["cli"] = NoEnv /\ HasRoom
    /\ \/ "console_enter" \in Requests /\ Goto("cli", "entry_policy")
       \/ "console_exit" \in Requests /\ Goto("cli", "exit_lock")
    /\ UNCHANGED <<authority, netMode, locks, machine, network, http, requests, store, mem>>

Leave(t) ==
    /\ Goto(t, "idle")
    /\ mem' = [mem EXCEPT ![t] = NoMemory]

\* First evaluation of the policy, under s_net_mutex.
EntryPolicy(t) ==
    /\ pc[t] = "entry_policy" /\ NetFree
    /\ IF EntryPermitted(t)
       THEN netHolder' = t /\ Goto(t, "entry_commit") /\ UNCHANGED mem
       ELSE Leave(t) /\ UNCHANGED netHolder
    /\ UNCHANGED <<authority, netMode, dispatchHolder, machine, network, http, requests, store>>

\* Mutant: s_net_mutex is kept while the HTTP server stops.
EntryCommitMutant(t) ==
    /\ pc[t] = "entry_commit" /\ DispatchFree
    /\ IF EntryPermitted(t)
       THEN /\ authority' = SetMode(authority, "SERVICE_TRANSITION", "NONE")
            /\ netMode' = "SERVICE_TRANSITION" /\ txn' = "none"
            /\ Goto(t, "entry_http") /\ UNCHANGED <<mem, netHolder>>
       ELSE Leave(t) /\ netHolder' = "none" /\ UNCHANGED <<authority, netMode, txn>>
    /\ UNCHANGED <<dispatchHolder, machine, broker, link, http, requests, store>>

\* Second evaluation, with dispatch locked too; a timer that cannot be
\* stopped refuses the entry after the transaction has been cancelled.
EntryCommit(t) ==
    /\ pc[t] = "entry_commit" /\ DispatchFree
    /\ \/ /\ EntryPermitted(t)
          /\ authority' = SetMode(authority, "SERVICE_TRANSITION", "NONE")
          /\ netMode' = "SERVICE_TRANSITION" /\ txn' = "none"
          /\ Goto(t, "entry_http") /\ UNCHANGED mem
       \/ /\ EntryPermitted(t) /\ txn' = "none"
          /\ Leave(t) /\ UNCHANGED <<authority, netMode>>
       \/ /\ ~EntryPermitted(t)
          /\ Leave(t) /\ UNCHANGED <<authority, netMode, txn>>
    /\ netHolder' = "none"
    /\ UNCHANGED <<dispatchHolder, machine, broker, link, http, requests, store>>

\* argus_http_server_stop waits for the handler in progress.
HandlersIdle == portal = "idle" /\ env["http"] = NoEnv

EntryStopHttp(t) ==
    /\ pc[t] = "entry_http" /\ HandlersIdle
    /\ \E ok \in BOOLEAN : /\ http' = (http /\ ~ok)
                           /\ mem' = [mem EXCEPT ![t].httpStopped = ok]
    /\ Goto(t, "entry_stop")
    /\ UNCHANGED <<authority, netMode, locks, machine, network, requests, store>>

\* argus_state_mgr_stop_normal, which fails on a stopped machine, when the
\* motion layer does, and when it cannot have s_command_mutex in 100 ms.
NormalStop(t, next, failed) ==
    \/ /\ machine' \in Outcomes(machine, "STOP_NORMAL")
       /\ Goto(t, IF machine'.state \in {"REST", "DECELERATING"} THEN next ELSE failed)
    \/ UNCHANGED machine /\ Goto(t, failed)

\* request_normal_stop, back under s_net_mutex.
EntryStop(t) ==
    /\ pc[t] = "entry_stop" /\ TakeNet(t)
    /\ IF AtRest THEN Goto(t, "entry_verify") /\ UNCHANGED machine
                 ELSE NormalStop(t, "entry_verify", "entry_abort")
    /\ UNCHANGED <<authority, netMode, dispatchHolder, network, http, requests, store, mem>>

\* verify_stopped: at rest, stopped for another reason, or the 5 s are over.
EntryVerify(t) ==
    /\ pc[t] = "entry_verify"
    /\ Goto(t, IF AtRest THEN "entry_network" ELSE "entry_abort")
    /\ UNCHANGED <<authority, netMode, locks, machine, network, http, requests, store, mem>>

\* Broker, station and Wi-Fi mode in turn; each can fail and leave the rest.
EntryNetwork(t) ==
    /\ pc[t] = "entry_network"
    /\ \E stage \in {"none", "broker", "station", "all"} :
         /\ stage # "none" => env["mqtt"] = NoEnv
         /\ broker' = (broker /\ stage = "none")
         /\ link' = CASE stage \in {"none", "broker"} \/ link = "absent" -> link
                      [] stage = "station" /\ link # "absent" -> "idle"
                      [] stage = "all" -> "absent"
         /\ Goto(t, IF stage = "all" THEN "entry_safe" ELSE "entry_abort")
    /\ UNCHANGED <<authority, netMode, locks, machine, txn, http, requests, store, mem>>

\* verify_machine_safe
EntrySafe(t) ==
    /\ pc[t] = "entry_safe"
    /\ Goto(t, IF Safe THEN "entry_gate" ELSE "entry_abort")
    /\ UNCHANGED <<authority, netMode, locks, machine, network, http, requests, store, mem>>

\* Dispatch is locked again and the state revalidated.
EntryGate(t) ==
    /\ pc[t] = "entry_gate" /\ DispatchFree
    /\ IF Safe /\ link = "absent"
       THEN dispatchHolder' = t /\ Goto(t, "entry_grant")
       ELSE Goto(t, "entry_abort") /\ UNCHANGED dispatchHolder
    /\ UNCHANGED <<authority, netMode, netHolder, machine, network, http, requests, store, mem>>

EntryGrant(t) ==
    /\ pc[t] = "entry_grant"
    /\ authority' = GrantLocal(authority, OwnerOf(t))
    /\ dispatchHolder' = "none"
    /\ IF authority.mode = "SERVICE_TRANSITION"
       THEN netMode' = "SERVICE_AP_ONLY" /\ netHolder' = "none" /\ Goto(t, "entry_start")
       ELSE Goto(t, "entry_abort") /\ UNCHANGED <<netMode, netHolder>>
    /\ UNCHANGED <<machine, network, http, requests, store, mem>>

\* Every failure revokes, without dispatch, and declares a network fault.
EntryAbort(t) ==
    /\ pc[t] = "entry_abort"
    /\ authority' = Revoked(authority)
    /\ netMode' = "NETWORK_FAULT" /\ netHolder' = "none"
    /\ IF mem[t].httpStopped THEN Goto(t, "entry_start") /\ UNCHANGED mem ELSE Leave(t)
    /\ UNCHANGED <<dispatchHolder, machine, network, http, requests, store>>

\* The result of starting the server again is not looked at.
EntryStartHttp(t) ==
    /\ pc[t] = "entry_start"
    /\ \E ok \in BOOLEAN : http' = (http \/ ok)
    /\ Leave(t)
    /\ UNCHANGED <<authority, netMode, locks, machine, network, requests, store>>

---------------------------------------------------------------------------
(* Service exit: argus_net_mgr_request_service_exit.                       *)

ExitLock(t) ==
    /\ pc[t] = "exit_lock" /\ NetFree
    /\ IF netMode = "SERVICE_AP_ONLY"
       THEN netHolder' = t /\ Goto(t, "exit_gate") /\ UNCHANGED mem
       ELSE Leave(t) /\ UNCHANGED netHolder
    /\ UNCHANGED <<authority, netMode, dispatchHolder, machine, network, http, requests, store>>

\* First dispatch gate: only the owner of the service session may leave it.
ExitGate(t) ==
    /\ pc[t] = "exit_gate" /\ DispatchFree
    /\ IF authority.mode = "LOCAL_SERVICE" /\ authority.owner = OwnerOf(t)
       THEN /\ authority' = SetMode(authority, "SERVICE_TRANSITION", "NONE")
            /\ netMode' = "SERVICE_TRANSITION" /\ txn' = "none"
            /\ mem' = [mem EXCEPT ![t].generation = authority'.generation]
            /\ Goto(t, "exit_stop") /\ UNCHANGED netHolder
       ELSE Leave(t) /\ netHolder' = "none" /\ UNCHANGED <<authority, netMode, txn>>
    /\ UNCHANGED <<dispatchHolder, machine, broker, link, http, requests, store>>

ExitStop(t) ==
    /\ pc[t] = "exit_stop"
    /\ NormalStop(t, "exit_verify", "exit_fail")
    /\ UNCHANGED <<authority, netMode, locks, network, http, requests, store, mem>>

ExitVerify(t) ==
    /\ pc[t] = "exit_verify"
    /\ Goto(t, IF AtRest THEN "exit_revoke" ELSE "exit_fail")
    /\ UNCHANGED <<authority, netMode, locks, machine, network, http, requests, store, mem>>

\* Second dispatch gate.
ExitRevoke(t) ==
    /\ pc[t] = "exit_revoke" /\ DispatchFree
    /\ authority' = Revoked(authority)
    /\ netHolder' = "none"
    /\ IF /\ authority.mode = "SERVICE_TRANSITION"
          /\ authority.generation = mem[t].generation
          /\ Safe
       THEN Goto(t, "exit_reboot") /\ UNCHANGED <<netMode, mem>>
       ELSE netMode' = "NETWORK_FAULT" /\ Leave(t)
    /\ UNCHANGED <<dispatchHolder, machine, network, http, requests, store>>

ExitFail(t) ==
    /\ pc[t] = "exit_fail"
    /\ authority' = Revoked(authority)
    /\ netMode' = "NETWORK_FAULT" /\ netHolder' = "none"
    /\ Leave(t)
    /\ UNCHANGED <<dispatchHolder, machine, network, http, requests, store>>

---------------------------------------------------------------------------
(* argus_restart_execute                                                   *)

RestartGate ==
    /\ pc["net"] = "restart_gate" /\ DispatchFree
    /\ IF Safe THEN authority' = Revoked(authority) /\ Goto("net", "restart_http")
                    /\ UNCHANGED mem
               ELSE Leave("net") /\ UNCHANGED authority
    /\ UNCHANGED <<netMode, locks, machine, network, http, requests, store>>

\* The response grace delay, then the server stops.
RestartStopHttp ==
    /\ pc["net"] = "restart_http" /\ HandlersIdle
    /\ \/ http' = FALSE /\ Goto("net", "restart_final") /\ UNCHANGED mem
       \/ UNCHANGED http /\ Leave("net")
    /\ UNCHANGED <<authority, netMode, locks, machine, network, requests, store>>

RestartFinal ==
    /\ pc["net"] = "restart_final"
    /\ IF Safe THEN Goto("net", "restart_reboot") /\ UNCHANGED mem ELSE Leave("net")
    /\ UNCHANGED <<authority, netMode, locks, machine, network, http, requests, store>>

---------------------------------------------------------------------------
(* argus_factory_reset_execute                                             *)

ResetLock ==
    /\ pc["net"] \in {"reset_lock", "reset_relock"} /\ TakeNet("net")
    /\ Goto("net", IF pc["net"] = "reset_lock" THEN "reset_gate" ELSE "reset_check")
    /\ UNCHANGED <<authority, netMode, dispatchHolder, machine, network, http, requests,
                   store, mem>>

ResetGate ==
    /\ pc["net"] = "reset_gate" /\ DispatchFree
    /\ netHolder' = "none"
    /\ IF ResetPolicyOK
       THEN /\ authority' = SetMode(authority, "SERVICE_TRANSITION", "NONE")
            /\ netMode' = "SERVICE_TRANSITION"
            /\ Goto("net", "reset_http") /\ UNCHANGED <<mem, resetPending>>
       ELSE Leave("net") /\ resetPending' = FALSE /\ UNCHANGED <<authority, netMode>>
    /\ UNCHANGED <<dispatchHolder, machine, network, http, portal, queue, env, store>>

ResetStopHttp ==
    /\ pc["net"] = "reset_http" /\ HandlersIdle
    /\ \E ok \in BOOLEAN : /\ http' = (http /\ ~ok)
                           /\ mem' = [mem EXCEPT !["net"].httpStopped = ok]
    /\ Goto("net", "reset_relock")
    /\ UNCHANGED <<authority, netMode, locks, machine, network, requests, store>>

\* The authority is revoked whatever the revalidation says.
ResetCheck ==
    /\ pc["net"] = "reset_check" /\ DispatchFree
    /\ authority' = Revoked(authority)
    /\ netHolder' = "none"
    /\ IF /\ mem["net"].httpStopped
          /\ netMode = "SERVICE_TRANSITION" /\ Converged
          /\ authority.mode = "SERVICE_TRANSITION"
          /\ Safe
       THEN Goto("net", "reset_erase") /\ UNCHANGED <<mem, resetPending>>
       ELSE Leave("net") /\ resetPending' = FALSE
    /\ UNCHANGED <<netMode, dispatchHolder, machine, network, http, portal, queue, env, store>>

\* Mutant: a failed erase leaves the request pending.
ResetEraseMutant ==
    /\ pc["net"] = "reset_erase"
    /\ \/ /\ commissioned' = FALSE /\ UNCHANGED recovery
          /\ Goto("net", "reset_reboot") /\ UNCHANGED mem
       \/ Leave("net") /\ UNCHANGED store
    /\ UNCHANGED <<authority, netMode, locks, machine, network, http, requests>>

ResetErase ==
    /\ pc["net"] = "reset_erase"
    /\ \/ /\ commissioned' = FALSE /\ UNCHANGED recovery
          /\ Goto("net", "reset_reboot") /\ UNCHANGED <<mem, resetPending>>
       \/ Leave("net") /\ resetPending' = FALSE /\ UNCHANGED store
    /\ UNCHANGED <<authority, netMode, locks, machine, network, http, portal, queue, env>>

---------------------------------------------------------------------------
(* enter_security_recovery_network                                         *)

RecoveryBegin ==
    /\ pc["net"] = "recovery_begin" /\ NetFree
    /\ \/ /\ netMode # "SECURITY_RECOVERY_AP_ONLY"
          /\ netMode' = "SECURITY_RECOVERY_TRANSITION" /\ txn' = "none"
          /\ Goto("net", "recovery_network") /\ UNCHANGED mem
       \/ Leave("net") /\ UNCHANGED <<netMode, txn>>
    /\ UNCHANGED <<authority, locks, machine, broker, link, http, requests, store>>

\* The broker and the station go down without s_net_mutex; each call can fail.
RecoveryNetwork ==
    /\ pc["net"] = "recovery_network"
    /\ \/ /\ env["mqtt"] = NoEnv /\ broker' = FALSE /\ link' = "absent"
          /\ Goto("net", "recovery_done")
       \/ /\ env["mqtt"] = NoEnv /\ broker' = FALSE
          /\ link' \in {link, IF link = "absent" THEN link ELSE "idle"}
          /\ Goto("net", "recovery_failed")
       \/ UNCHANGED <<broker, link>> /\ Goto("net", "recovery_failed")
    /\ UNCHANGED <<authority, netMode, locks, machine, txn, http, requests, store, mem>>

RecoveryEnd ==
    /\ pc["net"] \in {"recovery_done", "recovery_failed"} /\ NetFree
    /\ netMode' = IF pc["net"] = "recovery_done" THEN "SECURITY_RECOVERY_AP_ONLY"
                                                 ELSE "NETWORK_FAULT"
    /\ Leave("net")
    /\ UNCHANGED <<authority, locks, machine, network, http, requests, store>>

---------------------------------------------------------------------------
(* Station and Wi-Fi transaction events that change the authority, under   *)
(* s_net_mutex and without s_dispatch_mutex.                               *)

\* ARGUS_NET_EVT_STA_CONNECTED: the event is ignored in a service mode, after
\* the link is lost again, or when it belongs to an older transaction.
StaConnected ==
    /\ pc["net"] = "sta_connected" /\ NetFree
    /\ \/ /\ netMode \in Operational /\ link = "up"
          /\ txn' = "none"
          /\ netMode' = "AP_DISCOVERABLE"
          /\ \E running \in {broker, TRUE} :
               /\ broker' = running
               /\ authority' = IF running THEN SetMode(authority, "SUPERVISORY", "MQTT")
                                          ELSE authority
       \/ UNCHANGED <<authority, netMode, broker, txn>>
    /\ Leave("net")
    /\ UNCHANGED <<locks, machine, link, http, requests, store>>

\* ARGUS_NET_EVT_STA_DISCONNECTED: a transaction waiting for it goes on to
\* connect, one that was connecting fails.  Broker and authority are left alone.
StaDisconnected ==
    /\ pc["net"] = "sta_disconnected" /\ NetFree
    /\ \/ /\ netMode \in Operational /\ link \in {"idle", "connecting"}
          /\ \/ txn = "waiting" /\ txn' = "connecting" /\ link' = "connecting"
             \/ txn' = "none" /\ UNCHANGED link
       \/ UNCHANGED <<txn, link>>
    /\ Leave("net")
    /\ UNCHANGED <<authority, netMode, locks, machine, broker, http, requests, store>>

\* wifi_transaction_prepare, up to the revocation, for a new configuration or a
\* manual reconnection; a timer that cannot be stopped ends the transaction.
WifiRevoke ==
    /\ pc["net"] \in {"wifi_revoke", "reconnect"} /\ NetFree
    /\ \/ /\ netMode \in Operational /\ txn = "none"
          /\ pc["net"] = "reconnect" => CanReconnect
          /\ authority' = Revoked(authority) /\ txn' = "preparing"
          /\ netHolder' = "net" /\ Goto("net", "wifi_connect") /\ UNCHANGED mem
       \/ Leave("net") /\ UNCHANGED <<authority, txn, netHolder>>
    /\ UNCHANGED <<netMode, dispatchHolder, machine, broker, link, http, requests, store>>

\* The rest of the transaction, still under s_net_mutex: the broker stops, then a
\* connected station is disconnected first and the transaction waits for that.
WifiConnect ==
    /\ pc["net"] = "wifi_connect"
    /\ \/ /\ env["mqtt"] = NoEnv /\ broker' = FALSE
          /\ \/ /\ commissioned /\ link \in {"up", "connecting"}
                /\ txn' = "waiting" /\ UNCHANGED link
             \/ /\ commissioned /\ link # "up"
                /\ txn' = "connecting" /\ link' = "connecting"
             \/ txn' = "none" /\ link' \in {link, IF link = "up" THEN link ELSE "idle"}
       \/ txn' = "none" /\ UNCHANGED <<broker, link>>
    /\ netHolder' = "none" /\ Leave("net")
    /\ UNCHANGED <<authority, netMode, dispatchHolder, machine, http, requests, store>>

---------------------------------------------------------------------------
Rebooting(t) == pc[t] \in {"exit_reboot", "restart_reboot", "reset_reboot"}

\* esp_restart: everything but NVS starts again.
Reboot ==
    /\ \E t \in Tasks : Rebooting(t)
    /\ \E b \in Boots(commissioned, recovery) :
         /\ authority' = b.authority /\ netMode' = b.mode
         /\ broker' = b.broker /\ link' = b.link
    /\ UNCHANGED store
    /\ netHolder' = "none" /\ dispatchHolder' = "none"
    /\ machine' = [state |-> "REST", latched |-> FALSE]
    /\ txn' = "none" /\ http' = TRUE /\ portal' = "idle" /\ queue' = <<>>
    /\ resetPending' = FALSE
    /\ env' = [s \in Sources |-> NoEnv]
    /\ pc' = [t \in Tasks |-> "idle"]
    /\ mem' = [t \in Tasks |-> NoMemory]

---------------------------------------------------------------------------
ServiceStep(t) ==
    \/ EntryPolicy(t) \/ EntryCommit(t) \/ EntryStopHttp(t) \/ EntryStop(t)
    \/ EntryVerify(t) \/ EntryNetwork(t) \/ EntrySafe(t) \/ EntryGate(t)
    \/ EntryGrant(t) \/ EntryAbort(t) \/ EntryStartHttp(t)
    \/ ExitLock(t) \/ ExitGate(t) \/ ExitStop(t) \/ ExitVerify(t)
    \/ ExitRevoke(t) \/ ExitFail(t)

NetStep ==
    \/ RestartGate \/ RestartStopHttp \/ RestartFinal
    \/ ResetLock \/ ResetGate \/ ResetStopHttp \/ ResetCheck \/ ResetErase
    \/ RecoveryBegin \/ RecoveryNetwork \/ RecoveryEnd
    \/ StaConnected \/ StaDisconnected \/ WifiRevoke \/ WifiConnect

Environment ==
    \/ Estop \/ StopDone \/ MachineFault
    \/ HttpRequest \/ RequestRecovery \/ LinkUp \/ LinkDown \/ LinkRetry
    \/ ConsoleRequest
    \/ \E s \in Clients : BuildEnvelope(s)

Next ==
    \/ Environment
    \/ \E s \in Sources : Admit(s) \/ Execute(s)
    \/ ServeRequest
    \/ NextEvent \/ NetStep
    \/ \E t \in Tasks : ServiceStep(t)
    \/ Reboot

Spec == Init /\ [][Next]_vars

\* A task that waits for a mutex, or for the HTTP server to stop, gets its turn
\* although others take the mutex or send requests meanwhile: FreeRTOS mutexes
\* have priority inheritance, and the server stops between two requests.
FairSpec ==
    /\ Spec
    /\ SF_vars(ServiceStep("net") \/ NetStep) /\ SF_vars(ServiceStep("cli"))
    /\ WF_vars(NextEvent) /\ SF_vars(ServeRequest) /\ WF_vars(Reboot)
    /\ \A s \in Sources : SF_vars(Admit(s)) /\ WF_vars(Execute(s))

---------------------------------------------------------------------------
Labels ==
    {"idle", "entry_policy", "entry_commit", "entry_http", "entry_stop", "entry_verify",
     "entry_network", "entry_safe", "entry_gate", "entry_grant", "entry_abort",
     "entry_start", "exit_lock", "exit_gate", "exit_stop", "exit_verify", "exit_revoke",
     "exit_fail", "exit_reboot", "restart_gate", "restart_http", "restart_final",
     "restart_reboot", "reset_lock", "reset_gate", "reset_http", "reset_relock",
     "reset_check", "reset_erase", "reset_reboot", "recovery_begin", "recovery_network",
     "recovery_done", "recovery_failed", "sta_connected", "sta_disconnected",
     "wifi_revoke", "reconnect", "wifi_connect"}

\* Every variable has the type of what it models, and authority mode and owner
\* are always a pair argus_authority_validate_pair accepts.
TypeOK ==
    /\ authority \in AuthorityType /\ ValidPair(authority.mode, authority.owner)
    /\ netMode \in NetModes
    /\ netHolder \in Tasks \cup {"none"}
    /\ dispatchHolder \in Tasks \cup Sources \cup {"none"}
    /\ machine \in [state : MachineStates, latched : BOOLEAN]
    /\ {broker, http, resetPending, commissioned, recovery} \subseteq BOOLEAN
    /\ link \in {"absent", "idle", "connecting", "up"}
    /\ txn \in {"none", "preparing", "waiting", "connecting"}
    /\ portal \in PortalRequests \cup {"idle"}
    /\ Len(queue) <= QueueLength
    /\ \A t \in Tasks : pc[t] \in Labels

Driven == machine.state \in {"MOVING", "DECELERATING"}

\* A local service session is exclusive for as long as it lasts: no broker
\* through which a supervisor could act, and no station interface, whatever
\* recovery, Wi-Fi transaction or station event runs meanwhile.
LocalServiceIsExclusive ==
    authority.mode = "LOCAL_SERVICE" => Converged

\* A service transition is never abandoned: while the authority says a
\* transition is under way, some task is between its two gates.  Nothing else
\* would ever end it, since every entry and exit refuses to begin in it.
NoOrphanTransition ==
    authority.mode = "SERVICE_TRANSITION" =>
        \E t \in Tasks :
            pc[t] \in {"entry_http", "entry_stop", "entry_verify", "entry_network",
                       "entry_safe", "entry_gate", "entry_grant", "entry_abort",
                       "exit_stop", "exit_verify", "exit_revoke", "exit_fail",
                       "reset_http", "reset_relock", "reset_check"}

\* Local control is granted only over a machine that does not move, although
\* the stop was verified earlier and dispatch was open in between.
LocalGrantAtRest ==
    [][authority.mode # "LOCAL_SERVICE" /\ authority'.mode = "LOCAL_SERVICE" => ~Driven]_vars

\* Nobody sets the machine in motion during a service transition, and in a local
\* service session only its owner does.
NoForeignMotion ==
    [][machine.state # "MOVING" /\ machine'.state = "MOVING" =>
         /\ authority.mode # "SERVICE_TRANSITION"
         /\ authority.mode = "LOCAL_SERVICE" =>
              \E s \in Sources : env[s].admitted /\ Permitted(authority, s)]_vars

\* A factory reset erases the configuration, and reboots after it, only with
\* the authority revoked, the network down and the machine not moving.
EraseAtRest ==
    [][\/ commissioned /\ ~commissioned'
       \/ pc["net"] = "reset_reboot" /\ pc'["net"] = "idle"
       => authority.mode = "NONE" /\ Converged /\ ~Driven]_vars

\* Every lifecycle operation ends, whatever fails on its way and whoever holds
\* the mutexes when it begins.
TransitionsEnd == \A t \in Tasks : pc[t] # "idle" ~> pc[t] = "idle"

\* An accepted factory reset settles: it reboots or is given up, so that a later
\* request is not refused for ever.
ResetSettles == resetPending ~> ~resetPending

---------------------------------------------------------------------------
(* Statements of the repository that the code does not meet.               *)

\* The comment in argus_restart_execute: from the revocation on the authority is
\* NONE, so that normal commands are rejected until the reboot.
RestartStaysRevoked ==
    pc["net"] \in {"restart_http", "restart_final", "restart_reboot"} =>
        authority.mode = "NONE"

\* The hardening plan on s_dispatch_mutex: it serializes the execution of a
\* command with changes of the authority.
AdmittedStillValid ==
    \A s \in Sources : env[s].admitted => Permitted(authority, s)
===========================================================================
