-------------------------- MODULE LifecycleProofs --------------------------
(***************************************************************************)
(* The transitions of control, for every set of clients, commands and      *)
(* requests, every length of the event queue and every bound on the        *)
(* generation.  Two tasks may be inside transitions at the same time,      *)
(* with s_net_mutex given up while the HTTP server stops; the inductive    *)
(* invariant says, place by place, what each of them may still rely on.    *)
(* One lemma for every action, under it a step for every part of the       *)
(* invariant that the action can disturb and one for the rest.             *)
(***************************************************************************)
EXTENDS Lifecycle, SequenceTheorems, TLAPS

---------------------------------------------------------------------------
(* The inductive invariant.                                                *)

\* Station and Wi-Fi transaction, as the lifecycle operations see them.
Links == {"absent", "idle", "connecting", "up"}
Txns == {"none", "preparing", "waiting", "connecting"}

\* The events of s_event_queue; a service entry carries its handler's preflight.
EventTypes ==
    {"service_exit", "restart", "factory_reset", "wifi", "reconnect", "recovery",
     "sta_connected", "sta_disconnected"}
Preflights ==
    [mode : NetModes, authority : AuthorityType, broker : BOOLEAN, link : Links, txn : Txns]
Events == [type : EventTypes] \cup [type : {"service_enter"}, preflight : Preflights]

\* The labels a handler begins at.
FirstLabels ==
    {"entry_policy", "exit_lock", "restart_gate", "reset_lock", "wifi_revoke",
     "reconnect", "recovery_begin", "sta_connected", "sta_disconnected"}

\* The labels the console's task can be at.
CliLabels ==
    {"idle", "entry_policy", "entry_commit", "entry_http", "entry_stop", "entry_verify",
     "entry_network", "entry_safe", "entry_gate", "entry_grant", "entry_abort",
     "entry_start", "exit_lock", "exit_gate", "exit_stop", "exit_verify", "exit_revoke",
     "exit_fail", "exit_reboot"}

\* The labels at which a task holds s_net_mutex.
NetLabels ==
    {"entry_commit", "entry_verify", "entry_network", "entry_safe", "entry_gate",
     "entry_grant", "entry_abort", "exit_gate", "exit_stop", "exit_verify",
     "exit_revoke", "exit_fail", "reset_gate", "reset_check", "wifi_connect"}

\* The motor is neither driven nor about to be.
Standstill == machine.state \in {"REST", "EMERGENCY_STOPPED"}

\* TypeOK, by kind of variable.  Mode and owner always fit each other.
AuthorityTyped ==
    authority \in AuthorityType /\ ValidPair(authority.mode, authority.owner)

ControlTyped == pc \in [Tasks -> Labels] /\ pc["cli"] \in CliLabels

Envelopes == [command : Commands, generation : Nat, admitted : BOOLEAN]
EnvTyped == env \in [Sources -> Envelopes \cup {NoEnv}]

Machines == [state : MachineStates, latched : BOOLEAN]
MachineTyped == machine \in Machines

NetworkTyped ==
    /\ netMode \in NetModes /\ broker \in BOOLEAN /\ http \in BOOLEAN
    /\ link \in Links /\ txn \in Txns

RequestsTyped ==
    /\ portal \in PortalRequests \cup {"idle"} /\ resetPending \in BOOLEAN
    /\ queue \in Seq(Events) /\ Len(queue) <= QueueLength

StoreTyped == commissioned \in BOOLEAN /\ recovery \in BOOLEAN

LocksTyped ==
    /\ netHolder \in Tasks \cup {"none"}
    /\ dispatchHolder \in Tasks \cup Sources \cup {"none"}

\* s_net_mutex belongs to the task whose place says so.
NetMutex == \A t \in Tasks : netHolder = t <=> pc[t] \in NetLabels

\* s_dispatch_mutex belongs to the source of the one admitted command or to the
\* task that grants; the console runs a command or a transition, never both.
DispatchMutex ==
    /\ \A s \in Sources : env[s].admitted => dispatchHolder = s
    /\ \A t \in Tasks : pc[t] = "entry_grant" => dispatchHolder = t
    /\ \/ dispatchHolder = "none"
       \/ dispatchHolder \in Sources /\ env[dispatchHolder].admitted
       \/ dispatchHolder \in Tasks /\ pc[dispatchHolder] = "entry_grant"
    /\ pc["cli"] # "idle" => env["cli"] = NoEnv

\* A command that was admitted is not overtaken by a transition or a grant,
\* although a revocation does overtake it (AdmittedStillValid).
AdmittedMatches ==
    \A s \in Sources : env[s].admitted =>
        /\ authority.mode # "SERVICE_TRANSITION"
        /\ authority.mode = "LOCAL_SERVICE" => Permitted(authority, s)

\* Behind the network step of an entry the station is gone and the broker off,
\* and behind the revalidation under dispatch the motor stands still.
GrantPoint ==
    \A t \in Tasks :
        /\ pc[t] \in {"entry_safe", "entry_gate", "entry_grant"} => Converged
        /\ pc[t] = "entry_grant" => Standstill

\* Nobody is granted local control between the revocation of a Wi-Fi apply and
\* its connection attempt.
WifiPoint == pc["net"] = "wifi_connect" => authority.mode # "LOCAL_SERVICE"

\* From the last check of a factory reset to its reboot nobody has control,
\* nothing moves and no other transition can begin.
ErasePoint ==
    pc["net"] \in {"reset_erase", "reset_reboot"} =>
        /\ authority.mode = "NONE" /\ Converged /\ Standstill
        /\ netMode \in {"SERVICE_TRANSITION", "NETWORK_FAULT"}
        /\ pc["cli"] \notin {"entry_commit", "exit_gate"}
        /\ \A s \in Sources : ~env[s].admitted

LifecycleInv ==
    /\ AuthorityTyped /\ ControlTyped /\ EnvTyped /\ MachineTyped /\ NetworkTyped
    /\ RequestsTyped /\ StoreTyped /\ LocksTyped
    /\ NetMutex /\ DispatchMutex /\ AdmittedMatches
    /\ GrantPoint /\ WifiPoint /\ ErasePoint
    /\ LocalServiceIsExclusive /\ NoOrphanTransition

---------------------------------------------------------------------------
(* The operators.                                                          *)

\* argus_authority_set_mode and revoke: the result, field by field.
LEMMA SettingMode ==
    ASSUME NEW a \in AuthorityType
    PROVE  /\ Revoked(a) \in AuthorityType
           /\ Revoked(a).mode = "NONE" /\ Revoked(a).owner = "NONE"
           /\ ValidPair(Revoked(a).mode, Revoked(a).owner)
           /\ SetMode(a, "SERVICE_TRANSITION", "NONE") \in AuthorityType
           /\ SetMode(a, "SERVICE_TRANSITION", "NONE").mode = "SERVICE_TRANSITION"
           /\ SetMode(a, "SERVICE_TRANSITION", "NONE").owner = "NONE"
           /\ ValidPair(SetMode(a, "SERVICE_TRANSITION", "NONE").mode,
                        SetMode(a, "SERVICE_TRANSITION", "NONE").owner)
           /\ SetMode(a, "SUPERVISORY", "MQTT") \in AuthorityType
           /\ SetMode(a, "SUPERVISORY", "MQTT").mode = "SUPERVISORY"
           /\ SetMode(a, "SUPERVISORY", "MQTT").owner = "MQTT"
           /\ ValidPair(SetMode(a, "SUPERVISORY", "MQTT").mode,
                        SetMode(a, "SUPERVISORY", "MQTT").owner)
  BY DEF Revoked, SetMode, ValidPair, AuthorityType, Modes, Owners

\* The grant of local control: only out of a transition, otherwise it revokes.
LEMMA Granting ==
    ASSUME NEW a \in AuthorityType, NEW t \in Tasks
    PROVE  /\ GrantLocal(a, OwnerOf(t)) \in AuthorityType
           /\ IF a.mode = "SERVICE_TRANSITION"
              THEN /\ GrantLocal(a, OwnerOf(t)).mode = "LOCAL_SERVICE"
                   /\ GrantLocal(a, OwnerOf(t)).owner = OwnerOf(t)
              ELSE /\ GrantLocal(a, OwnerOf(t)).mode = "NONE"
                   /\ GrantLocal(a, OwnerOf(t)).owner = "NONE"
           /\ ValidPair(GrantLocal(a, OwnerOf(t)).mode, GrantLocal(a, OwnerOf(t)).owner)
<1>1. OwnerOf(t) \in {"BROWSER", "DIAGNOSTIC_CLI"}
  BY DEF OwnerOf
<1> PICK owner \in {"BROWSER", "DIAGNOSTIC_CLI"} : owner = OwnerOf(t)
  BY <1>1
<1>2. ValidPair("LOCAL_SERVICE", owner) /\ ValidPair("NONE", "NONE")
  BY DEF ValidPair
<1>3. CASE a.mode = "SERVICE_TRANSITION"
  <2>1. GrantLocal(a, owner) = [mode |-> "LOCAL_SERVICE", owner |-> owner,
                                generation |-> a.generation + 1]
    BY <1>2, <1>3 DEF GrantLocal, SetMode
  <2> QED BY <1>2, <1>3, <2>1 DEF AuthorityType, Modes, Owners
<1>4. CASE a.mode # "SERVICE_TRANSITION"
  BY <1>4, SettingMode DEF GrantLocal
<1> QED BY <1>3, <1>4

\* After a boot nobody has local control and no transition is under way.
LEMMA Booting ==
    ASSUME NEW configured \in BOOLEAN, NEW recovering \in BOOLEAN,
           NEW b \in Boots(configured, recovering)
    PROVE  /\ b.authority \in AuthorityType
           /\ ValidPair(b.authority.mode, b.authority.owner)
           /\ b.authority.mode \in {"NONE", "SUPERVISORY"}
           /\ b.mode \in NetModes /\ b.link \in Links /\ b.broker \in BOOLEAN
<1>1. /\ AtBoot \in AuthorityType /\ ValidPair(AtBoot.mode, AtBoot.owner)
      /\ AtBoot.mode = "NONE"
  BY DEF AtBoot, AuthorityType, Modes, Owners, ValidPair
<1>2. CASE recovering \/ ~configured
  <2>1. PICK mode \in {"SECURITY_RECOVERY_AP_ONLY", "UNCOMMISSIONED_AP"} :
          b = [mode |-> mode, link |-> "absent", broker |-> FALSE, authority |-> AtBoot]
    BY <1>2 DEF Boots
  <2> QED BY <1>1, <2>1 DEF NetModes, Links
<1>3. CASE ~recovering /\ configured
  <2> PICK l \in {"connecting", "idle"}, running \in BOOLEAN :
        b = [mode |-> "AP_DISCOVERABLE", link |-> l, broker |-> running,
             authority |-> IF running THEN SetMode(AtBoot, "SUPERVISORY", "MQTT")
                                      ELSE AtBoot]
    BY <1>3 DEF Boots, CommissionedBoots
  <2>1. b.authority = SetMode(AtBoot, "SUPERVISORY", "MQTT") \/ b.authority = AtBoot
    OBVIOUS
  <2> QED BY <1>1, <2>1, SettingMode DEF NetModes, Links
<1> QED BY <1>2, <1>3

\* Of the commands of the state manager only START sets a machine in motion.
LEMMA OutcomesTyped ==
    ASSUME NEW m \in Machines, NEW command \in Commands, NEW o \in Outcomes(m, command)
    PROVE  /\ o \in Machines
           /\ o.state = "MOVING" /\ m.state # "MOVING" => command = "START"
<1> PICK st \in MachineStates, la \in BOOLEAN : m = [state |-> st, latched |-> la]
  BY DEF Machines
<1>1. command \in {"SET_TARGET", "START", "STOP_NORMAL", "UNLOCK", "RESET_ESTOP", "RECOVER"}
  BY LifecycleAssumption
<1>2. PICK x \in MachineStates, y \in BOOLEAN :
        /\ o = [state |-> x, latched |-> y]
        /\ x = "MOVING" /\ st # "MOVING" => command = "START"
  BY <1>1 DEF Outcomes, MachineStates
<1> QED BY <1>2 DEF Machines

\* A normal stop starts nothing and leaves a machine at rest as it is.
LEMMA StopOutcomes ==
    ASSUME NEW m \in Machines, NEW o \in Outcomes(m, "STOP_NORMAL")
    PROVE  /\ o \in Machines
           /\ o.state # "MOVING" \/ m.state = "MOVING"
           /\ m.state \notin {"MOVING", "RECOVERING"} => o = m
<1> PICK st \in MachineStates, la \in BOOLEAN : m = [state |-> st, latched |-> la]
  BY DEF Machines
<1>2. PICK x \in MachineStates :
        /\ o = [state |-> x, latched |-> la]
        /\ x = "MOVING" => st = "MOVING"
        /\ st \notin {"MOVING", "RECOVERING"} => x = st
  BY DEF Outcomes, MachineStates
<1> QED BY <1>2 DEF Machines

\* A full queue refuses the event.
LEMMA PostedTyped ==
    ASSUME NEW q \in Seq(Events), Len(q) <= QueueLength, NEW evt \in Events
    PROVE  Posted(q, evt) \in Seq(Events) /\ Len(Posted(q, evt)) <= QueueLength
  BY LifecycleAssumption DEF Posted

\* Every event has a handler.
LEMMA NextHandler ==
    ASSUME NEW q \in Seq(Events), Len(q) <= QueueLength, q # <<>>
    PROVE  /\ Tail(q) \in Seq(Events) /\ Len(Tail(q)) <= QueueLength
           /\ Handler[Head(q).type] \in FirstLabels
<1>1. Tail(q) \in Seq(Events) /\ Len(Tail(q)) = Len(q) - 1 /\ Head(q) \in Events
  BY HeadTailProperties
<1>2. Head(q).type \in EventTypes \cup {"service_enter"}
  BY DEF Events
<1>3. Handler[Head(q).type] \in FirstLabels
  BY <1>2 DEF EventTypes, Handler, FirstLabels
<1> QED BY <1>1, <1>3, LifecycleAssumption

---------------------------------------------------------------------------
(* The machine, the environment and the command router.                    *)

\* An E-stop takes no mutex: the motor stops wherever the tasks are.
LEMMA EstopInv ==
    ASSUME LifecycleInv, Estop PROVE LifecycleInv'
<1>1. MachineTyped'
  BY DEF Estop, MachineStep, MachineTyped, Machines, MachineStates
<1>2. GrantPoint'
  BY DEF LifecycleInv, Estop, MachineStep, network, GrantPoint, Converged, Standstill
<1>3. ErasePoint'
  BY DEF LifecycleInv, Estop, MachineStep, network, requests, ErasePoint, Converged,
     Standstill
<1>4. AuthorityTyped' /\ ControlTyped' /\ EnvTyped' /\ NetworkTyped' /\ RequestsTyped'
      /\ StoreTyped' /\ LocksTyped' /\ NetMutex' /\ DispatchMutex' /\ AdmittedMatches'
      /\ WifiPoint' /\ LocalServiceIsExclusive' /\ NoOrphanTransition'
  BY DEF LifecycleInv, Estop, MachineStep, locks, network, requests, store,
     AuthorityTyped, ControlTyped, EnvTyped, NetworkTyped, RequestsTyped, StoreTyped,
     LocksTyped, NetMutex, DispatchMutex, AdmittedMatches, WifiPoint,
     LocalServiceIsExclusive, NoOrphanTransition, Converged
<1> QED BY <1>1, <1>2, <1>3, <1>4 DEF LifecycleInv

\* A deceleration ends.
LEMMA StopDoneInv ==
    ASSUME LifecycleInv, StopDone PROVE LifecycleInv'
<1>1. MachineTyped'
  BY DEF LifecycleInv, StopDone, MachineStep, MachineTyped, Machines, MachineStates
<1>2. GrantPoint'
  BY DEF LifecycleInv, StopDone, MachineStep, network, GrantPoint, Converged, Standstill
<1>3. ErasePoint'
  BY DEF LifecycleInv, StopDone, MachineStep, ErasePoint, Standstill
<1>4. AuthorityTyped' /\ ControlTyped' /\ EnvTyped' /\ NetworkTyped' /\ RequestsTyped'
      /\ StoreTyped' /\ LocksTyped' /\ NetMutex' /\ DispatchMutex' /\ AdmittedMatches'
      /\ WifiPoint' /\ LocalServiceIsExclusive' /\ NoOrphanTransition'
  BY DEF LifecycleInv, StopDone, MachineStep, locks, network, requests, store,
     AuthorityTyped, ControlTyped, EnvTyped, NetworkTyped, RequestsTyped, StoreTyped,
     LocksTyped, NetMutex, DispatchMutex, AdmittedMatches, WifiPoint,
     LocalServiceIsExclusive, NoOrphanTransition, Converged
<1> QED BY <1>1, <1>2, <1>3, <1>4 DEF LifecycleInv

\* A moving machine faults.
LEMMA MachineFaultInv ==
    ASSUME LifecycleInv, MachineFault PROVE LifecycleInv'
<1>1. MachineTyped'
  BY DEF LifecycleInv, MachineFault, MachineStep, MachineTyped, Machines, MachineStates
<1>2. GrantPoint'
  BY DEF LifecycleInv, MachineFault, MachineStep, network, GrantPoint, Converged,
     Standstill
<1>3. ErasePoint'
  BY DEF LifecycleInv, MachineFault, MachineStep, ErasePoint, Standstill
<1>4. AuthorityTyped' /\ ControlTyped' /\ EnvTyped' /\ NetworkTyped' /\ RequestsTyped'
      /\ StoreTyped' /\ LocksTyped' /\ NetMutex' /\ DispatchMutex' /\ AdmittedMatches'
      /\ WifiPoint' /\ LocalServiceIsExclusive' /\ NoOrphanTransition'
  BY DEF LifecycleInv, MachineFault, MachineStep, locks, network, requests, store,
     AuthorityTyped, ControlTyped, EnvTyped, NetworkTyped, RequestsTyped, StoreTyped,
     LocksTyped, NetMutex, DispatchMutex, AdmittedMatches, WifiPoint,
     LocalServiceIsExclusive, NoOrphanTransition, Converged
<1> QED BY <1>1, <1>2, <1>3, <1>4 DEF LifecycleInv

\* A request reaches the portal.
LEMMA HttpRequestInv ==
    ASSUME LifecycleInv, HttpRequest PROVE LifecycleInv'
<1>1. RequestsTyped'
  BY DEF LifecycleInv, HttpRequest, RequestsTyped
<1>2. AuthorityTyped' /\ ControlTyped' /\ EnvTyped' /\ MachineTyped' /\ NetworkTyped'
      /\ StoreTyped' /\ LocksTyped' /\ NetMutex' /\ DispatchMutex' /\ AdmittedMatches'
      /\ GrantPoint' /\ WifiPoint' /\ ErasePoint' /\ LocalServiceIsExclusive'
      /\ NoOrphanTransition'
  BY DEF LifecycleInv, HttpRequest, locks, network, store, AuthorityTyped, ControlTyped,
     EnvTyped, MachineTyped, NetworkTyped, StoreTyped, LocksTyped, NetMutex,
     DispatchMutex, AdmittedMatches, GrantPoint, WifiPoint, ErasePoint,
     LocalServiceIsExclusive, NoOrphanTransition, Standstill, Converged
<1> QED BY <1>1, <1>2 DEF LifecycleInv

\* Local recovery is asked for.
LEMMA RequestRecoveryInv ==
    ASSUME LifecycleInv, RequestRecovery PROVE LifecycleInv'
<1>1. RequestsTyped'
  <2>1. [type |-> "recovery"] \in Events
    BY DEF Events, EventTypes
  <2> QED BY <2>1, PostedTyped DEF LifecycleInv, RequestRecovery, RequestsTyped
<1>2. StoreTyped'
  BY DEF LifecycleInv, RequestRecovery, StoreTyped
<1>3. AuthorityTyped' /\ ControlTyped' /\ EnvTyped' /\ MachineTyped' /\ NetworkTyped'
      /\ LocksTyped' /\ NetMutex' /\ DispatchMutex' /\ AdmittedMatches' /\ GrantPoint'
      /\ WifiPoint' /\ ErasePoint' /\ LocalServiceIsExclusive' /\ NoOrphanTransition'
  BY DEF LifecycleInv, RequestRecovery, locks, network, AuthorityTyped, ControlTyped,
     EnvTyped, MachineTyped, NetworkTyped, LocksTyped, NetMutex, DispatchMutex,
     AdmittedMatches, GrantPoint, WifiPoint, ErasePoint, LocalServiceIsExclusive,
     NoOrphanTransition, Standstill, Converged
<1> QED BY <1>1, <1>2, <1>3 DEF LifecycleInv

\* The station connects.
LEMMA LinkUpInv ==
    ASSUME LifecycleInv, LinkUp PROVE LifecycleInv'
<1>1. NetworkTyped'
  BY DEF LifecycleInv, LinkUp, NetworkTyped, Links
<1>2. RequestsTyped'
  <2>1. [type |-> "sta_connected"] \in Events
    BY DEF Events, EventTypes
  <2> QED BY <2>1, PostedTyped DEF LifecycleInv, LinkUp, RequestsTyped
<1>3. GrantPoint'
  BY DEF LifecycleInv, LinkUp, GrantPoint, Converged
<1>4. ErasePoint'
  BY DEF LifecycleInv, LinkUp, ErasePoint, Converged
<1>5. LocalServiceIsExclusive'
  BY DEF LifecycleInv, LinkUp, LocalServiceIsExclusive, Converged
<1>6. AuthorityTyped' /\ ControlTyped' /\ EnvTyped' /\ MachineTyped' /\ StoreTyped'
      /\ LocksTyped' /\ NetMutex' /\ DispatchMutex' /\ AdmittedMatches' /\ WifiPoint'
      /\ NoOrphanTransition'
  BY DEF LifecycleInv, LinkUp, locks, store, AuthorityTyped, ControlTyped, EnvTyped,
     MachineTyped, StoreTyped, LocksTyped, NetMutex, DispatchMutex, AdmittedMatches,
     WifiPoint, NoOrphanTransition
<1> QED BY <1>1, <1>2, <1>3, <1>4, <1>5, <1>6 DEF LifecycleInv

\* The station loses its link.
LEMMA LinkDownInv ==
    ASSUME LifecycleInv, LinkDown PROVE LifecycleInv'
<1>1. NetworkTyped'
  BY DEF LifecycleInv, LinkDown, NetworkTyped, Links
<1>2. RequestsTyped'
  <2>1. [type |-> "sta_disconnected"] \in Events
    BY DEF Events, EventTypes
  <2> QED BY <2>1, PostedTyped DEF LifecycleInv, LinkDown, RequestsTyped
<1>3. GrantPoint'
  BY DEF LifecycleInv, LinkDown, GrantPoint, Converged
<1>4. ErasePoint'
  BY DEF LifecycleInv, LinkDown, ErasePoint, Converged
<1>5. LocalServiceIsExclusive'
  BY DEF LifecycleInv, LinkDown, LocalServiceIsExclusive, Converged
<1>6. AuthorityTyped' /\ ControlTyped' /\ EnvTyped' /\ MachineTyped' /\ StoreTyped'
      /\ LocksTyped' /\ NetMutex' /\ DispatchMutex' /\ AdmittedMatches' /\ WifiPoint'
      /\ NoOrphanTransition'
  BY DEF LifecycleInv, LinkDown, locks, store, AuthorityTyped, ControlTyped, EnvTyped,
     MachineTyped, StoreTyped, LocksTyped, NetMutex, DispatchMutex, AdmittedMatches,
     WifiPoint, NoOrphanTransition
<1> QED BY <1>1, <1>2, <1>3, <1>4, <1>5, <1>6 DEF LifecycleInv

\* The retry timer starts another attempt.
LEMMA LinkRetryInv ==
    ASSUME LifecycleInv, LinkRetry PROVE LifecycleInv'
<1>1. NetworkTyped'
  BY DEF LifecycleInv, LinkRetry, NetworkTyped, Links
<1>2. GrantPoint'
  BY DEF LifecycleInv, LinkRetry, GrantPoint, Converged
<1>3. ErasePoint'
  BY DEF LinkRetry, ErasePoint
<1>4. LocalServiceIsExclusive'
  BY DEF LifecycleInv, LinkRetry, LocalServiceIsExclusive, Converged
<1>5. AuthorityTyped' /\ ControlTyped' /\ EnvTyped' /\ MachineTyped' /\ RequestsTyped'
      /\ StoreTyped' /\ LocksTyped' /\ NetMutex' /\ DispatchMutex' /\ AdmittedMatches'
      /\ WifiPoint' /\ NoOrphanTransition'
  BY DEF LifecycleInv, LinkRetry, locks, requests, store, AuthorityTyped, ControlTyped,
     EnvTyped, MachineTyped, RequestsTyped, StoreTyped, LocksTyped, NetMutex,
     DispatchMutex, AdmittedMatches, WifiPoint, NoOrphanTransition
<1> QED BY <1>1, <1>2, <1>3, <1>4, <1>5 DEF LifecycleInv

\* The console begins a transition.
LEMMA ConsoleRequestInv ==
    ASSUME LifecycleInv, ConsoleRequest PROVE LifecycleInv'
<1>1. ControlTyped'
  BY DEF LifecycleInv, ConsoleRequest, Goto, ControlTyped, Labels, CliLabels
<1>2. NetMutex'
  BY DEF LifecycleInv, ConsoleRequest, Goto, locks, NetMutex, ControlTyped, NetLabels
<1>3. DispatchMutex'
  BY DEF LifecycleInv, ConsoleRequest, Goto, locks, requests, DispatchMutex,
     ControlTyped
<1>4. GrantPoint'
  BY DEF LifecycleInv, ConsoleRequest, Goto, network, GrantPoint, ControlTyped,
     Converged, Standstill
<1>5. WifiPoint'
  BY DEF LifecycleInv, ConsoleRequest, Goto, WifiPoint, ControlTyped, Tasks
<1>6. ErasePoint'
  BY DEF LifecycleInv, ConsoleRequest, Goto, network, requests, ErasePoint,
     ControlTyped, Tasks, Converged, Standstill
<1>7. NoOrphanTransition'
  BY DEF LifecycleInv, ConsoleRequest, Goto, NoOrphanTransition, ControlTyped
<1>8. AuthorityTyped' /\ EnvTyped' /\ MachineTyped' /\ NetworkTyped' /\ RequestsTyped'
      /\ StoreTyped' /\ LocksTyped' /\ AdmittedMatches' /\ LocalServiceIsExclusive'
  BY DEF LifecycleInv, ConsoleRequest, locks, network, requests, store, AuthorityTyped,
     EnvTyped, MachineTyped, NetworkTyped, RequestsTyped, StoreTyped, LocksTyped,
     AdmittedMatches, LocalServiceIsExclusive, Converged
<1> QED BY <1>1, <1>2, <1>3, <1>4, <1>5, <1>6, <1>7, <1>8 DEF LifecycleInv

\* A source reads the generation for its command.
LEMMA BuildEnvelopeInv ==
    ASSUME NEW s \in Sources, LifecycleInv, BuildEnvelope(s) PROVE LifecycleInv'
<1>a. PICK e \in Envelopes : env' = [env EXCEPT ![s] = e] /\ ~e.admitted
  <2>1. PICK c \in Commands :
          env' = [env EXCEPT ![s] = [command |-> c, generation |-> authority.generation,
                                     admitted |-> FALSE]]
    BY DEF BuildEnvelope
  <2>2. [command |-> c, generation |-> authority.generation, admitted |-> FALSE] \in Envelopes
    BY DEF LifecycleInv, AuthorityTyped, AuthorityType, Envelopes
  <2> QED BY <2>1, <2>2
<1>b. /\ pc' = pc /\ dispatchHolder' = dispatchHolder /\ env[s] = NoEnv
      /\ s = "cli" => pc["cli"] = "idle"
  BY DEF BuildEnvelope, locks
<1>1. EnvTyped'
  BY <1>a DEF LifecycleInv, EnvTyped
<1>2. DispatchMutex'
  <2>1. \A r \in Sources : env'[r].admitted => env[r].admitted /\ r # s
    BY <1>a DEF LifecycleInv, EnvTyped
  <2>2. dispatchHolder \in Sources /\ env[dispatchHolder].admitted
          => env'[dispatchHolder].admitted
    BY <1>a, <1>b DEF NoEnv
  <2>3. pc'["cli"] # "idle" => env'["cli"] = NoEnv
    BY <1>a, <1>b DEF LifecycleInv, DispatchMutex
  <2> QED BY <1>b, <2>1, <2>2, <2>3 DEF LifecycleInv, DispatchMutex
<1>3. AdmittedMatches'
  BY DEF LifecycleInv, BuildEnvelope, AdmittedMatches
<1>4. ErasePoint'
  BY DEF LifecycleInv, BuildEnvelope, network, ErasePoint, Converged, Standstill
<1>5. AuthorityTyped' /\ ControlTyped' /\ MachineTyped' /\ NetworkTyped'
      /\ RequestsTyped' /\ StoreTyped' /\ LocksTyped' /\ NetMutex' /\ GrantPoint'
      /\ WifiPoint' /\ LocalServiceIsExclusive' /\ NoOrphanTransition'
  BY DEF LifecycleInv, BuildEnvelope, locks, network, store, AuthorityTyped,
     ControlTyped, MachineTyped, NetworkTyped, RequestsTyped, StoreTyped, LocksTyped,
     NetMutex, GrantPoint, WifiPoint, LocalServiceIsExclusive, NoOrphanTransition,
     Standstill, Converged
<1> QED BY <1>1, <1>2, <1>3, <1>4, <1>5 DEF LifecycleInv

\* The router takes s_dispatch_mutex and admits the command, or refuses it.
LEMMA AdmitInv ==
    ASSUME NEW s \in Sources, LifecycleInv, Admit(s) PROVE LifecycleInv'
<1>a. env[s] \in Envelopes
  BY DEF LifecycleInv, Admit, EnvTyped
<1>b. PICK e \in Envelopes \cup {NoEnv} :
        /\ env' = [env EXCEPT ![s] = e]
        /\ \/ e.admitted /\ e # NoEnv /\ dispatchHolder' = s /\ Permitted(authority, s)
           \/ e = NoEnv /\ dispatchHolder' = dispatchHolder
  <2>1. CASE env[s].generation = authority.generation /\ Permitted(authority, s)
    <3>1. env' = [env EXCEPT ![s] = [env[s] EXCEPT !.admitted = TRUE]]
          /\ dispatchHolder' = s
      BY <2>1 DEF Admit
    <3>2. /\ [env[s] EXCEPT !.admitted = TRUE] \in Envelopes
          /\ [env[s] EXCEPT !.admitted = TRUE].admitted
          /\ [env[s] EXCEPT !.admitted = TRUE] # NoEnv
      BY <1>a DEF Envelopes, NoEnv
    <3> QED BY <2>1, <3>1, <3>2
  <2>2. CASE ~(env[s].generation = authority.generation /\ Permitted(authority, s))
    BY <2>2 DEF Admit
  <2> QED BY <2>1, <2>2
<1>c. /\ dispatchHolder = "none" /\ pc' = pc /\ env[s] # NoEnv
      /\ \A r \in Sources : ~env[r].admitted
  BY DEF LifecycleInv, Admit, DispatchFree, DispatchMutex, Sources
<1>1. EnvTyped'
  BY <1>b DEF LifecycleInv, EnvTyped
<1>2. LocksTyped'
  BY DEF LifecycleInv, Admit, LocksTyped
<1>3. DispatchMutex'
  <2>1. \A r \in Sources : env'[r].admitted => dispatchHolder' = r
    BY <1>b, <1>c DEF NoEnv
  <2>2. \A t \in Tasks : pc'[t] # "entry_grant"
    BY <1>c DEF LifecycleInv, DispatchMutex, Tasks
  <2>3. \/ dispatchHolder' = "none"
        \/ dispatchHolder' \in Sources /\ env'[dispatchHolder'].admitted
    BY <1>b, <1>c DEF LifecycleInv, EnvTyped
  <2>4. pc'["cli"] # "idle" => env'["cli"] = NoEnv
    BY <1>b, <1>c DEF LifecycleInv, DispatchMutex
  <2> QED BY <2>1, <2>2, <2>3, <2>4 DEF DispatchMutex
<1>4. AdmittedMatches'
  BY DEF LifecycleInv, Admit, AdmittedMatches, EnvTyped, Permitted, NoEnv
<1>5. ErasePoint'
  BY DEF LifecycleInv, Admit, network, ErasePoint, EnvTyped, Converged, Standstill,
     Permitted, NoEnv
<1>6. AuthorityTyped' /\ ControlTyped' /\ MachineTyped' /\ NetworkTyped'
      /\ RequestsTyped' /\ StoreTyped' /\ NetMutex' /\ GrantPoint' /\ WifiPoint'
      /\ LocalServiceIsExclusive' /\ NoOrphanTransition'
  BY DEF LifecycleInv, Admit, network, store, AuthorityTyped, ControlTyped,
     MachineTyped, NetworkTyped, RequestsTyped, StoreTyped, NetMutex, GrantPoint,
     WifiPoint, LocalServiceIsExclusive, NoOrphanTransition, Standstill, Converged
<1> QED BY <1>1, <1>2, <1>3, <1>4, <1>5, <1>6 DEF LifecycleInv

\* The admitted command runs and the router releases s_dispatch_mutex.  A task
\* that holds it to grant excludes this, so a checked standstill stays.
LEMMA ExecuteInv ==
    ASSUME NEW s \in Sources, LifecycleInv, Execute(s) PROVE LifecycleInv'
<1>a. env[s] \in Envelopes
  BY DEF LifecycleInv, Execute, EnvTyped, NoEnv
<1>b. /\ env' = [env EXCEPT ![s] = NoEnv] /\ dispatchHolder' = "none"
      /\ dispatchHolder = s /\ pc' = pc /\ env' \in [Sources -> Envelopes \cup {NoEnv}]
  BY DEF LifecycleInv, Execute, EnvTyped, DispatchMutex
<1>1. EnvTyped'
  BY DEF LifecycleInv, Execute, EnvTyped
<1>2. MachineTyped'
  BY <1>a, OutcomesTyped DEF LifecycleInv, Execute, MachineTyped, Envelopes
<1>3. LocksTyped'
  BY DEF LifecycleInv, Execute, LocksTyped
<1>4. DispatchMutex'
  <2>1. \A r \in Sources : env'[r].admitted => dispatchHolder' = r
    BY <1>b DEF LifecycleInv, DispatchMutex, NoEnv
  <2>2. \A t \in Tasks : pc'[t] = "entry_grant" => dispatchHolder' = t
    BY DEF LifecycleInv, DispatchMutex, Execute, Tasks, Sources, NoEnv
  <2>3. pc'["cli"] # "idle" => env'["cli"] = NoEnv
    BY <1>b DEF LifecycleInv, DispatchMutex
  <2> QED BY <1>b, <2>1, <2>2, <2>3 DEF DispatchMutex
<1>5. AdmittedMatches'
  BY DEF LifecycleInv, Execute, AdmittedMatches
<1>6. GrantPoint'
  BY DEF LifecycleInv, Execute, network, GrantPoint, DispatchMutex, Tasks, Sources,
     Converged, NoEnv
<1>7. ErasePoint'
  BY DEF LifecycleInv, Execute, ErasePoint
<1>8. AuthorityTyped' /\ ControlTyped' /\ NetworkTyped' /\ RequestsTyped'
      /\ StoreTyped' /\ NetMutex' /\ WifiPoint' /\ LocalServiceIsExclusive'
      /\ NoOrphanTransition'
  BY DEF LifecycleInv, Execute, network, store, AuthorityTyped, ControlTyped,
     NetworkTyped, RequestsTyped, StoreTyped, NetMutex, WifiPoint,
     LocalServiceIsExclusive, NoOrphanTransition, Converged
<1> QED BY <1>1, <1>2, <1>3, <1>4, <1>5, <1>6, <1>7, <1>8 DEF LifecycleInv

\* The portal's handler decides and posts its event.
LEMMA ServeRequestInv ==
    ASSUME LifecycleInv, ServeRequest PROVE LifecycleInv'
<1>1. RequestsTyped'
  <2>1. Fingerprint \in Preflights
    BY DEF LifecycleInv, AuthorityTyped, NetworkTyped, Fingerprint, Preflights
  <2>2. EventFor(portal) \in Events
    BY <2>1 DEF LifecycleInv, ServeRequest, RequestsTyped, EventFor, PortalRequests,
       Events, EventTypes
  <2>3. queue' \in Seq(Events) /\ Len(queue') <= QueueLength
    BY <2>2, PostedTyped DEF LifecycleInv, ServeRequest, RequestsTyped
  <2>4. resetPending' \in BOOLEAN /\ portal' = "idle"
    BY DEF ServeRequest
  <2> QED BY <2>3, <2>4 DEF RequestsTyped
<1>2. StoreTyped'
  BY DEF LifecycleInv, ServeRequest, StoreTyped
<1>3. AuthorityTyped' /\ ControlTyped' /\ EnvTyped' /\ MachineTyped' /\ NetworkTyped'
      /\ LocksTyped' /\ NetMutex' /\ DispatchMutex' /\ AdmittedMatches' /\ GrantPoint'
      /\ WifiPoint' /\ ErasePoint' /\ LocalServiceIsExclusive' /\ NoOrphanTransition'
  BY DEF LifecycleInv, ServeRequest, locks, network, AuthorityTyped, ControlTyped,
     EnvTyped, MachineTyped, NetworkTyped, LocksTyped, NetMutex, DispatchMutex,
     AdmittedMatches, GrantPoint, WifiPoint, ErasePoint, LocalServiceIsExclusive,
     NoOrphanTransition, Standstill, Converged
<1> QED BY <1>1, <1>2, <1>3 DEF LifecycleInv

\* The network task takes the next event.
LEMMA NextEventInv ==
    ASSUME LifecycleInv, NextEvent PROVE LifecycleInv'
<1> PICK label \in FirstLabels : Goto("net", label)
  BY NextHandler DEF LifecycleInv, NextEvent, RequestsTyped
<1> pc' = [pc EXCEPT !["net"] = label] /\ pc["net"] = "idle"
  BY DEF NextEvent, Goto
<1>1. ControlTyped'
  BY DEF LifecycleInv, ControlTyped, FirstLabels, Labels, Tasks
<1>2. RequestsTyped'
  BY NextHandler DEF LifecycleInv, NextEvent, RequestsTyped
<1>3. NetMutex'
  BY DEF LifecycleInv, NetMutex, NetLabels, FirstLabels, NextEvent, locks
<1>4. DispatchMutex'
  BY DEF LifecycleInv, DispatchMutex, FirstLabels, NextEvent, locks
<1>5. GrantPoint'
  BY DEF LifecycleInv, GrantPoint, FirstLabels, NextEvent, network, Converged,
     Standstill
<1>6. WifiPoint'
  BY DEF WifiPoint, FirstLabels
<1>7. ErasePoint'
  BY DEF ErasePoint, FirstLabels
<1>8. NoOrphanTransition'
  BY DEF LifecycleInv, NextEvent, NoOrphanTransition
<1>9. AuthorityTyped' /\ EnvTyped' /\ MachineTyped' /\ NetworkTyped' /\ StoreTyped'
      /\ LocksTyped' /\ AdmittedMatches' /\ LocalServiceIsExclusive'
  BY DEF LifecycleInv, NextEvent, locks, network, store, AuthorityTyped, EnvTyped,
     MachineTyped, NetworkTyped, StoreTyped, LocksTyped, AdmittedMatches,
     LocalServiceIsExclusive, Converged
<1> QED BY <1>1, <1>2, <1>3, <1>4, <1>5, <1>6, <1>7, <1>8, <1>9 DEF LifecycleInv

---------------------------------------------------------------------------
(* Service entry.                                                          *)

\* The policy, for the first time.
LEMMA EntryPolicyInv ==
    ASSUME NEW t \in Tasks, LifecycleInv, EntryPolicy(t) PROVE LifecycleInv'
<1>1. ControlTyped'
  BY DEF LifecycleInv, EntryPolicy, Goto, Leave, ControlTyped, Tasks, Labels, CliLabels
<1>2. LocksTyped'
  BY DEF LifecycleInv, EntryPolicy, LocksTyped
<1>3. NetMutex'
  BY DEF LifecycleInv, EntryPolicy, Goto, Leave, NetFree, NetMutex, ControlTyped,
     NetLabels, Tasks
<1>4. DispatchMutex'
  BY DEF LifecycleInv, EntryPolicy, Goto, Leave, requests, DispatchMutex, ControlTyped,
     Tasks
<1>5. GrantPoint'
  BY DEF LifecycleInv, EntryPolicy, Goto, Leave, network, GrantPoint, ControlTyped,
     Converged, Standstill
<1>6. WifiPoint'
  BY DEF LifecycleInv, EntryPolicy, Goto, Leave, WifiPoint, ControlTyped, Tasks
<1>7. ErasePoint'
  BY DEF LifecycleInv, EntryPolicy, Goto, Leave, network, requests, EntryPermitted,
     EntryPolicyOK, ErasePoint, ControlTyped, Tasks, Converged, Standstill
<1>8. NoOrphanTransition'
  BY DEF LifecycleInv, EntryPolicy, Goto, Leave, NoOrphanTransition, ControlTyped
<1>9. AuthorityTyped' /\ EnvTyped' /\ MachineTyped' /\ NetworkTyped' /\ RequestsTyped'
      /\ StoreTyped' /\ AdmittedMatches' /\ LocalServiceIsExclusive'
  BY DEF LifecycleInv, EntryPolicy, network, requests, store, AuthorityTyped, EnvTyped,
     MachineTyped, NetworkTyped, RequestsTyped, StoreTyped, AdmittedMatches,
     LocalServiceIsExclusive, Converged
<1> QED BY <1>1, <1>2, <1>3, <1>4, <1>5, <1>6, <1>7, <1>8, <1>9 DEF LifecycleInv

\* The transition begins: the authority is withdrawn from everybody.
LEMMA EntryCommitInv ==
    ASSUME NEW t \in Tasks, LifecycleInv, EntryCommit(t) PROVE LifecycleInv'
<1>1. AuthorityTyped'
  BY SettingMode DEF LifecycleInv, EntryCommit, AuthorityTyped
<1>2. ControlTyped'
  BY DEF LifecycleInv, EntryCommit, Goto, Leave, ControlTyped, Tasks, Labels, CliLabels
<1>3. NetworkTyped'
  BY DEF LifecycleInv, EntryCommit, NetworkTyped, NetModes, Txns
<1>4. LocksTyped'
  BY DEF LifecycleInv, EntryCommit, LocksTyped
<1>5. NetMutex'
  BY DEF LifecycleInv, EntryCommit, Goto, Leave, NetMutex, ControlTyped, NetLabels,
     Tasks
<1>6. DispatchMutex'
  BY DEF LifecycleInv, EntryCommit, Goto, Leave, requests, DispatchMutex, ControlTyped,
     Tasks
<1>7. AdmittedMatches'
  BY DEF LifecycleInv, EntryCommit, DispatchFree, requests, AdmittedMatches,
     DispatchMutex, Sources
<1>8. GrantPoint'
  BY DEF LifecycleInv, EntryCommit, Goto, Leave, DispatchFree, GrantPoint, ControlTyped,
     DispatchMutex, Tasks, Converged
<1>9. WifiPoint'
  BY SettingMode DEF LifecycleInv, EntryCommit, Goto, Leave, WifiPoint, AuthorityTyped,
     ControlTyped, Tasks
<1>10. ErasePoint'
  BY DEF LifecycleInv, EntryCommit, Goto, Leave, ErasePoint, ControlTyped, Tasks
<1>11. LocalServiceIsExclusive'
  BY SettingMode DEF LifecycleInv, EntryCommit, LocalServiceIsExclusive, AuthorityTyped,
     Converged
<1>12. NoOrphanTransition'
  BY DEF LifecycleInv, EntryCommit, Goto, Leave, NoOrphanTransition, ControlTyped
<1>13. EnvTyped' /\ MachineTyped' /\ RequestsTyped' /\ StoreTyped'
  BY DEF LifecycleInv, EntryCommit, requests, store, EnvTyped, MachineTyped,
     RequestsTyped, StoreTyped
<1> QED BY <1>1, <1>2, <1>3, <1>4, <1>5, <1>6, <1>7, <1>8, <1>9, <1>10, <1>11, <1>12,
   <1>13 DEF LifecycleInv

\* The server stops without s_net_mutex, and the other task may act.
LEMMA EntryStopHttpInv ==
    ASSUME NEW t \in Tasks, LifecycleInv, EntryStopHttp(t) PROVE LifecycleInv'
<1>1. ControlTyped'
  BY DEF LifecycleInv, EntryStopHttp, Goto, ControlTyped, Labels, CliLabels
<1>2. NetworkTyped'
  BY DEF LifecycleInv, EntryStopHttp, network, NetworkTyped
<1>3. NetMutex'
  BY DEF LifecycleInv, EntryStopHttp, Goto, locks, NetMutex, NetLabels
<1>4. DispatchMutex'
  BY DEF LifecycleInv, EntryStopHttp, Goto, locks, requests, DispatchMutex
<1>5. GrantPoint'
  BY DEF LifecycleInv, EntryStopHttp, Goto, network, GrantPoint, Converged, Standstill
<1>6. WifiPoint'
  BY DEF LifecycleInv, EntryStopHttp, Goto, WifiPoint
<1>7. ErasePoint'
  BY DEF LifecycleInv, EntryStopHttp, Goto, network, requests, ErasePoint, Converged,
     Standstill
<1>8. NoOrphanTransition'
  BY DEF EntryStopHttp, Goto, NoOrphanTransition
<1>9. AuthorityTyped' /\ EnvTyped' /\ MachineTyped' /\ RequestsTyped' /\ StoreTyped'
      /\ LocksTyped' /\ AdmittedMatches' /\ LocalServiceIsExclusive'
  BY DEF LifecycleInv, EntryStopHttp, locks, network, requests, store, AuthorityTyped,
     EnvTyped, MachineTyped, RequestsTyped, StoreTyped, LocksTyped, AdmittedMatches,
     LocalServiceIsExclusive, Converged
<1> QED BY <1>1, <1>2, <1>3, <1>4, <1>5, <1>6, <1>7, <1>8, <1>9 DEF LifecycleInv

\* The normal stop.
LEMMA EntryStopInv ==
    ASSUME NEW t \in Tasks, LifecycleInv, EntryStop(t) PROVE LifecycleInv'
<1>1. ControlTyped'
  BY DEF LifecycleInv, EntryStop, Goto, NormalStop, ControlTyped, Tasks, Labels,
     CliLabels
<1>2. MachineTyped'
  BY DEF LifecycleInv, EntryStop, NormalStop, Outcomes, MachineTyped, Machines,
     MachineStates
<1>3. LocksTyped'
  BY DEF LifecycleInv, EntryStop, TakeNet, LocksTyped
<1>4. NetMutex'
  BY DEF LifecycleInv, EntryStop, Goto, TakeNet, NormalStop, NetMutex, ControlTyped,
     NetLabels, Tasks
<1>5. DispatchMutex'
  BY DEF LifecycleInv, EntryStop, Goto, NormalStop, requests, DispatchMutex,
     ControlTyped, Tasks
<1>6. GrantPoint'
  BY DEF LifecycleInv, EntryStop, Goto, NormalStop, network, Outcomes, GrantPoint,
     ControlTyped, Converged, Standstill
<1>7. WifiPoint'
  BY DEF LifecycleInv, EntryStop, Goto, NormalStop, WifiPoint, ControlTyped, Tasks
<1>8. ErasePoint'
  BY DEF LifecycleInv, EntryStop, Goto, NormalStop, network, requests, Outcomes,
     ErasePoint, ControlTyped, Tasks, Converged, Standstill
<1>9. NoOrphanTransition'
  BY DEF LifecycleInv, EntryStop, Goto, NormalStop, NoOrphanTransition, ControlTyped
<1>10. AuthorityTyped' /\ EnvTyped' /\ NetworkTyped' /\ RequestsTyped' /\ StoreTyped'
      /\ AdmittedMatches' /\ LocalServiceIsExclusive'
  BY DEF LifecycleInv, EntryStop, network, requests, store, AuthorityTyped, EnvTyped,
     NetworkTyped, RequestsTyped, StoreTyped, AdmittedMatches, LocalServiceIsExclusive,
     Converged
<1> QED BY <1>1, <1>2, <1>3, <1>4, <1>5, <1>6, <1>7, <1>8, <1>9, <1>10 DEF LifecycleInv

\* Waiting for standstill.
LEMMA EntryVerifyInv ==
    ASSUME NEW t \in Tasks, LifecycleInv, EntryVerify(t) PROVE LifecycleInv'
<1>1. ControlTyped'
  BY DEF LifecycleInv, EntryVerify, Goto, ControlTyped, Labels, CliLabels
<1>2. NetMutex'
  BY DEF LifecycleInv, EntryVerify, Goto, locks, NetMutex, NetLabels
<1>3. DispatchMutex'
  BY DEF LifecycleInv, EntryVerify, Goto, locks, requests, DispatchMutex
<1>4. GrantPoint'
  BY DEF LifecycleInv, EntryVerify, Goto, network, GrantPoint, Converged, Standstill
<1>5. WifiPoint'
  BY DEF LifecycleInv, EntryVerify, Goto, WifiPoint
<1>6. ErasePoint'
  BY DEF LifecycleInv, EntryVerify, Goto, network, requests, ErasePoint, Converged,
     Standstill
<1>7. NoOrphanTransition'
  BY DEF EntryVerify, Goto, NoOrphanTransition
<1>8. AuthorityTyped' /\ EnvTyped' /\ MachineTyped' /\ NetworkTyped' /\ RequestsTyped'
      /\ StoreTyped' /\ LocksTyped' /\ AdmittedMatches' /\ LocalServiceIsExclusive'
  BY DEF LifecycleInv, EntryVerify, locks, network, requests, store, AuthorityTyped,
     EnvTyped, MachineTyped, NetworkTyped, RequestsTyped, StoreTyped, LocksTyped,
     AdmittedMatches, LocalServiceIsExclusive, Converged
<1> QED BY <1>1, <1>2, <1>3, <1>4, <1>5, <1>6, <1>7, <1>8 DEF LifecycleInv

\* The network goes down; from here on it stays down until the grant.
LEMMA EntryNetworkInv ==
    ASSUME NEW t \in Tasks, LifecycleInv, EntryNetwork(t) PROVE LifecycleInv'
<1>1. ControlTyped'
  BY DEF LifecycleInv, EntryNetwork, Goto, ControlTyped, Labels, CliLabels
<1>2. NetworkTyped'
  BY DEF LifecycleInv, EntryNetwork, NetworkTyped, Links
<1>3. NetMutex'
  BY DEF LifecycleInv, EntryNetwork, Goto, locks, NetMutex, NetLabels
<1>4. DispatchMutex'
  BY DEF LifecycleInv, EntryNetwork, Goto, locks, requests, DispatchMutex
<1>5. GrantPoint'
  BY DEF LifecycleInv, EntryNetwork, Goto, locks, requests, store, GrantPoint,
     ControlTyped, MachineTyped, Machines, NetworkTyped, NetMutex, DispatchMutex, Tasks,
     Sources, Converged, Standstill, NetLabels, NoEnv
<1>6. WifiPoint'
  BY DEF LifecycleInv, EntryNetwork, Goto, WifiPoint
<1>7. ErasePoint'
  BY DEF LifecycleInv, EntryNetwork, Goto, locks, requests, store, ErasePoint,
     AuthorityTyped, ControlTyped, MachineTyped, Machines, EnvTyped, Envelopes, Tasks,
     Converged, Standstill, NetMutex, DispatchMutex, Permitted, NetLabels, NoEnv
<1>8. LocalServiceIsExclusive'
  BY DEF LifecycleInv, EntryNetwork, LocalServiceIsExclusive, NetworkTyped, Converged
<1>9. NoOrphanTransition'
  BY DEF EntryNetwork, Goto, NoOrphanTransition
<1>10. AuthorityTyped' /\ EnvTyped' /\ MachineTyped' /\ RequestsTyped' /\ StoreTyped'
      /\ LocksTyped' /\ AdmittedMatches'
  BY DEF LifecycleInv, EntryNetwork, locks, requests, store, AuthorityTyped, EnvTyped,
     MachineTyped, RequestsTyped, StoreTyped, LocksTyped, AdmittedMatches
<1> QED BY <1>1, <1>2, <1>3, <1>4, <1>5, <1>6, <1>7, <1>8, <1>9, <1>10 DEF LifecycleInv

\* The machine is looked at.
LEMMA EntrySafeInv ==
    ASSUME NEW t \in Tasks, LifecycleInv, EntrySafe(t) PROVE LifecycleInv'
<1>1. ControlTyped'
  BY DEF LifecycleInv, EntrySafe, Goto, ControlTyped, Labels, CliLabels
<1>2. NetMutex'
  BY DEF LifecycleInv, EntrySafe, Goto, locks, NetMutex, NetLabels
<1>3. DispatchMutex'
  BY DEF LifecycleInv, EntrySafe, Goto, locks, requests, DispatchMutex
<1>4. GrantPoint'
  BY DEF LifecycleInv, EntrySafe, Goto, network, GrantPoint, Converged, Standstill
<1>5. WifiPoint'
  BY DEF LifecycleInv, EntrySafe, Goto, WifiPoint
<1>6. ErasePoint'
  BY DEF LifecycleInv, EntrySafe, Goto, network, requests, ErasePoint, Converged,
     Standstill
<1>7. NoOrphanTransition'
  BY DEF EntrySafe, Goto, NoOrphanTransition
<1>8. AuthorityTyped' /\ EnvTyped' /\ MachineTyped' /\ NetworkTyped' /\ RequestsTyped'
      /\ StoreTyped' /\ LocksTyped' /\ AdmittedMatches' /\ LocalServiceIsExclusive'
  BY DEF LifecycleInv, EntrySafe, locks, network, requests, store, AuthorityTyped,
     EnvTyped, MachineTyped, NetworkTyped, RequestsTyped, StoreTyped, LocksTyped,
     AdmittedMatches, LocalServiceIsExclusive, Converged
<1> QED BY <1>1, <1>2, <1>3, <1>4, <1>5, <1>6, <1>7, <1>8 DEF LifecycleInv

\* s_dispatch_mutex is taken and the standstill is established under it.
LEMMA EntryGateInv ==
    ASSUME NEW t \in Tasks, LifecycleInv, EntryGate(t) PROVE LifecycleInv'
<1>1. ControlTyped'
  BY DEF LifecycleInv, EntryGate, Goto, ControlTyped, Tasks, Labels, CliLabels
<1>2. LocksTyped'
  BY DEF LifecycleInv, EntryGate, LocksTyped
<1>3. NetMutex'
  BY DEF LifecycleInv, EntryGate, Goto, NetMutex, ControlTyped, NetLabels
<1>4. DispatchMutex'
  BY DEF LifecycleInv, EntryGate, Goto, DispatchFree, requests, DispatchMutex,
     ControlTyped, Tasks, Sources
<1>5. GrantPoint'
  BY DEF LifecycleInv, EntryGate, Goto, Safe, network, AtRest, GrantPoint, ControlTyped,
     Converged, Standstill
<1>6. WifiPoint'
  BY DEF LifecycleInv, EntryGate, Goto, WifiPoint, ControlTyped, Tasks
<1>7. ErasePoint'
  BY DEF LifecycleInv, EntryGate, Goto, network, requests, ErasePoint, ControlTyped,
     Tasks, Converged, Standstill
<1>8. NoOrphanTransition'
  BY DEF LifecycleInv, EntryGate, Goto, NoOrphanTransition, ControlTyped
<1>9. AuthorityTyped' /\ EnvTyped' /\ MachineTyped' /\ NetworkTyped' /\ RequestsTyped'
      /\ StoreTyped' /\ AdmittedMatches' /\ LocalServiceIsExclusive'
  BY DEF LifecycleInv, EntryGate, network, requests, store, AuthorityTyped, EnvTyped,
     MachineTyped, NetworkTyped, RequestsTyped, StoreTyped, AdmittedMatches,
     LocalServiceIsExclusive, Converged
<1> QED BY <1>1, <1>2, <1>3, <1>4, <1>5, <1>6, <1>7, <1>8, <1>9 DEF LifecycleInv

\* The grant itself.
LEMMA EntryGrantInv ==
    ASSUME NEW t \in Tasks, LifecycleInv, EntryGrant(t) PROVE LifecycleInv'
<1>1. AuthorityTyped'
  BY Granting DEF LifecycleInv, EntryGrant, AuthorityTyped
<1>2. ControlTyped'
  BY DEF LifecycleInv, EntryGrant, Goto, ControlTyped, Tasks, Labels, CliLabels
<1>3. NetworkTyped'
  BY DEF LifecycleInv, EntryGrant, network, NetworkTyped, NetModes
<1>4. LocksTyped'
  BY DEF LifecycleInv, EntryGrant, LocksTyped
<1>5. NetMutex'
  BY DEF LifecycleInv, EntryGrant, Goto, NetMutex, ControlTyped, NetLabels, Tasks
<1>6. DispatchMutex'
  BY DEF LifecycleInv, EntryGrant, Goto, requests, DispatchMutex, ControlTyped, Tasks,
     Sources, NoEnv
<1>7. AdmittedMatches'
  BY Granting DEF LifecycleInv, EntryGrant, requests, AdmittedMatches, AuthorityTyped
<1>8. GrantPoint'
  BY DEF LifecycleInv, EntryGrant, Goto, network, GrantPoint, ControlTyped,
     DispatchMutex, Converged
<1>9. WifiPoint'
  BY DEF LifecycleInv, EntryGrant, Goto, WifiPoint, ControlTyped, Tasks, NetMutex,
     NetLabels
<1>10. ErasePoint'
  BY Granting DEF LifecycleInv, EntryGrant, Goto, network, requests, ErasePoint,
     AuthorityTyped, ControlTyped, Tasks, Converged, Standstill
<1>11. LocalServiceIsExclusive'
  BY DEF LifecycleInv, EntryGrant, network, LocalServiceIsExclusive, Converged,
     GrantPoint
<1>12. NoOrphanTransition'
  BY Granting DEF LifecycleInv, EntryGrant, NoOrphanTransition, AuthorityTyped
<1>13. EnvTyped' /\ MachineTyped' /\ RequestsTyped' /\ StoreTyped'
  BY DEF LifecycleInv, EntryGrant, requests, store, EnvTyped, MachineTyped,
     RequestsTyped, StoreTyped
<1> QED BY <1>1, <1>2, <1>3, <1>4, <1>5, <1>6, <1>7, <1>8, <1>9, <1>10, <1>11, <1>12,
   <1>13 DEF LifecycleInv

\* A failed entry revokes.
LEMMA EntryAbortInv ==
    ASSUME NEW t \in Tasks, LifecycleInv, EntryAbort(t) PROVE LifecycleInv'
<1>1. AuthorityTyped'
  BY SettingMode DEF LifecycleInv, EntryAbort, AuthorityTyped
<1>2. ControlTyped'
  BY DEF LifecycleInv, EntryAbort, Goto, Leave, ControlTyped, Tasks, Labels, CliLabels
<1>3. NetworkTyped'
  BY DEF LifecycleInv, EntryAbort, network, NetworkTyped, NetModes
<1>4. LocksTyped'
  BY DEF LifecycleInv, EntryAbort, LocksTyped
<1>5. NetMutex'
  BY DEF LifecycleInv, EntryAbort, Goto, Leave, NetMutex, ControlTyped, NetLabels, Tasks
<1>6. DispatchMutex'
  BY DEF LifecycleInv, EntryAbort, Goto, Leave, requests, DispatchMutex, ControlTyped,
     Tasks
<1>7. AdmittedMatches'
  BY SettingMode DEF LifecycleInv, EntryAbort, AdmittedMatches, AuthorityTyped
<1>8. GrantPoint'
  BY DEF LifecycleInv, EntryAbort, Goto, Leave, network, GrantPoint, ControlTyped,
     Converged, Standstill
<1>9. WifiPoint'
  BY SettingMode DEF LifecycleInv, EntryAbort, WifiPoint, AuthorityTyped, Tasks
<1>10. ErasePoint'
  BY SettingMode DEF LifecycleInv, EntryAbort, Goto, Leave, network, requests,
     ErasePoint, AuthorityTyped, ControlTyped, Tasks, Converged, Standstill
<1>11. LocalServiceIsExclusive'
  BY SettingMode DEF LifecycleInv, EntryAbort, LocalServiceIsExclusive, AuthorityTyped
<1>12. NoOrphanTransition'
  BY SettingMode DEF LifecycleInv, EntryAbort, NoOrphanTransition, AuthorityTyped
<1>13. EnvTyped' /\ MachineTyped' /\ RequestsTyped' /\ StoreTyped'
  BY DEF LifecycleInv, EntryAbort, requests, store, EnvTyped, MachineTyped,
     RequestsTyped, StoreTyped
<1> QED BY <1>1, <1>2, <1>3, <1>4, <1>5, <1>6, <1>7, <1>8, <1>9, <1>10, <1>11, <1>12,
   <1>13 DEF LifecycleInv

\* The server starts again.
LEMMA EntryStartHttpInv ==
    ASSUME NEW t \in Tasks, LifecycleInv, EntryStartHttp(t) PROVE LifecycleInv'
<1>1. ControlTyped'
  BY DEF LifecycleInv, EntryStartHttp, Leave, Goto, ControlTyped, Labels, CliLabels
<1>2. NetworkTyped'
  BY DEF LifecycleInv, EntryStartHttp, network, NetworkTyped
<1>3. NetMutex'
  BY DEF LifecycleInv, EntryStartHttp, Leave, locks, Goto, NetMutex, NetLabels
<1>4. DispatchMutex'
  BY DEF LifecycleInv, EntryStartHttp, Leave, locks, requests, Goto, DispatchMutex
<1>5. GrantPoint'
  BY DEF LifecycleInv, EntryStartHttp, Leave, network, Goto, GrantPoint, Converged,
     Standstill
<1>6. WifiPoint'
  BY DEF LifecycleInv, EntryStartHttp, Leave, Goto, WifiPoint
<1>7. ErasePoint'
  BY DEF LifecycleInv, EntryStartHttp, Leave, network, requests, Goto, ErasePoint,
     Converged, Standstill
<1>8. NoOrphanTransition'
  BY DEF LifecycleInv, EntryStartHttp, Leave, Goto, NoOrphanTransition
<1>9. AuthorityTyped' /\ EnvTyped' /\ MachineTyped' /\ RequestsTyped' /\ StoreTyped'
      /\ LocksTyped' /\ AdmittedMatches' /\ LocalServiceIsExclusive'
  BY DEF LifecycleInv, EntryStartHttp, locks, network, requests, store, AuthorityTyped,
     EnvTyped, MachineTyped, RequestsTyped, StoreTyped, LocksTyped, AdmittedMatches,
     LocalServiceIsExclusive, Converged
<1> QED BY <1>1, <1>2, <1>3, <1>4, <1>5, <1>6, <1>7, <1>8, <1>9 DEF LifecycleInv

---------------------------------------------------------------------------
(* Service exit.                                                           *)

\* s_net_mutex is taken.
LEMMA ExitLockInv ==
    ASSUME NEW t \in Tasks, LifecycleInv, ExitLock(t) PROVE LifecycleInv'
<1>1. ControlTyped'
  BY DEF LifecycleInv, ExitLock, Goto, Leave, ControlTyped, Tasks, Labels, CliLabels
<1>2. LocksTyped'
  BY DEF LifecycleInv, ExitLock, LocksTyped
<1>3. NetMutex'
  BY DEF LifecycleInv, ExitLock, Goto, Leave, NetFree, NetMutex, ControlTyped,
     NetLabels, Tasks
<1>4. DispatchMutex'
  BY DEF LifecycleInv, ExitLock, Goto, Leave, requests, DispatchMutex, ControlTyped,
     Tasks
<1>5. GrantPoint'
  BY DEF LifecycleInv, ExitLock, Goto, Leave, network, GrantPoint, ControlTyped,
     Converged, Standstill
<1>6. WifiPoint'
  BY DEF LifecycleInv, ExitLock, Goto, Leave, WifiPoint, ControlTyped, Tasks
<1>7. ErasePoint'
  BY DEF LifecycleInv, ExitLock, Goto, Leave, network, requests, ErasePoint,
     ControlTyped, Tasks, Converged, Standstill
<1>8. NoOrphanTransition'
  BY DEF LifecycleInv, ExitLock, Goto, Leave, NoOrphanTransition, ControlTyped
<1>9. AuthorityTyped' /\ EnvTyped' /\ MachineTyped' /\ NetworkTyped' /\ RequestsTyped'
      /\ StoreTyped' /\ AdmittedMatches' /\ LocalServiceIsExclusive'
  BY DEF LifecycleInv, ExitLock, network, requests, store, AuthorityTyped, EnvTyped,
     MachineTyped, NetworkTyped, RequestsTyped, StoreTyped, AdmittedMatches,
     LocalServiceIsExclusive, Converged
<1> QED BY <1>1, <1>2, <1>3, <1>4, <1>5, <1>6, <1>7, <1>8, <1>9 DEF LifecycleInv

\* The owner of the session gives it up for the transition.
LEMMA ExitGateInv ==
    ASSUME NEW t \in Tasks, LifecycleInv, ExitGate(t) PROVE LifecycleInv'
<1>1. AuthorityTyped'
  BY SettingMode DEF LifecycleInv, ExitGate, AuthorityTyped
<1>2. ControlTyped'
  BY DEF LifecycleInv, ExitGate, Goto, Leave, ControlTyped, Tasks, Labels, CliLabels
<1>3. NetworkTyped'
  BY DEF LifecycleInv, ExitGate, NetworkTyped, NetModes, Txns
<1>4. LocksTyped'
  BY DEF LifecycleInv, ExitGate, LocksTyped
<1>5. NetMutex'
  BY DEF LifecycleInv, ExitGate, Goto, Leave, NetMutex, ControlTyped, NetLabels, Tasks
<1>6. DispatchMutex'
  BY DEF LifecycleInv, ExitGate, Goto, Leave, requests, DispatchMutex, ControlTyped,
     Tasks
<1>7. AdmittedMatches'
  BY DEF LifecycleInv, ExitGate, DispatchFree, requests, AdmittedMatches, DispatchMutex,
     Sources
<1>8. GrantPoint'
  BY DEF LifecycleInv, ExitGate, Goto, Leave, DispatchFree, GrantPoint, ControlTyped,
     DispatchMutex, Tasks, Converged
<1>9. WifiPoint'
  BY DEF LifecycleInv, ExitGate, Goto, Leave, WifiPoint, ControlTyped, Tasks
<1>10. ErasePoint'
  BY DEF LifecycleInv, ExitGate, Goto, Leave, ErasePoint, ControlTyped, Tasks
<1>11. LocalServiceIsExclusive'
  BY DEF LifecycleInv, ExitGate, LocalServiceIsExclusive, Converged
<1>12. NoOrphanTransition'
  BY DEF LifecycleInv, ExitGate, Goto, Leave, NoOrphanTransition, ControlTyped
<1>13. EnvTyped' /\ MachineTyped' /\ RequestsTyped' /\ StoreTyped'
  BY DEF LifecycleInv, ExitGate, requests, store, EnvTyped, MachineTyped, RequestsTyped,
     StoreTyped
<1> QED BY <1>1, <1>2, <1>3, <1>4, <1>5, <1>6, <1>7, <1>8, <1>9, <1>10, <1>11, <1>12,
   <1>13 DEF LifecycleInv

\* The normal stop.
LEMMA ExitStopInv ==
    ASSUME NEW t \in Tasks, LifecycleInv, ExitStop(t) PROVE LifecycleInv'
<1>1. ControlTyped'
  BY DEF LifecycleInv, ExitStop, NormalStop, Goto, ControlTyped, Tasks, Labels,
     CliLabels
<1>2. MachineTyped'
  BY DEF LifecycleInv, ExitStop, NormalStop, Outcomes, MachineTyped, Machines,
     MachineStates
<1>3. NetMutex'
  BY DEF LifecycleInv, ExitStop, NormalStop, locks, Goto, NetMutex, ControlTyped,
     NetLabels
<1>4. DispatchMutex'
  BY DEF LifecycleInv, ExitStop, NormalStop, locks, requests, Goto, DispatchMutex,
     ControlTyped, Tasks
<1>5. GrantPoint'
  BY DEF LifecycleInv, ExitStop, NormalStop, network, Goto, Outcomes, GrantPoint,
     ControlTyped, Converged, Standstill
<1>6. WifiPoint'
  BY DEF LifecycleInv, ExitStop, NormalStop, Goto, WifiPoint, ControlTyped, Tasks
<1>7. ErasePoint'
  BY DEF LifecycleInv, ExitStop, NormalStop, network, requests, Goto, Outcomes,
     ErasePoint, ControlTyped, Tasks, Converged, Standstill
<1>8. NoOrphanTransition'
  BY DEF LifecycleInv, ExitStop, NormalStop, Goto, NoOrphanTransition, ControlTyped
<1>9. AuthorityTyped' /\ EnvTyped' /\ NetworkTyped' /\ RequestsTyped' /\ StoreTyped'
      /\ LocksTyped' /\ AdmittedMatches' /\ LocalServiceIsExclusive'
  BY DEF LifecycleInv, ExitStop, locks, network, requests, store, AuthorityTyped,
     EnvTyped, NetworkTyped, RequestsTyped, StoreTyped, LocksTyped, AdmittedMatches,
     LocalServiceIsExclusive, Converged
<1> QED BY <1>1, <1>2, <1>3, <1>4, <1>5, <1>6, <1>7, <1>8, <1>9 DEF LifecycleInv

\* Waiting for standstill.
LEMMA ExitVerifyInv ==
    ASSUME NEW t \in Tasks, LifecycleInv, ExitVerify(t) PROVE LifecycleInv'
<1>1. ControlTyped'
  BY DEF LifecycleInv, ExitVerify, Goto, ControlTyped, Labels, CliLabels
<1>2. NetMutex'
  BY DEF LifecycleInv, ExitVerify, Goto, locks, NetMutex, NetLabels
<1>3. DispatchMutex'
  BY DEF LifecycleInv, ExitVerify, Goto, locks, requests, DispatchMutex
<1>4. GrantPoint'
  BY DEF LifecycleInv, ExitVerify, Goto, network, GrantPoint, Converged, Standstill
<1>5. WifiPoint'
  BY DEF LifecycleInv, ExitVerify, Goto, WifiPoint
<1>6. ErasePoint'
  BY DEF LifecycleInv, ExitVerify, Goto, network, requests, ErasePoint, Converged,
     Standstill
<1>7. NoOrphanTransition'
  BY DEF ExitVerify, Goto, NoOrphanTransition
<1>8. AuthorityTyped' /\ EnvTyped' /\ MachineTyped' /\ NetworkTyped' /\ RequestsTyped'
      /\ StoreTyped' /\ LocksTyped' /\ AdmittedMatches' /\ LocalServiceIsExclusive'
  BY DEF LifecycleInv, ExitVerify, locks, network, requests, store, AuthorityTyped,
     EnvTyped, MachineTyped, NetworkTyped, RequestsTyped, StoreTyped, LocksTyped,
     AdmittedMatches, LocalServiceIsExclusive, Converged
<1> QED BY <1>1, <1>2, <1>3, <1>4, <1>5, <1>6, <1>7, <1>8 DEF LifecycleInv

\* The authority is revoked before the reboot.
LEMMA ExitRevokeInv ==
    ASSUME NEW t \in Tasks, LifecycleInv, ExitRevoke(t) PROVE LifecycleInv'
<1>1. AuthorityTyped'
  BY SettingMode DEF LifecycleInv, ExitRevoke, AuthorityTyped
<1>2. ControlTyped'
  BY DEF LifecycleInv, ExitRevoke, Goto, Leave, ControlTyped, Tasks, Labels, CliLabels
<1>3. NetworkTyped'
  BY DEF LifecycleInv, ExitRevoke, network, NetworkTyped, NetModes
<1>4. LocksTyped'
  BY DEF LifecycleInv, ExitRevoke, LocksTyped
<1>5. NetMutex'
  BY DEF LifecycleInv, ExitRevoke, Goto, Leave, NetMutex, ControlTyped, NetLabels, Tasks
<1>6. DispatchMutex'
  BY DEF LifecycleInv, ExitRevoke, Goto, Leave, requests, DispatchMutex, ControlTyped,
     Tasks
<1>7. AdmittedMatches'
  BY SettingMode DEF LifecycleInv, ExitRevoke, AdmittedMatches, AuthorityTyped
<1>8. GrantPoint'
  BY DEF LifecycleInv, ExitRevoke, Goto, Leave, DispatchFree, network, GrantPoint,
     ControlTyped, DispatchMutex, Tasks, Converged
<1>9. WifiPoint'
  BY SettingMode DEF LifecycleInv, ExitRevoke, WifiPoint, AuthorityTyped, Tasks
<1>10. ErasePoint'
  BY SettingMode DEF LifecycleInv, ExitRevoke, Goto, Leave, network, requests,
     ErasePoint, AuthorityTyped, ControlTyped, Tasks, Converged, Standstill
<1>11. LocalServiceIsExclusive'
  BY SettingMode DEF LifecycleInv, ExitRevoke, LocalServiceIsExclusive, AuthorityTyped
<1>12. NoOrphanTransition'
  BY SettingMode DEF LifecycleInv, ExitRevoke, NoOrphanTransition, AuthorityTyped
<1>13. EnvTyped' /\ MachineTyped' /\ RequestsTyped' /\ StoreTyped'
  BY DEF LifecycleInv, ExitRevoke, requests, store, EnvTyped, MachineTyped,
     RequestsTyped, StoreTyped
<1> QED BY <1>1, <1>2, <1>3, <1>4, <1>5, <1>6, <1>7, <1>8, <1>9, <1>10, <1>11, <1>12,
   <1>13 DEF LifecycleInv

\* A failed exit revokes.
LEMMA ExitFailInv ==
    ASSUME NEW t \in Tasks, LifecycleInv, ExitFail(t) PROVE LifecycleInv'
<1>1. AuthorityTyped'
  BY SettingMode DEF LifecycleInv, ExitFail, AuthorityTyped
<1>2. ControlTyped'
  BY DEF LifecycleInv, ExitFail, Leave, Goto, ControlTyped, Labels, CliLabels
<1>3. NetworkTyped'
  BY DEF LifecycleInv, ExitFail, network, NetworkTyped, NetModes
<1>4. LocksTyped'
  BY DEF LifecycleInv, ExitFail, LocksTyped
<1>5. NetMutex'
  BY DEF LifecycleInv, ExitFail, Leave, Goto, NetMutex, ControlTyped, NetLabels, Tasks
<1>6. DispatchMutex'
  BY DEF LifecycleInv, ExitFail, Leave, requests, Goto, DispatchMutex
<1>7. AdmittedMatches'
  BY SettingMode DEF LifecycleInv, ExitFail, AdmittedMatches, AuthorityTyped
<1>8. GrantPoint'
  BY DEF LifecycleInv, ExitFail, Leave, network, Goto, GrantPoint, Converged, Standstill
<1>9. WifiPoint'
  BY SettingMode DEF LifecycleInv, ExitFail, WifiPoint, AuthorityTyped
<1>10. ErasePoint'
  BY SettingMode DEF LifecycleInv, ExitFail, Leave, network, requests, Goto, ErasePoint,
     AuthorityTyped, Converged, Standstill
<1>11. LocalServiceIsExclusive'
  BY SettingMode DEF LifecycleInv, ExitFail, LocalServiceIsExclusive, AuthorityTyped
<1>12. NoOrphanTransition'
  BY SettingMode DEF LifecycleInv, ExitFail, NoOrphanTransition, AuthorityTyped
<1>13. EnvTyped' /\ MachineTyped' /\ RequestsTyped' /\ StoreTyped'
  BY DEF LifecycleInv, ExitFail, requests, store, EnvTyped, MachineTyped, RequestsTyped,
     StoreTyped
<1> QED BY <1>1, <1>2, <1>3, <1>4, <1>5, <1>6, <1>7, <1>8, <1>9, <1>10, <1>11, <1>12,
   <1>13 DEF LifecycleInv

---------------------------------------------------------------------------
(* Restart and factory reset.                                              *)

\* The restart revokes under dispatch.
LEMMA RestartGateInv ==
    ASSUME LifecycleInv, RestartGate PROVE LifecycleInv'
<1>1. AuthorityTyped'
  BY SettingMode DEF LifecycleInv, RestartGate, AuthorityTyped
<1>2. ControlTyped'
  BY DEF LifecycleInv, RestartGate, Goto, Leave, ControlTyped, Tasks, Labels
<1>3. NetMutex'
  BY DEF LifecycleInv, RestartGate, Goto, Leave, locks, NetMutex, ControlTyped,
     NetLabels
<1>4. DispatchMutex'
  BY DEF LifecycleInv, RestartGate, Goto, Leave, locks, requests, DispatchMutex,
     ControlTyped, Tasks
<1>5. AdmittedMatches'
  BY SettingMode DEF LifecycleInv, RestartGate, requests, AdmittedMatches,
     AuthorityTyped
<1>6. GrantPoint'
  BY DEF LifecycleInv, RestartGate, Goto, Leave, DispatchFree, network, GrantPoint,
     ControlTyped, DispatchMutex, Tasks, Converged
<1>7. WifiPoint'
  BY DEF LifecycleInv, RestartGate, Goto, Leave, WifiPoint, ControlTyped
<1>8. ErasePoint'
  BY DEF LifecycleInv, RestartGate, Goto, Leave, ErasePoint, ControlTyped, Tasks
<1>9. LocalServiceIsExclusive'
  BY SettingMode DEF LifecycleInv, RestartGate, network, LocalServiceIsExclusive,
     AuthorityTyped, Converged
<1>10. NoOrphanTransition'
  BY SettingMode DEF LifecycleInv, RestartGate, Goto, Leave, NoOrphanTransition,
     AuthorityTyped, ControlTyped
<1>11. EnvTyped' /\ MachineTyped' /\ NetworkTyped' /\ RequestsTyped' /\ StoreTyped'
      /\ LocksTyped'
  BY DEF LifecycleInv, RestartGate, locks, network, requests, store, EnvTyped,
     MachineTyped, NetworkTyped, RequestsTyped, StoreTyped, LocksTyped
<1> QED BY <1>1, <1>2, <1>3, <1>4, <1>5, <1>6, <1>7, <1>8, <1>9, <1>10, <1>11 DEF
   LifecycleInv

\* The server stops.
LEMMA RestartStopHttpInv ==
    ASSUME LifecycleInv, RestartStopHttp PROVE LifecycleInv'
<1>1. ControlTyped'
  BY DEF LifecycleInv, RestartStopHttp, Goto, Leave, ControlTyped, Tasks, Labels
<1>2. NetworkTyped'
  BY DEF LifecycleInv, RestartStopHttp, Goto, Leave, HandlersIdle, locks, network,
     requests, store, NoMemory, NetworkTyped, NetModes, Links, Txns
<1>3. NetMutex'
  BY DEF LifecycleInv, RestartStopHttp, Goto, Leave, locks, NetMutex, ControlTyped,
     NetLabels
<1>4. DispatchMutex'
  BY DEF LifecycleInv, RestartStopHttp, Goto, Leave, locks, requests, DispatchMutex,
     ControlTyped, Tasks
<1>5. GrantPoint'
  BY DEF LifecycleInv, RestartStopHttp, Goto, Leave, network, GrantPoint, ControlTyped,
     Converged, Standstill
<1>6. WifiPoint'
  BY DEF LifecycleInv, RestartStopHttp, Goto, Leave, WifiPoint, ControlTyped
<1>7. ErasePoint'
  BY DEF LifecycleInv, RestartStopHttp, Goto, Leave, ErasePoint, ControlTyped
<1>8. NoOrphanTransition'
  BY DEF LifecycleInv, RestartStopHttp, Goto, Leave, NoOrphanTransition, ControlTyped
<1>9. AuthorityTyped' /\ EnvTyped' /\ MachineTyped' /\ RequestsTyped' /\ StoreTyped'
      /\ LocksTyped' /\ AdmittedMatches' /\ LocalServiceIsExclusive'
  BY DEF LifecycleInv, RestartStopHttp, locks, network, requests, store, AuthorityTyped,
     EnvTyped, MachineTyped, RequestsTyped, StoreTyped, LocksTyped, AdmittedMatches,
     LocalServiceIsExclusive, Converged
<1> QED BY <1>1, <1>2, <1>3, <1>4, <1>5, <1>6, <1>7, <1>8, <1>9 DEF LifecycleInv

\* The last look before the reboot.
LEMMA RestartFinalInv ==
    ASSUME LifecycleInv, RestartFinal PROVE LifecycleInv'
<1>1. ControlTyped'
  BY DEF LifecycleInv, RestartFinal, Goto, Leave, ControlTyped, Tasks, Labels
<1>2. NetMutex'
  BY DEF LifecycleInv, RestartFinal, Goto, Leave, locks, NetMutex, ControlTyped,
     NetLabels
<1>3. DispatchMutex'
  BY DEF LifecycleInv, RestartFinal, Goto, Leave, locks, requests, DispatchMutex,
     ControlTyped, Tasks
<1>4. GrantPoint'
  BY DEF LifecycleInv, RestartFinal, Goto, Leave, network, GrantPoint, ControlTyped,
     Converged, Standstill
<1>5. WifiPoint'
  BY DEF LifecycleInv, RestartFinal, Goto, Leave, WifiPoint, ControlTyped
<1>6. ErasePoint'
  BY DEF LifecycleInv, RestartFinal, Goto, Leave, ErasePoint, ControlTyped
<1>7. NoOrphanTransition'
  BY DEF LifecycleInv, RestartFinal, Goto, Leave, NoOrphanTransition, ControlTyped
<1>8. AuthorityTyped' /\ EnvTyped' /\ MachineTyped' /\ NetworkTyped' /\ RequestsTyped'
      /\ StoreTyped' /\ LocksTyped' /\ AdmittedMatches' /\ LocalServiceIsExclusive'
  BY DEF LifecycleInv, RestartFinal, locks, network, requests, store, AuthorityTyped,
     EnvTyped, MachineTyped, NetworkTyped, RequestsTyped, StoreTyped, LocksTyped,
     AdmittedMatches, LocalServiceIsExclusive, Converged
<1> QED BY <1>1, <1>2, <1>3, <1>4, <1>5, <1>6, <1>7, <1>8 DEF LifecycleInv

\* The reset takes s_net_mutex.
LEMMA ResetLockInv ==
    ASSUME LifecycleInv, ResetLock PROVE LifecycleInv'
<1>1. ControlTyped'
  BY DEF LifecycleInv, ResetLock, Goto, ControlTyped, Tasks, Labels
<1>2. LocksTyped'
  BY DEF LifecycleInv, ResetLock, TakeNet, LocksTyped, Tasks
<1>3. NetMutex'
  BY DEF LifecycleInv, ResetLock, Goto, TakeNet, NetMutex, ControlTyped, NetLabels,
     Tasks
<1>4. DispatchMutex'
  BY DEF LifecycleInv, ResetLock, Goto, requests, DispatchMutex
<1>5. GrantPoint'
  BY DEF LifecycleInv, ResetLock, Goto, network, GrantPoint, Converged, Standstill
<1>6. WifiPoint'
  BY DEF ResetLock, Goto, WifiPoint
<1>7. ErasePoint'
  BY DEF ResetLock, Goto, ErasePoint
<1>8. NoOrphanTransition'
  BY DEF LifecycleInv, ResetLock, Goto, NoOrphanTransition
<1>9. AuthorityTyped' /\ EnvTyped' /\ MachineTyped' /\ NetworkTyped' /\ RequestsTyped'
      /\ StoreTyped' /\ AdmittedMatches' /\ LocalServiceIsExclusive'
  BY DEF LifecycleInv, ResetLock, network, requests, store, AuthorityTyped, EnvTyped,
     MachineTyped, NetworkTyped, RequestsTyped, StoreTyped, AdmittedMatches,
     LocalServiceIsExclusive, Converged
<1> QED BY <1>1, <1>2, <1>3, <1>4, <1>5, <1>6, <1>7, <1>8, <1>9 DEF LifecycleInv

\* It begins a transition of its own.
LEMMA ResetGateInv ==
    ASSUME LifecycleInv, ResetGate PROVE LifecycleInv'
<1>1. AuthorityTyped'
  BY SettingMode DEF LifecycleInv, ResetGate, AuthorityTyped
<1>2. ControlTyped'
  BY DEF LifecycleInv, ResetGate, Goto, Leave, ControlTyped, Tasks, Labels
<1>3. NetworkTyped'
  BY DEF LifecycleInv, ResetGate, network, NetworkTyped, NetModes
<1>4. RequestsTyped'
  BY DEF LifecycleInv, ResetGate, Goto, Leave, DispatchFree, ResetPolicyOK, network,
     store, NoMemory, Safe, ExitPolicyOK, AtRest, RequestsTyped
<1>5. LocksTyped'
  BY DEF LifecycleInv, ResetGate, LocksTyped
<1>6. NetMutex'
  BY DEF LifecycleInv, ResetGate, Goto, Leave, NetMutex, ControlTyped, NetLabels, Tasks
<1>7. DispatchMutex'
  BY DEF LifecycleInv, ResetGate, Goto, Leave, DispatchMutex, ControlTyped, Tasks
<1>8. AdmittedMatches'
  BY DEF LifecycleInv, ResetGate, DispatchFree, AdmittedMatches, DispatchMutex, Sources
<1>9. GrantPoint'
  BY DEF LifecycleInv, ResetGate, Goto, Leave, DispatchFree, network, GrantPoint,
     ControlTyped, DispatchMutex, Tasks, Converged
<1>10. WifiPoint'
  BY DEF LifecycleInv, ResetGate, Goto, Leave, WifiPoint, ControlTyped
<1>11. ErasePoint'
  BY DEF LifecycleInv, ResetGate, Goto, Leave, ErasePoint, ControlTyped, Tasks
<1>12. LocalServiceIsExclusive'
  BY DEF LifecycleInv, ResetGate, ResetPolicyOK, network, LocalServiceIsExclusive,
     Converged
<1>13. NoOrphanTransition'
  BY DEF LifecycleInv, ResetGate, Goto, Leave, NoOrphanTransition, ControlTyped, Tasks
<1>14. EnvTyped' /\ MachineTyped' /\ StoreTyped'
  BY DEF LifecycleInv, ResetGate, store, EnvTyped, MachineTyped, StoreTyped
<1> QED BY <1>1, <1>2, <1>3, <1>4, <1>5, <1>6, <1>7, <1>8, <1>9, <1>10, <1>11, <1>12,
   <1>13, <1>14 DEF LifecycleInv

\* The server stops without s_net_mutex.
LEMMA ResetStopHttpInv ==
    ASSUME LifecycleInv, ResetStopHttp PROVE LifecycleInv'
<1>1. ControlTyped'
  BY DEF LifecycleInv, ResetStopHttp, Goto, ControlTyped, Tasks, Labels
<1>2. NetworkTyped'
  BY DEF LifecycleInv, ResetStopHttp, network, NetworkTyped
<1>3. NetMutex'
  BY DEF LifecycleInv, ResetStopHttp, Goto, locks, NetMutex, NetLabels
<1>4. DispatchMutex'
  BY DEF LifecycleInv, ResetStopHttp, Goto, locks, requests, DispatchMutex
<1>5. GrantPoint'
  BY DEF LifecycleInv, ResetStopHttp, Goto, network, GrantPoint, Converged, Standstill
<1>6. WifiPoint'
  BY DEF ResetStopHttp, Goto, WifiPoint
<1>7. ErasePoint'
  BY DEF ResetStopHttp, Goto, ErasePoint
<1>8. NoOrphanTransition'
  BY DEF LifecycleInv, ResetStopHttp, Goto, NoOrphanTransition
<1>9. AuthorityTyped' /\ EnvTyped' /\ MachineTyped' /\ RequestsTyped' /\ StoreTyped'
      /\ LocksTyped' /\ AdmittedMatches' /\ LocalServiceIsExclusive'
  BY DEF LifecycleInv, ResetStopHttp, locks, network, requests, store, AuthorityTyped,
     EnvTyped, MachineTyped, RequestsTyped, StoreTyped, LocksTyped, AdmittedMatches,
     LocalServiceIsExclusive, Converged
<1> QED BY <1>1, <1>2, <1>3, <1>4, <1>5, <1>6, <1>7, <1>8, <1>9 DEF LifecycleInv

\* Everything is checked again before anything is erased.
LEMMA ResetCheckInv ==
    ASSUME LifecycleInv, ResetCheck PROVE LifecycleInv'
<1>1. AuthorityTyped'
  BY SettingMode DEF LifecycleInv, ResetCheck, AuthorityTyped
<1>2. ControlTyped'
  BY DEF LifecycleInv, ResetCheck, Goto, Leave, ControlTyped, Tasks, Labels
<1>3. RequestsTyped'
  BY DEF LifecycleInv, ResetCheck, Goto, Leave, DispatchFree, Safe, network, store,
     NoMemory, AtRest, RequestsTyped
<1>4. LocksTyped'
  BY DEF LifecycleInv, ResetCheck, LocksTyped
<1>5. NetMutex'
  BY DEF LifecycleInv, ResetCheck, Goto, Leave, NetMutex, ControlTyped, NetLabels, Tasks
<1>6. DispatchMutex'
  BY DEF LifecycleInv, ResetCheck, Goto, Leave, DispatchMutex, ControlTyped, Tasks
<1>7. AdmittedMatches'
  BY SettingMode DEF LifecycleInv, ResetCheck, AdmittedMatches, AuthorityTyped
<1>8. GrantPoint'
  BY DEF LifecycleInv, ResetCheck, Goto, Leave, DispatchFree, network, GrantPoint,
     ControlTyped, DispatchMutex, Tasks, Converged
<1>9. WifiPoint'
  BY SettingMode DEF LifecycleInv, ResetCheck, WifiPoint, AuthorityTyped
<1>10. ErasePoint'
  <2> SUFFICES ASSUME pc'["net"] \in {"reset_erase", "reset_reboot"}
               PROVE  /\ authority'.mode = "NONE" /\ Converged' /\ Standstill'
                      /\ netMode' \in {"SERVICE_TRANSITION", "NETWORK_FAULT"}
                      /\ pc'["cli"] \notin {"entry_commit", "exit_gate"}
                      /\ \A s \in Sources : ~env'[s].admitted
    BY DEF ErasePoint
  <2>1. /\ netMode = "SERVICE_TRANSITION" /\ Converged /\ Safe
        /\ pc'["cli"] = pc["cli"] /\ pc["net"] = "reset_check" /\ dispatchHolder = "none"
    BY DEF LifecycleInv, ResetCheck, Goto, Leave, ControlTyped, Tasks, DispatchFree
  <2>2. pc["cli"] \notin NetLabels
    BY <2>1 DEF LifecycleInv, NetMutex, NetLabels, Tasks
  <2>3. \A s \in Sources : ~env[s].admitted
    BY <2>1 DEF LifecycleInv, DispatchMutex, Sources
  <2>4. authority'.mode = "NONE"
    BY SettingMode DEF LifecycleInv, ResetCheck, AuthorityTyped
  <2> QED BY <2>1, <2>2, <2>3, <2>4 DEF ResetCheck, network, Converged, Standstill,
     Safe, AtRest, NetLabels
<1>11. LocalServiceIsExclusive'
  BY SettingMode DEF LifecycleInv, ResetCheck, LocalServiceIsExclusive, AuthorityTyped
<1>12. NoOrphanTransition'
  BY SettingMode DEF LifecycleInv, ResetCheck, NoOrphanTransition, AuthorityTyped
<1>13. EnvTyped' /\ MachineTyped' /\ NetworkTyped' /\ StoreTyped'
  BY DEF LifecycleInv, ResetCheck, network, store, EnvTyped, MachineTyped, NetworkTyped,
     StoreTyped
<1> QED BY <1>1, <1>2, <1>3, <1>4, <1>5, <1>6, <1>7, <1>8, <1>9, <1>10, <1>11, <1>12,
   <1>13 DEF LifecycleInv

\* The erase succeeds or fails.
LEMMA ResetEraseInv ==
    ASSUME LifecycleInv, ResetErase PROVE LifecycleInv'
<1>1. ControlTyped'
  BY DEF LifecycleInv, ResetErase, Goto, Leave, ControlTyped, Tasks, Labels
<1>2. RequestsTyped'
  BY DEF LifecycleInv, ResetErase, Goto, Leave, locks, network, store, NoMemory,
     RequestsTyped
<1>3. StoreTyped'
  BY DEF LifecycleInv, ResetErase, Goto, Leave, locks, network, store, NoMemory,
     StoreTyped
<1>4. NetMutex'
  BY DEF LifecycleInv, ResetErase, Goto, Leave, locks, NetMutex, ControlTyped, NetLabels
<1>5. DispatchMutex'
  BY DEF LifecycleInv, ResetErase, Goto, Leave, locks, DispatchMutex, ControlTyped,
     Tasks
<1>6. GrantPoint'
  BY DEF LifecycleInv, ResetErase, Goto, Leave, network, GrantPoint, ControlTyped,
     Converged, Standstill
<1>7. WifiPoint'
  BY DEF LifecycleInv, ResetErase, Goto, Leave, WifiPoint, ControlTyped
<1>8. ErasePoint'
  BY DEF LifecycleInv, ResetErase, Goto, Leave, network, ErasePoint, ControlTyped,
     Tasks, Converged, Standstill
<1>9. NoOrphanTransition'
  BY DEF LifecycleInv, ResetErase, Goto, Leave, NoOrphanTransition, ControlTyped
<1>10. AuthorityTyped' /\ EnvTyped' /\ MachineTyped' /\ NetworkTyped' /\ LocksTyped'
      /\ AdmittedMatches' /\ LocalServiceIsExclusive'
  BY DEF LifecycleInv, ResetErase, locks, network, AuthorityTyped, EnvTyped,
     MachineTyped, NetworkTyped, LocksTyped, AdmittedMatches, LocalServiceIsExclusive,
     Converged
<1> QED BY <1>1, <1>2, <1>3, <1>4, <1>5, <1>6, <1>7, <1>8, <1>9, <1>10 DEF LifecycleInv

---------------------------------------------------------------------------
(* Local recovery, station and Wi-Fi.                                      *)

\* Recovery withdraws the network mode.
LEMMA RecoveryBeginInv ==
    ASSUME LifecycleInv, RecoveryBegin PROVE LifecycleInv'
<1>1. ControlTyped'
  BY DEF LifecycleInv, RecoveryBegin, Goto, Leave, ControlTyped, Tasks, Labels
<1>2. NetworkTyped'
  BY DEF LifecycleInv, RecoveryBegin, NetworkTyped, NetModes, Txns
<1>3. NetMutex'
  BY DEF LifecycleInv, RecoveryBegin, Goto, Leave, locks, NetMutex, ControlTyped,
     NetLabels
<1>4. DispatchMutex'
  BY DEF LifecycleInv, RecoveryBegin, Goto, Leave, locks, requests, DispatchMutex,
     ControlTyped, Tasks
<1>5. GrantPoint'
  BY DEF LifecycleInv, RecoveryBegin, Goto, Leave, GrantPoint, ControlTyped, Converged,
     Standstill
<1>6. WifiPoint'
  BY DEF LifecycleInv, RecoveryBegin, Goto, Leave, WifiPoint, ControlTyped
<1>7. ErasePoint'
  BY DEF LifecycleInv, RecoveryBegin, Goto, Leave, ErasePoint, ControlTyped
<1>8. NoOrphanTransition'
  BY DEF LifecycleInv, RecoveryBegin, Goto, Leave, NoOrphanTransition, ControlTyped
<1>9. AuthorityTyped' /\ EnvTyped' /\ MachineTyped' /\ RequestsTyped' /\ StoreTyped'
      /\ LocksTyped' /\ AdmittedMatches' /\ LocalServiceIsExclusive'
  BY DEF LifecycleInv, RecoveryBegin, locks, requests, store, AuthorityTyped, EnvTyped,
     MachineTyped, RequestsTyped, StoreTyped, LocksTyped, AdmittedMatches,
     LocalServiceIsExclusive, Converged
<1> QED BY <1>1, <1>2, <1>3, <1>4, <1>5, <1>6, <1>7, <1>8, <1>9 DEF LifecycleInv

\* Broker and station go down without s_net_mutex.
LEMMA RecoveryNetworkInv ==
    ASSUME LifecycleInv, RecoveryNetwork PROVE LifecycleInv'
<1>1. ControlTyped'
  BY DEF LifecycleInv, RecoveryNetwork, Goto, ControlTyped, Tasks, Labels
<1>2. NetworkTyped'
  BY DEF LifecycleInv, RecoveryNetwork, Goto, locks, requests, store, NetworkTyped,
     NetModes, Links, Txns
<1>3. NetMutex'
  BY DEF LifecycleInv, RecoveryNetwork, Goto, locks, NetMutex, ControlTyped, NetLabels
<1>4. DispatchMutex'
  BY DEF LifecycleInv, RecoveryNetwork, Goto, locks, requests, DispatchMutex,
     ControlTyped, Tasks
<1>5. GrantPoint'
  BY DEF LifecycleInv, RecoveryNetwork, Goto, GrantPoint, ControlTyped, Converged,
     Standstill
<1>6. WifiPoint'
  BY DEF LifecycleInv, RecoveryNetwork, Goto, WifiPoint, ControlTyped
<1>7. ErasePoint'
  BY DEF LifecycleInv, RecoveryNetwork, Goto, ErasePoint, ControlTyped
<1>8. LocalServiceIsExclusive'
  BY DEF LifecycleInv, RecoveryNetwork, LocalServiceIsExclusive, Converged
<1>9. NoOrphanTransition'
  BY DEF LifecycleInv, RecoveryNetwork, Goto, NoOrphanTransition, ControlTyped
<1>10. AuthorityTyped' /\ EnvTyped' /\ MachineTyped' /\ RequestsTyped' /\ StoreTyped'
      /\ LocksTyped' /\ AdmittedMatches'
  BY DEF LifecycleInv, RecoveryNetwork, locks, requests, store, AuthorityTyped,
     EnvTyped, MachineTyped, RequestsTyped, StoreTyped, LocksTyped, AdmittedMatches
<1> QED BY <1>1, <1>2, <1>3, <1>4, <1>5, <1>6, <1>7, <1>8, <1>9, <1>10 DEF LifecycleInv

\* Recovery is over.
LEMMA RecoveryEndInv ==
    ASSUME LifecycleInv, RecoveryEnd PROVE LifecycleInv'
<1>1. ControlTyped'
  BY DEF LifecycleInv, RecoveryEnd, Leave, Goto, ControlTyped, Tasks, Labels
<1>2. NetworkTyped'
  BY DEF LifecycleInv, RecoveryEnd, network, NetworkTyped, NetModes
<1>3. NetMutex'
  BY DEF LifecycleInv, RecoveryEnd, Leave, locks, Goto, NetMutex, NetLabels
<1>4. DispatchMutex'
  BY DEF LifecycleInv, RecoveryEnd, Leave, locks, requests, Goto, DispatchMutex
<1>5. GrantPoint'
  BY DEF LifecycleInv, RecoveryEnd, Leave, network, Goto, GrantPoint, Converged,
     Standstill
<1>6. WifiPoint'
  BY DEF RecoveryEnd, Leave, Goto, WifiPoint
<1>7. ErasePoint'
  BY DEF RecoveryEnd, Leave, Goto, ErasePoint
<1>8. NoOrphanTransition'
  BY DEF LifecycleInv, RecoveryEnd, Leave, Goto, NoOrphanTransition
<1>9. AuthorityTyped' /\ EnvTyped' /\ MachineTyped' /\ RequestsTyped' /\ StoreTyped'
      /\ LocksTyped' /\ AdmittedMatches' /\ LocalServiceIsExclusive'
  BY DEF LifecycleInv, RecoveryEnd, locks, network, requests, store, AuthorityTyped,
     EnvTyped, MachineTyped, RequestsTyped, StoreTyped, LocksTyped, AdmittedMatches,
     LocalServiceIsExclusive, Converged
<1> QED BY <1>1, <1>2, <1>3, <1>4, <1>5, <1>6, <1>7, <1>8, <1>9 DEF LifecycleInv

\* A connected station starts the broker, and supervision with it.
LEMMA StaConnectedInv ==
    ASSUME LifecycleInv, StaConnected PROVE LifecycleInv'
<1>1. AuthorityTyped'
  BY SettingMode, Granting DEF LifecycleInv, StaConnected, Leave, NetFree, Operational,
     locks, requests, store, Goto, NoMemory, AuthorityTyped
<1>2. ControlTyped'
  BY DEF LifecycleInv, StaConnected, Leave, Goto, ControlTyped, Tasks, Labels
<1>3. NetworkTyped'
  BY DEF LifecycleInv, StaConnected, Leave, NetFree, Operational, locks, requests,
     store, Goto, NoMemory, NetworkTyped, NetModes, Links, Txns
<1>4. NetMutex'
  BY DEF LifecycleInv, StaConnected, Leave, locks, Goto, NetMutex, NetLabels
<1>5. DispatchMutex'
  BY DEF LifecycleInv, StaConnected, Leave, locks, requests, Goto, DispatchMutex
<1>6. AdmittedMatches'
  <2>1. authority' = authority \/ authority'.mode = "SUPERVISORY"
    <3>1. authority' = authority \/ authority' = SetMode(authority, "SUPERVISORY", "MQTT")
      BY DEF StaConnected
    <3> QED BY <3>1, SettingMode DEF LifecycleInv, AuthorityTyped
  <2> QED BY <2>1 DEF LifecycleInv, StaConnected, requests, AdmittedMatches
<1>7. GrantPoint'
  BY DEF LifecycleInv, StaConnected, Leave, NetFree, Goto, GrantPoint, NetMutex, Tasks,
     NetLabels
<1>8. WifiPoint'
  BY DEF StaConnected, Leave, Goto, WifiPoint
<1>9. ErasePoint'
  BY DEF StaConnected, Leave, Goto, ErasePoint
<1>10. LocalServiceIsExclusive'
  BY SettingMode, Granting DEF LifecycleInv, StaConnected, Leave, NetFree, Operational,
     locks, requests, store, Goto, NoMemory, LocalServiceIsExclusive, AuthorityTyped,
     NetworkTyped, Converged, Tasks, GrantPoint, WifiPoint
<1>11. NoOrphanTransition'
  BY SettingMode, Granting DEF LifecycleInv, StaConnected, Leave, NetFree, Operational,
     locks, requests, store, Goto, NoMemory, NoOrphanTransition, AuthorityTyped,
     ControlTyped, Tasks
<1>12. EnvTyped' /\ MachineTyped' /\ RequestsTyped' /\ StoreTyped' /\ LocksTyped'
  BY DEF LifecycleInv, StaConnected, locks, requests, store, EnvTyped, MachineTyped,
     RequestsTyped, StoreTyped, LocksTyped
<1> QED BY <1>1, <1>2, <1>3, <1>4, <1>5, <1>6, <1>7, <1>8, <1>9, <1>10, <1>11, <1>12 DEF
   LifecycleInv

\* A lost station.
LEMMA StaDisconnectedInv ==
    ASSUME LifecycleInv, StaDisconnected PROVE LifecycleInv'
<1>1. ControlTyped'
  BY DEF LifecycleInv, StaDisconnected, Leave, Goto, ControlTyped, Tasks, Labels
<1>2. NetworkTyped'
  BY DEF LifecycleInv, StaDisconnected, NetworkTyped, Links, Txns
<1>3. NetMutex'
  BY DEF LifecycleInv, StaDisconnected, Leave, locks, Goto, NetMutex, NetLabels
<1>4. DispatchMutex'
  BY DEF LifecycleInv, StaDisconnected, Leave, locks, requests, Goto, DispatchMutex
<1>5. GrantPoint'
  BY DEF LifecycleInv, StaDisconnected, Leave, Goto, GrantPoint, Converged, Standstill
<1>6. WifiPoint'
  BY DEF StaDisconnected, Leave, Goto, WifiPoint
<1>7. ErasePoint'
  BY DEF StaDisconnected, Leave, Goto, ErasePoint
<1>8. LocalServiceIsExclusive'
  BY DEF LifecycleInv, StaDisconnected, LocalServiceIsExclusive, Converged
<1>9. NoOrphanTransition'
  BY DEF LifecycleInv, StaDisconnected, Leave, Goto, NoOrphanTransition
<1>10. AuthorityTyped' /\ EnvTyped' /\ MachineTyped' /\ RequestsTyped' /\ StoreTyped'
      /\ LocksTyped' /\ AdmittedMatches'
  BY DEF LifecycleInv, StaDisconnected, locks, requests, store, AuthorityTyped,
     EnvTyped, MachineTyped, RequestsTyped, StoreTyped, LocksTyped, AdmittedMatches
<1> QED BY <1>1, <1>2, <1>3, <1>4, <1>5, <1>6, <1>7, <1>8, <1>9, <1>10 DEF LifecycleInv

\* A Wi-Fi apply revokes without s_dispatch_mutex.
LEMMA WifiRevokeInv ==
    ASSUME LifecycleInv, WifiRevoke PROVE LifecycleInv'
<1>1. AuthorityTyped'
  BY SettingMode DEF LifecycleInv, WifiRevoke, AuthorityTyped
<1>2. ControlTyped'
  BY DEF LifecycleInv, WifiRevoke, Goto, Leave, ControlTyped, Tasks, Labels
<1>3. NetworkTyped'
  BY DEF LifecycleInv, WifiRevoke, NetworkTyped, Txns
<1>4. LocksTyped'
  BY DEF LifecycleInv, WifiRevoke, LocksTyped, Tasks
<1>5. NetMutex'
  BY DEF LifecycleInv, WifiRevoke, Goto, Leave, NetFree, NetMutex, ControlTyped,
     NetLabels, Tasks
<1>6. DispatchMutex'
  BY DEF LifecycleInv, WifiRevoke, Goto, Leave, requests, DispatchMutex, ControlTyped,
     Tasks
<1>7. AdmittedMatches'
  BY SettingMode DEF LifecycleInv, WifiRevoke, requests, AdmittedMatches, AuthorityTyped
<1>8. GrantPoint'
  BY DEF LifecycleInv, WifiRevoke, Goto, Leave, GrantPoint, ControlTyped, Converged,
     Standstill
<1>9. WifiPoint'
  BY SettingMode DEF LifecycleInv, WifiRevoke, Goto, Leave, NoMemory, WifiPoint,
     AuthorityTyped, ControlTyped
<1>10. ErasePoint'
  BY DEF LifecycleInv, WifiRevoke, Goto, Leave, ErasePoint, ControlTyped, Tasks
<1>11. LocalServiceIsExclusive'
  BY SettingMode DEF LifecycleInv, WifiRevoke, LocalServiceIsExclusive, AuthorityTyped,
     Converged
<1>12. NoOrphanTransition'
  BY SettingMode DEF LifecycleInv, WifiRevoke, Goto, Leave, NoOrphanTransition,
     AuthorityTyped, ControlTyped
<1>13. EnvTyped' /\ MachineTyped' /\ RequestsTyped' /\ StoreTyped'
  BY DEF LifecycleInv, WifiRevoke, requests, store, EnvTyped, MachineTyped,
     RequestsTyped, StoreTyped
<1> QED BY <1>1, <1>2, <1>3, <1>4, <1>5, <1>6, <1>7, <1>8, <1>9, <1>10, <1>11, <1>12,
   <1>13 DEF LifecycleInv

\* The apply connects.
LEMMA WifiConnectInv ==
    ASSUME LifecycleInv, WifiConnect PROVE LifecycleInv'
<1>1. ControlTyped'
  BY DEF LifecycleInv, WifiConnect, Leave, Goto, ControlTyped, Tasks, Labels
<1>2. NetworkTyped'
  BY DEF LifecycleInv, WifiConnect, Leave, requests, store, Goto, NoMemory,
     NetworkTyped, NetModes, Links, Txns
<1>3. LocksTyped'
  BY DEF LifecycleInv, WifiConnect, LocksTyped
<1>4. NetMutex'
  BY DEF LifecycleInv, WifiConnect, Leave, Goto, NetMutex, ControlTyped, NetLabels,
     Tasks
<1>5. DispatchMutex'
  BY DEF LifecycleInv, WifiConnect, Leave, requests, Goto, DispatchMutex
<1>6. GrantPoint'
  BY DEF LifecycleInv, WifiConnect, Leave, Goto, GrantPoint, NetMutex, Tasks, NetLabels
<1>7. WifiPoint'
  BY DEF LifecycleInv, WifiConnect, WifiPoint
<1>8. ErasePoint'
  BY DEF WifiConnect, Leave, Goto, ErasePoint
<1>9. LocalServiceIsExclusive'
  BY DEF LifecycleInv, WifiConnect, LocalServiceIsExclusive, WifiPoint
<1>10. NoOrphanTransition'
  BY DEF LifecycleInv, WifiConnect, Leave, Goto, NoOrphanTransition
<1>11. AuthorityTyped' /\ EnvTyped' /\ MachineTyped' /\ RequestsTyped' /\ StoreTyped'
      /\ AdmittedMatches'
  BY DEF LifecycleInv, WifiConnect, requests, store, AuthorityTyped, EnvTyped,
     MachineTyped, RequestsTyped, StoreTyped, AdmittedMatches
<1> QED BY <1>1, <1>2, <1>3, <1>4, <1>5, <1>6, <1>7, <1>8, <1>9, <1>10, <1>11 DEF
   LifecycleInv

---------------------------------------------------------------------------
(* The whole specification.                                                *)

\* A reboot.
LEMMA RebootInv ==
    ASSUME LifecycleInv, Reboot PROVE LifecycleInv'
<1> PICK b \in Boots(commissioned, recovery) :
      authority' = b.authority /\ netMode' = b.mode /\ broker' = b.broker /\ link' = b.link
  BY DEF Reboot
<1>a. /\ b.authority \in AuthorityType /\ ValidPair(b.authority.mode, b.authority.owner)
      /\ b.authority.mode \in {"NONE", "SUPERVISORY"}
      /\ b.mode \in NetModes /\ b.link \in Links /\ b.broker \in BOOLEAN
  BY Booting DEF LifecycleInv, StoreTyped
<1>1. AuthorityTyped'
  BY <1>a DEF AuthorityTyped
<1>2. ControlTyped'
  BY DEF Reboot, ControlTyped, Tasks, Labels, CliLabels
<1>3. EnvTyped'
  BY DEF Reboot, EnvTyped
<1>4. MachineTyped'
  BY DEF Reboot, MachineTyped, Machines, MachineStates
<1>5. NetworkTyped'
  BY <1>a DEF Reboot, NetworkTyped, Txns
<1>6. RequestsTyped'
  <2>1. <<>> \in Seq(Events) /\ Len(<<>>) = 0 /\ 0 <= QueueLength
    BY LifecycleAssumption
  <2> QED BY <2>1 DEF Reboot, RequestsTyped
<1>7. LocksTyped'
  BY DEF Reboot, LocksTyped
<1>8. NetMutex'
  BY DEF Reboot, NetMutex, NetLabels, Tasks
<1>9. DispatchMutex'
  BY DEF Reboot, DispatchMutex, Tasks, NoEnv
<1>10. AdmittedMatches'
  BY DEF Reboot, AdmittedMatches, NoEnv
<1>11. GrantPoint'
  BY DEF Reboot, GrantPoint
<1>12. WifiPoint'
  BY DEF Reboot, WifiPoint, Tasks
<1>13. ErasePoint'
  BY DEF Reboot, ErasePoint, Tasks
<1>14. LocalServiceIsExclusive'
  BY <1>a DEF LocalServiceIsExclusive
<1>15. NoOrphanTransition'
  BY <1>a DEF NoOrphanTransition
<1>16. StoreTyped'
  BY DEF LifecycleInv, Reboot, store, StoreTyped
<1> QED BY <1>1, <1>2, <1>3, <1>4, <1>5, <1>6, <1>7, <1>8, <1>9, <1>10, <1>11, <1>12,
   <1>13, <1>14, <1>15, <1>16 DEF LifecycleInv

\* What a step other than the one named never does: give local control, set a
\* machine in motion, lose the configuration.
Restrained ==
    /\ authority'.mode = "LOCAL_SERVICE" =>
         authority' = authority \/ \E t \in Tasks : EntryGrant(t)
    /\ machine'.state = "MOVING" =>
         machine.state = "MOVING" \/ \E s \in Sources : Execute(s)
    /\ commissioned /\ ~commissioned' => pc["net"] = "reset_erase"

\* Every step is restrained.
LEMMA NextRestrained == LifecycleInv /\ Next => Restrained
<1> SUFFICES ASSUME LifecycleInv, Next PROVE Restrained
  OBVIOUS
<1> AuthorityTyped /\ MachineTyped
  BY DEF LifecycleInv
<1>1. CASE Estop
  BY <1>1 DEF Restrained, Estop, MachineStep, store
<1>2. CASE StopDone
  BY <1>2 DEF Restrained, StopDone, MachineStep, store
<1>3. CASE MachineFault
  BY <1>3 DEF Restrained, MachineFault, MachineStep, store
<1>4. CASE HttpRequest
  BY <1>4 DEF Restrained, HttpRequest, store
<1>5. CASE RequestRecovery
  BY <1>5 DEF Restrained, RequestRecovery
<1>6. CASE LinkUp
  BY <1>6 DEF Restrained, LinkUp, store
<1>7. CASE LinkDown
  BY <1>7 DEF Restrained, LinkDown, store
<1>8. CASE LinkRetry
  BY <1>8 DEF Restrained, LinkRetry, store
<1>9. CASE ConsoleRequest
  BY <1>9 DEF Restrained, ConsoleRequest, store
<1>10. ASSUME NEW s \in Sources, BuildEnvelope(s) PROVE Restrained
  BY <1>10 DEF Restrained, BuildEnvelope, store
<1>11. ASSUME NEW s \in Sources, Admit(s) PROVE Restrained
  BY <1>11 DEF Restrained, Admit, store
<1>12. ASSUME NEW s \in Sources, Execute(s) PROVE Restrained
  BY <1>12 DEF Restrained, Execute, network, store
<1>13. CASE ServeRequest
  BY <1>13 DEF Restrained, ServeRequest
<1>14. CASE NextEvent
  BY <1>14 DEF Restrained, NextEvent, store
<1>15. ASSUME NEW t \in Tasks, EntryPolicy(t) PROVE Restrained
  BY <1>15 DEF Restrained, EntryPolicy, store
<1>16. ASSUME NEW t \in Tasks, EntryCommit(t) PROVE Restrained
  BY <1>16, SettingMode DEF Restrained, EntryCommit, store, AuthorityTyped
<1>17. ASSUME NEW t \in Tasks, EntryStopHttp(t) PROVE Restrained
  BY <1>17 DEF Restrained, EntryStopHttp, store
<1>18. ASSUME NEW t \in Tasks, EntryStop(t) PROVE Restrained
  BY <1>18, StopOutcomes DEF Restrained, EntryStop, store, NormalStop, MachineTyped
<1>19. ASSUME NEW t \in Tasks, EntryVerify(t) PROVE Restrained
  BY <1>19 DEF Restrained, EntryVerify, store
<1>20. ASSUME NEW t \in Tasks, EntryNetwork(t) PROVE Restrained
  BY <1>20 DEF Restrained, EntryNetwork, store
<1>21. ASSUME NEW t \in Tasks, EntrySafe(t) PROVE Restrained
  BY <1>21 DEF Restrained, EntrySafe, store
<1>22. ASSUME NEW t \in Tasks, EntryGate(t) PROVE Restrained
  BY <1>22 DEF Restrained, EntryGate, store
<1>23. ASSUME NEW t \in Tasks, EntryGrant(t) PROVE Restrained
  BY <1>23 DEF Restrained, EntryGrant, store
<1>24. ASSUME NEW t \in Tasks, EntryAbort(t) PROVE Restrained
  BY <1>24, SettingMode DEF Restrained, EntryAbort, store, AuthorityTyped
<1>25. ASSUME NEW t \in Tasks, EntryStartHttp(t) PROVE Restrained
  BY <1>25 DEF Restrained, EntryStartHttp, store
<1>26. ASSUME NEW t \in Tasks, ExitLock(t) PROVE Restrained
  BY <1>26 DEF Restrained, ExitLock, store
<1>27. ASSUME NEW t \in Tasks, ExitGate(t) PROVE Restrained
  BY <1>27, SettingMode DEF Restrained, ExitGate, store, AuthorityTyped
<1>28. ASSUME NEW t \in Tasks, ExitStop(t) PROVE Restrained
  BY <1>28, StopOutcomes DEF Restrained, ExitStop, store, NormalStop, MachineTyped
<1>29. ASSUME NEW t \in Tasks, ExitVerify(t) PROVE Restrained
  BY <1>29 DEF Restrained, ExitVerify, store
<1>30. ASSUME NEW t \in Tasks, ExitRevoke(t) PROVE Restrained
  BY <1>30, SettingMode DEF Restrained, ExitRevoke, store, AuthorityTyped
<1>31. ASSUME NEW t \in Tasks, ExitFail(t) PROVE Restrained
  BY <1>31, SettingMode DEF Restrained, ExitFail, store, AuthorityTyped
<1>32. CASE RestartGate
  BY <1>32, SettingMode DEF Restrained, RestartGate, store, AuthorityTyped
<1>33. CASE RestartStopHttp
  BY <1>33 DEF Restrained, RestartStopHttp, store
<1>34. CASE RestartFinal
  BY <1>34 DEF Restrained, RestartFinal, store
<1>35. CASE ResetLock
  BY <1>35 DEF Restrained, ResetLock, store
<1>36. CASE ResetGate
  BY <1>36, SettingMode DEF Restrained, ResetGate, store, AuthorityTyped
<1>37. CASE ResetStopHttp
  BY <1>37 DEF Restrained, ResetStopHttp, store
<1>38. CASE ResetCheck
  BY <1>38, SettingMode DEF Restrained, ResetCheck, store, AuthorityTyped
<1>39. CASE ResetErase
  BY <1>39 DEF Restrained, ResetErase
<1>40. CASE RecoveryBegin
  BY <1>40 DEF Restrained, RecoveryBegin, store
<1>41. CASE RecoveryNetwork
  BY <1>41 DEF Restrained, RecoveryNetwork, store
<1>42. CASE RecoveryEnd
  BY <1>42 DEF Restrained, RecoveryEnd, store
<1>43. CASE StaConnected
  BY <1>43, SettingMode DEF Restrained, StaConnected, locks, requests, store,
     AuthorityTyped
<1>44. CASE StaDisconnected
  BY <1>44 DEF Restrained, StaDisconnected, store
<1>45. CASE WifiRevoke
  BY <1>45, SettingMode DEF Restrained, WifiRevoke, store, AuthorityTyped
<1>46. CASE WifiConnect
  BY <1>46 DEF Restrained, WifiConnect, store
<1>47. CASE Reboot
  BY <1>47, Booting DEF Restrained, Reboot, store, LifecycleInv, StoreTyped
<1> QED
  BY <1>1, <1>2, <1>3, <1>4, <1>5, <1>6, <1>7, <1>8, <1>9, <1>10, <1>11, <1>12, <1>13,
     <1>14, <1>15, <1>16, <1>17, <1>18, <1>19, <1>20, <1>21, <1>22, <1>23, <1>24, <1>25,
     <1>26, <1>27, <1>28, <1>29, <1>30, <1>31, <1>32, <1>33, <1>34, <1>35, <1>36, <1>37,
     <1>38, <1>39, <1>40, <1>41, <1>42, <1>43, <1>44, <1>45, <1>46, <1>47,
     LifecycleAssumption DEF Next, Environment, NetStep, ServiceStep

\* The boot establishes the invariant.
LEMMA InitInv == Init => LifecycleInv
<1> SUFFICES ASSUME Init PROVE LifecycleInv
  OBVIOUS
<1> PICK b \in Boots(Commissioned, FALSE) :
      authority = b.authority /\ netMode = b.mode /\ broker = b.broker /\ link = b.link
  BY DEF Init
<1>1. /\ b.authority \in AuthorityType /\ ValidPair(b.authority.mode, b.authority.owner)
      /\ b.authority.mode \in {"NONE", "SUPERVISORY"}
      /\ b.mode \in NetModes /\ b.link \in Links /\ b.broker \in BOOLEAN
  <2>1. PICK off \in BOOLEAN : off = FALSE
    OBVIOUS
  <2>2. b \in Boots(Commissioned, off)
    BY <2>1
  <2> QED BY <2>2, Booting, LifecycleAssumption
<1>2. AuthorityTyped /\ NetworkTyped /\ LocalServiceIsExclusive /\ NoOrphanTransition
  BY <1>1 DEF Init, AuthorityTyped, NetworkTyped, Txns, LocalServiceIsExclusive,
     NoOrphanTransition
<1>3. ControlTyped /\ EnvTyped /\ StoreTyped /\ LocksTyped
  BY LifecycleAssumption DEF Init, ControlTyped, Labels, CliLabels, Tasks, EnvTyped,
     StoreTyped, LocksTyped
<1>4. MachineTyped
  BY DEF Init, MachineTyped, Machines, MachineStates
<1>5. RequestsTyped
  <2>1. <<>> \in Seq(Events) /\ Len(<<>>) = 0 /\ 0 <= QueueLength
    BY LifecycleAssumption
  <2> QED BY <2>1 DEF Init, RequestsTyped
<1>6. NetMutex /\ DispatchMutex /\ AdmittedMatches
  BY DEF Init, NetMutex, NetLabels, DispatchMutex, AdmittedMatches, Tasks, NoEnv
<1>7. GrantPoint /\ WifiPoint /\ ErasePoint
  BY DEF Init, GrantPoint, WifiPoint, ErasePoint, Tasks
<1> QED BY <1>2, <1>3, <1>4, <1>5, <1>6, <1>7 DEF LifecycleInv

\* Every step keeps it.
LEMMA StepInv == LifecycleInv /\ [Next]_vars => LifecycleInv'
<1> SUFFICES ASSUME LifecycleInv, [Next]_vars PROVE LifecycleInv'
  OBVIOUS
<1>1. CASE Environment
  BY <1>1, LifecycleAssumption, EstopInv, StopDoneInv, MachineFaultInv, HttpRequestInv,
     RequestRecoveryInv, LinkUpInv, LinkDownInv, LinkRetryInv, ConsoleRequestInv,
     BuildEnvelopeInv DEF Environment
<1>2. CASE \E s \in Sources : Admit(s) \/ Execute(s)
  BY <1>2, AdmitInv, ExecuteInv
<1>3. CASE ServeRequest \/ NextEvent \/ Reboot
  BY <1>3, ServeRequestInv, NextEventInv, RebootInv
<1>4. CASE NetStep
  BY <1>4, RestartGateInv, RestartStopHttpInv, RestartFinalInv, ResetLockInv,
     ResetGateInv, ResetStopHttpInv, ResetCheckInv, ResetEraseInv, RecoveryBeginInv,
     RecoveryNetworkInv, RecoveryEndInv, StaConnectedInv, StaDisconnectedInv,
     WifiRevokeInv, WifiConnectInv DEF NetStep
<1>5. ASSUME NEW t \in Tasks, ServiceStep(t) PROVE LifecycleInv'
  BY <1>5, EntryPolicyInv, EntryCommitInv, EntryStopHttpInv, EntryStopInv,
     EntryVerifyInv, EntryNetworkInv, EntrySafeInv, EntryGateInv, EntryGrantInv,
     EntryAbortInv, EntryStartHttpInv, ExitLockInv, ExitGateInv, ExitStopInv,
     ExitVerifyInv, ExitRevokeInv, ExitFailInv DEF ServiceStep
<1>6. CASE UNCHANGED vars
  BY <1>6 DEF vars, LifecycleInv, AuthorityTyped, ControlTyped, EnvTyped, MachineTyped,
     NetworkTyped, RequestsTyped, StoreTyped, LocksTyped, NetMutex, DispatchMutex,
     AdmittedMatches, GrantPoint, WifiPoint, ErasePoint, Converged, Standstill,
     LocalServiceIsExclusive, NoOrphanTransition
<1> QED BY <1>1, <1>2, <1>3, <1>4, <1>5, <1>6 DEF Next

---------------------------------------------------------------------------
(* The theorems.                                                           *)

\* The invariant holds in every reachable state of the lifecycle operations of
\* argus_net_mgr.c, argus_service_policy.c, argus_restart_mgr.c and
\* argus_factory_reset.c.
THEOREM LifecycleInvHolds == Spec => []LifecycleInv
  BY InitInv, StepInv, PTL DEF Spec

\* Types of the variables, with the authority's mode and owner.
THEOREM TypesHold == Spec => []TypeOK
<1>1. LifecycleInv => TypeOK
  <2> SUFFICES ASSUME LifecycleInv PROVE TypeOK
    OBVIOUS
  <2>1. {broker, http, resetPending, commissioned, recovery} \subseteq BOOLEAN
    BY DEF LifecycleInv, NetworkTyped, RequestsTyped, StoreTyped
  <2>2. \A t \in Tasks : pc[t] \in Labels
    BY DEF LifecycleInv, ControlTyped
  <2> QED BY <2>1, <2>2 DEF LifecycleInv, TypeOK, AuthorityTyped, MachineTyped,
     Machines, NetworkTyped, RequestsTyped, LocksTyped, Links, Txns
<1> QED BY <1>1, LifecycleInvHolds, PTL

\* SERVICE_TRANSITION is never left behind: a task is always on its way to grant
\* or to revoke it, although two of them may overlap while s_net_mutex is free.
THEOREM TransitionsHaveAnOwner == Spec => []NoOrphanTransition
<1>1. LifecycleInv => NoOrphanTransition
  BY DEF LifecycleInv
<1> QED BY <1>1, LifecycleInvHolds, PTL

\* With local control granted the station is gone and the broker is off, so no
\* supervisor can reach the machine.
THEOREM LocalServiceExclusive == Spec => []LocalServiceIsExclusive
<1>1. LifecycleInv => LocalServiceIsExclusive
  BY DEF LifecycleInv
<1> QED BY <1>1, LifecycleInvHolds, PTL

\* s_net_mutex and s_dispatch_mutex are held exactly by the task or source whose
\* place in the code says so: none is leaked on an error path or taken twice.
THEOREM MutexesOwned == Spec => [](NetMutex /\ DispatchMutex)
<1>1. LifecycleInv => NetMutex /\ DispatchMutex
  BY DEF LifecycleInv
<1> QED BY <1>1, LifecycleInvHolds, PTL

\* argus_authority_grant_local_service never hands over a driven machine.
THEOREM GrantsOverARestingMachine == Spec => LocalGrantAtRest
<1> DEFINE A == authority.mode # "LOCAL_SERVICE" /\ authority'.mode = "LOCAL_SERVICE"
                  => ~Driven
<1>1. LifecycleInv /\ [Next]_vars => [A]_vars
  <2> SUFFICES ASSUME LifecycleInv, Next,
                      authority.mode # "LOCAL_SERVICE", authority'.mode = "LOCAL_SERVICE"
               PROVE  ~Driven
    OBVIOUS
  <2>1. PICK t \in Tasks : EntryGrant(t)
    BY NextRestrained DEF Restrained
  <2> QED BY <2>1 DEF EntryGrant, LifecycleInv, GrantPoint, Standstill, Driven
<1> QED BY <1>1, LifecycleInvHolds, PTL DEF Spec, LocalGrantAtRest

\* No motion begins during a transition and, in local service, only by a command
\* of the owner that argus_cmd_router_dispatch admitted.
THEOREM OnlyTheOwnerMoves == Spec => NoForeignMotion
<1> DEFINE A == machine.state # "MOVING" /\ machine'.state = "MOVING" =>
                  /\ authority.mode # "SERVICE_TRANSITION"
                  /\ authority.mode = "LOCAL_SERVICE" =>
                       \E s \in Sources : env[s].admitted /\ Permitted(authority, s)
<1>1. LifecycleInv /\ [Next]_vars => [A]_vars
  <2> SUFFICES ASSUME LifecycleInv, Next,
                      machine.state # "MOVING", machine'.state = "MOVING"
               PROVE  /\ authority.mode # "SERVICE_TRANSITION"
                      /\ authority.mode = "LOCAL_SERVICE" =>
                           \E s \in Sources : env[s].admitted /\ Permitted(authority, s)
    OBVIOUS
  <2>1. PICK s \in Sources : Execute(s)
    BY NextRestrained DEF Restrained
  <2> QED BY <2>1 DEF Execute, LifecycleInv, AdmittedMatches
<1> QED BY <1>1, LifecycleInvHolds, PTL DEF Spec, NoForeignMotion

\* A factory reset erases and reboots only with the authority revoked, the network
\* down and the motor at standstill.
THEOREM ResetErasesAtRest == Spec => EraseAtRest
<1> DEFINE A == \/ commissioned /\ ~commissioned'
                \/ pc["net"] = "reset_reboot" /\ pc'["net"] = "idle"
                => authority.mode = "NONE" /\ Converged /\ ~Driven
<1>1. LifecycleInv /\ [Next]_vars => [A]_vars
  <2> SUFFICES ASSUME LifecycleInv, Next,
                      \/ commissioned /\ ~commissioned'
                      \/ pc["net"] = "reset_reboot" /\ pc'["net"] = "idle"
               PROVE  authority.mode = "NONE" /\ Converged /\ ~Driven
    OBVIOUS
  <2>1. pc["net"] \in {"reset_erase", "reset_reboot"}
    BY NextRestrained DEF Restrained
  <2> QED BY <2>1 DEF LifecycleInv, ErasePoint, Standstill, Driven
<1> QED BY <1>1, LifecycleInvHolds, PTL DEF Spec, EraseAtRest
===========================================================================
