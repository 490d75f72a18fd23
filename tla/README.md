# Verification of the Argus pump controller (V2)

TLA+ modules, TLC configurations and TLAPS proofs for the firmware in `main/`: an
ESP32-S3 application that drives a stepper-motor pump, is commanded over MQTT, from a
web portal and from a serial console, and hands control between them.

## 1. The system

| Component | State it keeps | Operations | Interacts with |
|---|---|---|---|
| Step generator `argus_step_gen.c` | requested and generated rate, pending and active period, remainder accumulator, STEP/DIR/ENA pins, alarm | set rate, start, stop, enable, disable, set direction; timer interrupt | called by the trajectory engine; interrupt on another core |
| Trajectory engine `argus_trajectory.c` | target and applied rate, direction, reversal flags | 20 ms tick, set target, stops, unlock, recover | calls the step generator under `s_traj_mutex` |
| State manager `argus_state_mgr.c` | machine state, setpoint, E-stop latch, fault, generation | seven commands, E-stop, evaluator task | `s_command_mutex`, `s_state_mutex`; calls the trajectory engine |
| Authority `argus_authority_mgr.c` | mode, owner, generation | set mode, grant, revoke, permission | read by the router, changed by every lifecycle operation |
| Command router `argus_cmd_router.c` | `s_dispatch_mutex` | dispatch an envelope | MQTT runtime, portal, console |
| Command decoders `argus_browser_command.c`, `argus_mqtt_contract.c` | a cursor over the body | decode one JSON object | portal, MQTT runtime |
| Network manager `argus_net_mgr.c` | network mode, station, Wi-Fi transaction, timers, event queue | service entry and exit, security recovery, Wi-Fi apply, reconnect, station events | everything below and above |
| Service policy, restart, factory reset | none of their own (`s_factory_reset_pending`) | policy decisions, multi-step transactions | authority, router lock, HTTP server, NVS |
| HTTP server `argus_http_server.c` | running or not, handlers in progress | start, stop, one request at a time | stopped and started by lifecycle operations |
| MQTT broker `argus_mqtt_broker.c` | client slots, descriptors, subscriptions, retained store, invalidation history | accept, connect, publish, subscribe, disconnect; start, stop | one task per client; runtime callbacks; machine service |
| MQTT runtime `argus_mqtt_runtime.c`, contract `argus_mqtt_contract.c` | session, command lease, epoch, heartbeat, duplicate cache, publication caches | admit, execute and answer commands; publish | broker callbacks, router, authority |
| Machine directory and service | enrolled machines, failure buckets, derivation budget | enrol, rotate, enable, revoke, authenticate | broker, portal, key-derivation worker |
| Two-slot stores: configuration, security manifest, people, machines | two slots, selector, generation | commit, load at boot, factory reset | NVS |
| Accounts, sessions, login, administration | directory of people and roles, session table, lock-out buckets | log in, re-authenticate, administer, revoke | portal, stores, audit log |
| Audit log `argus_security_audit.c` | ring of records and its metadata, queue, degraded latch | append, page, prepare and finish a mutation | NVS; every administrative request |
| Password verifier | one worker, a queue of one | derive a key | logins, machine authentication, console benchmark |
| Security transition, local recovery | armed transition, button detector | delayed application of a change, recovery request | portal, NVS, network manager |

What is hard in it:

* **interrupt against task** on two cores: a stop, a kickstart or a change of rate runs
  while the interrupt of the previous alarm is half done;
* **three mutex layers** (`s_net_mutex`, `s_dispatch_mutex`, then `s_command_mutex` and
  `s_state_mutex`), given up in the middle of long operations because the HTTP server
  can only be stopped while its handlers may still take them;
* **E-stop**, which bypasses all but one of them;
* **decisions on old data**: the evaluator's sample, the portal's preflight of a service
  entry, the generation in a command envelope, a session's principal, an authenticated
  machine whose record changes, a timer's event in the queue;
* **transactions that fail half-way**, power cuts between two flash writes, and reboots;
* **messages** that are resent, queued behind a disconnection or overtaken, and queues
  that drop what does not fit;
* **recycled descriptors**: a socket number claimed for shutdown may belong to the next
  client;
* **limits**: one key-derivation worker for everybody, buckets that are reused, a ring
  that overwrites itself.

What makes each part correct is stated by the properties of section 4; `hazards` in
`PROJECT.json` lists the places in the code they are aimed at.

## 2. Modules

| Module | Models | Form |
|---|---|---|
| `StepGen` | pulses, pins, alarm: task functions against the interrupt | one step per critical section, driver call or pin write |
| `PulseContract` | what the step generator promises its caller | abstract specification, implemented by `StepGen` |
| `StepTiming` | rate to period, accumulator, minimum level times | arithmetic of one pulse train |
| `Trajectory` | trajectory engine over the step generator's interface | operators composed by the actions of `StateMgr` |
| `StateMgr` | commands, E-stop, evaluator; composes `Trajectory` | one action per command; start and recover are two |
| `CommandDecode` | the browser's and the MQTT decoder of motor commands | one action per token read |
| `TargetPath` | from bytes to pulses; composes `CommandDecode` and `StepTiming` | one command per behaviour |
| `Authority` | authority record and its rules | operators |
| `Lifecycle` | router, service entry and exit, recovery, Wi-Fi, restart, reset; composes `Authority` | two tasks as labelled steps, sources of commands, portal, station, reboot |
| `StaLink` | station events, retries, IP timeout, Wi-Fi transaction, queue | driver, timers, manager task, console task |
| `SlotStore` | the four two-slot stores, boot and first boot | one step per flash write; `kind` says which store |
| `AtomicRegister` | what a two-slot store promises | abstract specification, implemented by `SlotStore` |
| `MqttSession` | session core: lease, epoch, heartbeat, last command | operators on a record |
| `MqttRuntime` | message queue, lifecycle of the session, commands; composes `MqttSession` | one step per critical section of the session mutex |
| `Publications` | retained topics, subscriptions, replay, change caches | two publishing tasks, clients |
| `MachineService` | records of enrolled machines | operators |
| `MqttBroker` | accept, connect, disconnect, invalidation, start and stop; composes `MachineService` | one step per critical section of `client_lock` or `lifecycle_mutex` |
| `Accounts` | authorization rules and administration of people and roles | operators on a directory |
| `AuditRing` | the ring of audit records in flash | operators |
| `Portal` | sessions, login, access check, administration, audit, delayed transitions; composes `Accounts` and `AuditRing` | one action per request stage; audit task, timers, button, power |
| `Admission` | throttling of logins and machines at the shared key-derivation worker | portal, client tasks, console, worker, time |
| `MC*` | instances of the module whose name follows | |
| `StateMgrProofs`, `LifecycleProofs`, `SlotStoreProofs`, `MqttBrokerProofs`, `PublicationsProofs` | theorems about the module whose name they begin with (section 6) | inductive invariant, a lemma per action, theorems |
| `StepGenProofs` | theorems about `StepGen`, `StepTiming` and `TargetPath` | the same |
| `NetworkProofs` | theorems about `MqttRuntime` and `StaLink` | the same |
| `SecurityProofs` | theorems about `Admission` and `Portal` | the same |

### Motion: `StepGen`, `StepTiming`, `Trajectory`, `StateMgr`, `TargetPath`

`StepGen` runs one call of the trajectory engine at a time (`call`, `task`), as
`s_traj_mutex` guarantees, against the interrupt (`isr`). A rate stands for its period.
Times are left out, so an armed alarm may fire at any later moment, which includes every
real timing. `StepTiming` is the part of the same file that `StepGen` abstracts: the
integer period, the remainder accumulator, and the schedule of the two levels of STEP.
The product build has 8000 steps per output revolution, so the period at 200 RPM is 375
ticks, above the minimum of 300, and no rate the trajectory engine asks for is refused
for its period; `TargetPath` checks that this follows for every target a decoder accepts.

`Trajectory` sees the step generator through the contract: the functions become operators
on a record `sg`, and a tick or a command composes them in the order of the C code. The
only effect of the interrupt it needs is that a pending rate comes into effect
(`AcceptRate`). Every function of `argus_trajectory.c` is one step because each holds
`s_traj_mutex` throughout.

`StateMgr` adds the two mutexes of the state manager. A command that makes one call into
the trajectory engine is one step. `start` and `recover` contain a delay of 20 ms and
500 ms, in which the trajectory task ticks, so each is two steps with both mutexes held
between (`inflight`). The evaluator samples without `s_state_mutex` and evaluates later
(`sample`). An E-stop is a request that waits for `s_state_mutex` (`estopWaiting`).
`FailingOps` says which motion operations may return an error: with the production
operations only `recover` does, and the theorems hold for every choice.

`CommandDecode` reads a body token by token, either one that a correct client sends
(`script`) or anything at all, with both decoders' order of checks; numbers keep the
decoders' overflow tests, scaled to `U32Max` and `U64Max`.

### Control: `Authority`, `Lifecycle`, `StaLink`

The network manager's task (`net`) and the console task (`cli`) run service entry and
exit; `net` also runs restart, reset, recovery, Wi-Fi and station events from its queue.
`pc` is where a task is, `mem` what it keeps across its waits. A step is what happens
between two points at which another task can interfere: taking a mutex, or a wait. All
failures the code tests for are alternatives of the step that makes the call. The machine
is reduced to what this code reads: `REST` (HOLDING or UNLOCKED), `MOVING` (STARTING or
RUNNING), DECELERATING, RECOVERING, EMERGENCY_STOPPED, FAULTED, and the latch. A command
is dispatched in three steps: its envelope is built from a snapshot of the authority,
admitted under `s_dispatch_mutex`, executed, with other tasks running in between. A
reboot (`Reboot`) keeps NVS only.

`StaLink` is the same manager seen from the radio: the driver's callback sets the atomic
flags at once and posts an event tagged with the transaction it belongs to, timers post
events with their generation, the task handles them later, and a full queue drops them.

### Storage: `SlotStore`, `AtomicRegister`

The four stores share a protocol (write the slot that is not selected, read it back,
write the selector) and differ in how they choose the slot, what a boot makes of what it
finds and who may write; `kind` selects one. Power may be lost between any two writes,
any number of times. The fault model of a write is the repository's mock driver: it fails
without effect, or the blob is damaged, at most `MaxFaults` times in a behaviour.

### MQTT: `MqttSession`, `MqttRuntime`, `MqttBroker`, `MachineService`, `Publications`

`MqttRuntime` has the queue between the broker's client tasks and the runtime task, the
status task's tick, and restarts of the broker. Clients may send anything, resend it, and
be cut off with messages still queued. `MqttBroker` has what `MqttRuntime` takes for
granted: connections, slots, descriptors, authentication and its invalidation when the
portal changes a machine. `Publications` has the other direction: what the pump
publishes, retains and replays. The three do not share variables; a connection of
`MqttRuntime` is one that reached the session stage of `MqttBroker`.

### Portal: `Accounts`, `AuditRing`, `Portal`, `Admission`

The HTTP server handles one request at a time, so the portal's side is sequential; beside
it run the audit task, tasks that append without waiting, the transition timers, the
recovery button and power cuts. An administrative request is: access check, prepared
record, change, invalidation of sessions, terminal record. `Admission` has the part of
login and machine authentication that takes time: buckets, cooldowns, the budget of
derivations and the queue of the one worker; its time unit is one derivation.

Where a comment says "Mutant" or "a plausible slip", the operator is a variant of the
definition that follows it with a plausible mistake; it is used only to show that a
property would notice.

## 3. Runs

| Run | Instance and why it is enough |
|---|---|
| `state_mgr` | rates 0..3 with ramps of 2 per tick: ramps take two ticks and clamp at both ends; setpoints below, in and above the range; both directions; the command generation wraps at 2 |
| `step_gen` | two rates (one can replace the other while pending), a timer that may fail to start |
| `target_path` | all bodies of correct clients with one space anywhere in the first four tokens, and all sequences of tokens up to the first refused one; numbers of up to four digits, over both scaled overflow limits; rates with and without remainder and outside the limits, 40 steps: several rounds of the accumulator |
| `lifecycle` | all nine requests, an MQTT client, an unreliable station, a commissioned controller |
| `lifecycle_live` | the operations that take both mutexes or stop the server, against each other |
| `stores` | each of the four stores, two clients (portal and recovery), two values, four generations, one faulty write, any number of power cuts: three complete commits over each slot |
| `mqtt` | two machines (an HMI and ArgusCore), two connections, two broker lifecycles, two epochs: every hand-over of the lease, and its loss, once in each direction |
| `broker` | two connections for one session slot and one place before CONNECT, two descriptors, so a descriptor is reused; one administrative change, an invalidation history of one |
| `portal` | three scenarios: accounts and roles over a long history; all other requests; everything that can go wrong around the audit log, with one storage fault and power cuts |
| `sta_link` | a queue of two, so that events are lost; two authentication failures end the retries; four timer generations |
| `admission` | two addresses and names for one bucket, so that it is reused all the time, two client tasks, one worker; four mixes of attempts: six logins over nine units of time go through a count that runs out, a limit, its cooldown and the next window; machines alone; machines and a login; the same with a benchmark |
| `topics` | one client with two connections, two filters, a retained store that is just large enough, one event, two starts of the broker |

Bounds. `QueueLength` (`EventQueueLength` in `StaLink`) is 1 or 2 where the code has 10 or 12: a full queue, and so a
refused event, is reached at once. `MaxGeneration` stops new lifecycle requests (not
those under way) at an authority generation of 4 or 5, enough for one complete operation
and the greater part of a second inside it. The other `Max*` constants stop the
environment (connections, epochs, commits, records), never an operation under way.
Rates are units of one tick's change. Symmetry is used where the members of a set are
never compared but for equality (`Machines` of the broker, the three sets of
`admission`); the runs that use it check invariants only.

Fairness. The trajectory and evaluator tasks are periodic and the alarm is a hardware
timer, so their steps are weakly fair. A task that waits for a mutex which others take
and release again gets it eventually (strong fairness): FreeRTOS queues waiters by
priority and the holders here finish in bounded time. The server stops between two
requests, for the same reason. In `mqtt` the status task's tick and the runtime task are
fair, both being loops of their own tasks, and time passes (`HeartbeatAges`). Nothing is assumed of clients, the station,
faults, E-stops or administrators: they may come or not. The other runs check safety
only and assume no fairness.

Deadlock is checked in `state_mgr`, `step_gen`, `lifecycle` and `lifecycle_live`, whose
environments never stop. In the other runs the environment is used up at its bound and a
behaviour may then end, so the check would only report the bounds; what must not get
stuck there is stated as a property (`NeverStuck`, `BootsAgain`, `LeaseExpires`).

## 4. What the runs show

Motion
* `state_mgr`: `IInv`, whose parts say that what the machine state reports is true of the
  motion through every sequence of commands, faults and E-stops, although the evaluator
  acts on an older sample (section 6); `NoSurge`, the rate never jumps, never climbs above the target in force,
  and in FAULTED, where the code lets a ramp go on (section 5), no new target is given;
  `StopCompletes` and `EstopServed`, a stop and an E-stop reach their end.
* `step_gen`: `StopIsFinal` against the interrupt on the other core;
  `ImplementsContract`, the detailed steps implement `PulseContract`, which is all that
  `Trajectory` assumes; `RateTakesEffect`.
* `target_path`: `DecodesExactly`, both decoders hand on what was written, refuse
  everything else and never refuse a correct client; `AcceptedTargetRuns`, the decoders'
  limits and those of the step generator agree; `ExactRate`, the schedule never differs
  from the exact rate by a tick.

Control
* `lifecycle`: `NoForeignMotion`, `LocalGrantAtRest`, `LocalServiceIsExclusive`,
  `NoOrphanTransition`, `EraseAtRest`. Two tasks may be inside service transitions at the
  same time, because `s_net_mutex` is released while the server stops; these properties
  say what still holds.
* `lifecycle_live`: `TransitionsEnd`, `ResetSettles`.
* `sta_link`: `NeverStuck`, a station in use always has something coming that will move it
  on, unless an event was lost to a full queue or the last attempt failed half-way;
  `QuietInService`, nothing left in the queue or in a timer wakes it in service.

Storage
* `stores`: `ImplementsRegister`, a two-slot store is an atomic register under power cuts;
  `NoLostUpdate`, no other client's commit and no failed one undoes an acknowledged one;
  `IdentityStaysLocked`; `BootsAgain`.

MQTT
* `mqtt`: `AtMostOnce`, `EpochsInOrder` and `EpochNamesHolder` under resending, queueing
  and reconnection; `LeaseExpires`.
* `broker`: `OldPrincipalGone`, whatever the order of fence, commit, bind and disconnect;
  `ClaimedDescriptorSafe`, no socket is closed under its connection, and nothing done for a
  connection that got its task acts on a number closed meanwhile; a connection whose task
  cannot be created is the exception (section 5); `StoppedIsQuiet`.
* `topics`: `NothingMissed` between a subscription's replay and publications;
  `ModeCurrent`; `FaultRepublished` after a restart of the broker.

Portal
* `portal`: `NoStaleAuthority`, a session that passes the access check is what a login
  would give now; `AuditComplete`, `AuditTruthful` and `FailsClosed` under power cuts,
  storage failures and records lost to a full queue.
* `admission`: `LoginGetsItsTurn`, machines cannot keep an administrator out;
  `FailedLoginsCoolDown`, twice the limit of failures in one window contain a cooldown,
  although buckets are reused; `ReservedShareKept`.

Further properties are stated in the modules, hold on the same instances and can be added
to their cfg: `DirectionChangesAtRest` and `ResetNeverRestarts` (`StateMgr`), `OneLateEdge`
and `ChainAlive` (`StepGen`), `Accounted` and `InactiveLongEnough` (`StepTiming`),
`LeaseKept` (`MqttRuntime`), `ClaimsReleased` (`MqttBroker`), `RequestStaysValid`
(`Admission`), `TagNamesTransaction` and `SecretsScrubbed` (`StaLink`), all of them proved;
`PoolSuffices` (`MqttBroker`), and the type invariants.

### Worth knowing when this code is changed

* A grant does not compare the generation of its transition, so the second of two
  overlapping transitions can complete the first one's. Harmless as long as both
  revalidate machine and network. A late revocation is what keeps `NoOrphanTransition`
  true, so no abort path may skip it.
* Stores: `argus_nvs_config.c` is committed by the portal and by the console without a
  common lock. The `stores` run leaves the console out, so `NoLostUpdate` and the
  refinement are shown for the portal, the reset and the boot only: with the console an
  acknowledged save can be lost (`AppliedSettingsSurvive`, section 5). A selector write that reports an error but took effect would undo an
  acknowledged Wi-Fi save; the mock driver has no such failure, so the run does not either.
  A crash of the very first boot between slot and selector leaves manifest and people
  directory refused at every later boot. The `stores` run has one faulty write; with two,
  `NoLostUpdate` and `ImplementsRegister` fail for the configuration store, contrary to the
  comment at nvs_config.c:460-461: when the selector repair of a boot fails (463, 472), the
  next commit targets the slot that the old selector does not name (504-508), which is the
  one in use, and if that write is damaged too the acknowledged settings are gone. The
  other three stores have no such repair and are proved for any number of faults.
* MQTT: the duplicate cache is keyed by session, request identifier and kind, so an
  identifier may be used again in the next session. If ArgusCore acquires before
  `mark_authority_ready`, the acquisition window stays unset (runtime.c:421-423). A commit
  in flight across `prepare_start` writes the old sequence number into the new session
  (runtime.c:1604-1609).
* Broker: a second start after one that timed out, with no stop between (broker.c:1798),
  is outside the model; a stop may miss a client that is just being accepted
  (broker.c:2131) and then waits for it to leave. A record is visible from its allocation
  (1627), before its task exists: when `xTaskCreate` fails, a stop may have taken its socket
  (2139-2157) and the server closes its own copy again (1646), in either order
  (`DescriptorsClosedOnce`, section 5). Within the broker nobody can have been given the
  number, because only the server accepts and it takes nobody until the stop is over; a socket of the
  HTTP server can.
* Publications: fault and action topics may disagree for a cycle; two tasks use the change
  cache without a lock, so a retained fault can stay old until the next change
  (runtime.c:91-94); the six authority values are published one by one by three tasks
  (1190-1203). A delivery goes to whatever connection now has the descriptor
  (broker.c:554), a replayed copy may arrive after a newer value (938-955), and without a
  send timeout a slow subscriber holds up the publishing task (487).
* Portal: when the terminal audit record of an access-point change fails, the change is in
  NVS but only a reboot applies it; when the response to a recovery exit cannot be sent,
  later exits are refused until a power cycle. The degraded latch is kept in RAM only.
  Lifecycle identifiers have 16 bits (security_audit.c:133-140): in the first 65535 records
  of a device they are the record numbers, as in the model, and after that they repeat, the
  first time with 65536 and 65537, which both give 1.
  `revoke_sessions` accepts any identifier, and `assign_roles` has no check for the last
  administrator (security_admin.c:376). A transition's `armed` flag is set after its timer
  has started (security_transition.c:55-61); the 300 ms delay covers it.
* Station: an event ignored in service clears `started`, and a manual reconnect's events
  are then ignored until the next apply. A disconnection tagged with a transaction that
  fails in preparation is ignored. ACTION_REQUIRED does not advance the timer generation,
  so a queued IP timeout (net_mgr.c:324) starts the retries again. With a queue of four or
  more, a transaction that begins while the station is still trying can be prepared while
  the station gets online; if `esp_wifi_connect` is then refused, the state becomes IDLE and
  the tag 0 (net_mgr.c:1904-1908). An ASSOCIATED of before the transaction, still queued,
  moves the state to ASSOCIATED_WAITING_IP, the IP_ACQUIRED carries the transaction's tag
  and is ignored, and so is the IP timeout, because the address is there: the station is
  online and the manager waits. This was found while looking for the inductive invariant
  and is the one refusal of a connection that counts under `abandoned`.
* Admission: the clock is read before the mutex (machine_service.c:648). A machine told
  BUSY counts as a failure of its peer (914), a login that timed out does not. The search
  for a bucket stops at the first free one (560). A count just short of the limit is
  forgotten when its window runs out (`LimitStartsCooldown`, section 5). The history behind
  `ReservedShareKept` begins anew with the budget's window, so a window that an older clock
  value resets early would not show in it. `AdmitLogin` leaves out the bound on logins in
  verification (auth_service.c:321-323), which one HTTP task cannot reach. `cooldown_level` never goes down. A
  benchmark of 100,000 iterations takes longer than the 8 s a login waits.
* Decoders: a key written with an escape is accepted by the browser decoder and refused by
  the MQTT decoder.

## 5. Where code and documents differ

Each of these statements is kept as a definition in the module named, where TLC refutes
it: put it into the cfg of the module's run in place of the properties there to see the
counterexample. Nine are refuted with the constants of the run. `AppliedSettingsSurvive`
needs `Clients = {"portal", "console"}`, and `DepartedStopsCommanding` needs
`QueueLength = 2`, a heartbeat and a command waiting together.

| Definition | Statement | What the code does |
|---|---|---|
| `StateMgr!LatchHoldsUntilReset` | docs/V2_BASELINE_AUDIT.md:94, a latched E-stop needs RESET_ESTOP to return to HOLDING or UNLOCKED | RECOVER leaves RECOVERING, then UNLOCK or STOP; the latch stays set and the machine cannot start, but nor can it be reset |
| `StateMgr!FaultedInhibitsMotion` | docs/V2_CONTROLLER_ARCHITECTURE.md:152, FAULTED inhibits motion | a failed kickstart is reported, the next tick succeeds, pulses go on in FAULTED |
| `StepGen!StopLeavesStepInactive` | docs/V2_CONTROLLER_ARCHITECTURE.md:151, an E-stop forces STEP inactive | an interrupt past its checks asserts STEP after the stop; the timer is off, so it stays |
| `Lifecycle!RestartStaysRevoked` | comment at argus_restart_mgr.c:80, the authority is NONE until the reboot | a console entry is granted in between |
| `Lifecycle!AdmittedStillValid` | docs/PHASE_4A_HARDENING_AUDIT_CORRECTIVE_PLAN (AMENDED).md:84, `s_dispatch_mutex` serializes execution and authority changes | a Wi-Fi apply revokes without it while an admitted command waits to run |
| `SlotStore!AppliedSettingsSurvive` | comment at argus_nvs_config.c:547, after the selector write the settings are fully committed | the console commits a payload without the provisioned flags (app_main.c:453-462); at the next boot a selected slot that is not provisioned beside one that is, is taken for a failed selector write (nvs_config.c:448-475), and the old settings come back |
| `SlotStore!IdentityAndLockAtomic` | docs/Phase 4B.2 Corrections — Walkthrough.md:18, identity and its lock are committed atomically | a boot merges the flags of both slots (nvs_config.c:423-430); with power lost after the slot and before the high-water mark the old identity is used, and locked |
| `MqttRuntime!DepartedStopsCommanding` | comment at mqtt_contract.c:819-821, a departed connection commands no more | a heartbeat still in the queue binds the lease to the dead connection again (761) and its queued command is admitted |
| `MqttBroker!DescriptorsClosedOnce` | docs/PHASE_4D_4_IMPLEMENTATION_PLAN.md:53-54, descriptor reuse cannot affect another client; comment at mqtt_broker.c:2122-2126, stop cannot close and recycle a descriptor that is still claimed | a stop takes the socket of a record whose task is about to be created; the creation fails, and the server closes its own copy of the number (1646) beside the stop's close (2157): whoever comes second closes a number that may be in use again |
| `Admission!LimitStartsCooldown` | docs/PHASE_4D_SECURITY_CONTRACT.md:234, "Five failures in 60 seconds trigger a 30-second delay"; also docs/PHASE_4D_3_IMPLEMENTATION_PLAN.md:114 and docs/DEFERRED_HARDENING_REGISTER.md:108 | a count short of the limit is forgotten at the end of its window, so nine failures can fall into 60 seconds without a delay between them; that ten cannot is `FailedLoginsCoolDown` |
| `StaLink!GuidanceTruthful` | operator guidance at net_mgr.c:2871, "Automatic retry scheduled" | an apply that fails in preparation has already advanced the timer generation, so the retry that is still armed is dropped as out of date, and the state stays RETRY_WAIT |

Met while reading and not modelled: the factory-credential bootstrap at app_main.c:1027
runs before `argus_security_migration_run` (1037), so the migration of a legacy password
always ends in MIGRATION_FAILED (security_migration.c:70-150), contrary to the comment at
app_main.c:1022-1026.

## 6. Proofs

Every theorem holds for all values of its module's constants that satisfy the named
assumption of that module; TLC evaluates the assumptions in the module's run. Each proof
module has the same form: an inductive invariant, lemmas about the operators, one lemma
for every action, the step and the initial state, then the theorems. Every inductive
invariant was checked by TLC on the run's instance before it was proved.

| Theorem | Statement |
|---|---|
| `StateMgrProofs!IInvHolds`, `TypeCorrect`, `LatchedIsStill`, `RestIsStill`, `MotionConsistent`, `SetpointAndLocks` | `IInv` and its parts |
| `StateMgrProofs!NeverSurges`, `DirectionOnlyAtRest`, `ResetStaysStill` | the action properties `NoSurge`, `DirectionChangesAtRest`, `ResetNeverRestarts` |
| `StepGenProofs!StepGenTypeCorrect`, `StopIsFinalAlways`, `AtMostOneLateEdge`, `ChainStaysAlive` | `TypeOK`, `StopIsFinal`, `OneLateEdge`, `ChainAlive` |
| `StepGenProofs!StepGenImplementsContract` | `StepGen` implements `PulseContract` |
| `StepGenProofs!AccountBalances`, `InactiveIsLongEnough` | `Accounted`, `InactiveLongEnough` (`StepTiming`) |
| `StepGenProofs!RateIsExact`, `AcceptedTargetsRun` | `ExactRate`, `AcceptedTargetRuns` (`TargetPath`) |
| `LifecycleProofs!TransitionsHaveAnOwner`, `LocalServiceExclusive`, `MutexesOwned` | `NoOrphanTransition`, `LocalServiceIsExclusive`, `NetMutex` and `DispatchMutex` |
| `LifecycleProofs!GrantsOverARestingMachine`, `OnlyTheOwnerMoves`, `ResetErasesAtRest` | the action properties `LocalGrantAtRest`, `NoForeignMotion`, `EraseAtRest` |
| `SlotStoreProofs!AcknowledgedSurvives`, `IdentityLocked`, `StoresBootAgain` | `NoLostUpdate` for manifest, people and machines; `IdentityStaysLocked` without the console; `BootsAgain` |
| `SlotStoreProofs!ManagedStoresAreRegisters` | manifest, people and machines implement `AtomicRegister` |
| `NetworkProofs!StationNeverStuck`, `ServiceStaysQuiet` | `NeverStuck`, the action property `QuietInService` |
| `NetworkProofs!TagIsTheTransactions`, `StagedPasswordIsScrubbed`, `StaTypesHold` | `TagNamesTransaction`, `SecretsScrubbed`, `StaTypeOK` |
| `NetworkProofs!CommandsRunOnce`, `CommandsFollowEpochs`, `OneHolderPerEpoch`, `LeaseIsKept` | `AtMostOnce`, `EpochsInOrder`, `EpochNamesHolder`, the action property `LeaseKept` |
| `MqttBrokerProofs!DescriptorsAreOwn`, `StoppedBrokerIsQuiet`, `OldPrincipalsLeave`, `ClaimsAreReleased` | `ClaimedDescriptorSafe`, `StoppedIsQuiet`, `OldPrincipalGone`, `ClaimsReleased` |
| `PublicationsProofs!NothingIsMissed`, `ModeBecomesCurrent`, `FaultIsRepublished` | `NothingMissed`, `ModeCurrent`, `FaultRepublished` |
| `SecurityProofs!LogTellsTheTruth`, `LogHasNoGap`, `LatchHolds`, `AuthorityIsCurrent` | `AuditTruthful`, `Numbered`, `FailsClosed`, `NoStaleAuthority` |
| `SecurityProofs!FailuresCoolDown`, `ReservedShareIsKept`, `RequestsStayValid`, `LoginTakesItsTurn` | `FailedLoginsCoolDown`, `ReservedShareKept`, `RequestStaysValid`, and, if `AdmissionMax = 1`, `LoginGetsItsTurn` |

**State manager.** None of the parts of `IInv` is inductive alone. It adds what a rate
that is requested but not generated means (`RequestedMeansGenerated`: the error state is
set, so the evaluator cannot take the machine for stopped); what holds of a command
between its two steps; that a reset to UNLOCKED only happens with the driver off; and that
a sample of a decelerating machine at standstill stays true until it is used, because a
decelerating machine has target 0 and no command can change that while the evaluator holds
`s_command_mutex`. There is a lemma for each operation of the trajectory engine and one for
each action. The action properties follow from `IInv` and the same lemmas; for `NoSurge`
that is what a tick may add to the rate (`TickClimbs`) and that a machine in FAULTED takes
no command that sets a target other than 0 (`FaultedKeepsTarget`).

**Step generator.** `StopIsFinal` says nothing of an interrupt that is half done or of a
call between two functions. The invariant adds that a period and the rate it stands for
change together (`PeriodsAgree`), that no rate exists in a generator that does not run or
that has an immediate stop pending (`RatesNeedRunning`), what each function may assume
because its caller ran others before it (`CallerAgrees`), how many edges are left after a
stop (`EdgesLeft`), and that the chain of alarms is unbroken, except inside a kickstart
(`AlarmChain`). With it every step of task or interrupt is a step of `PulseContract` or a
stutter.

**Step timing and targets.** `Accounted` is the balance `ticks * den + acc = steps * Num`
with `acc < den`, and the exact rate and the length of the inactive level follow from it by
arithmetic. For `AcceptedTargetRuns`, `PathInv` follows a number from its first digit to the
target in force: it is a natural number whatever is read, and neither the request that is
handed on nor the target exceeds `MaxTarget`. A smaller rate has a longer period, so the
rate at `MaxTarget` decides; that its period is not below the minimum is `PathAssumption`, in
the product build 600000000000 div (200000 * 8000) = 375 against 300.

**Lifecycle.** The invariant says for each place of the two tasks which mutex they hold there
(`NetMutex`, `DispatchMutex`), that no transition or grant overtakes an admitted command,
although a revocation may (`AdmittedMatches`), and what has been tested
under the mutex and still holds at the places where a grant, a Wi-Fi step and the erasure
happen (`GrantPoint`, `WifiPoint`, `ErasePoint`). `NoOrphanTransition` and
`LocalServiceIsExclusive` are inductive only beside them: the second task may be anywhere in
its own transition while the first waits without the mutex. Each action property is about one
kind of step, and one lemma over all steps (`NextRestrained`) says that no other gives local
control, sets the machine in motion or loses the configuration.

**Stores.** For the three stores with a writer task: a boot writes only before the store has
ever worked, the writer works on the slot that is not in use, the selector points to a valid
slot, the copy in RAM is that slot's and holds every acknowledged field, a request based on the
current generation keeps what others committed, and with nothing undecided a boot finds what
was acknowledged (`ManagedInv`). From it follow, for any number of power cuts and faults, that
no acknowledged change is lost and that every step is one of `AtomicRegister` or a stutter.
Both theorems have `kind \in Managed`, the three stores, as their hypothesis: for the
configuration store they hold on the run's instance, not in general (see "Worth knowing").
What is proved of that one, without the console, is that a locked identity stays locked: the
portal never gives up the lock in RAM nor writes the selected slot, and the high-water mark is
written before the selector (`ConfigInv`).

**Portal.** `AuditInv`: one request is outstanding at a time, the ring's records are numbered
without a gap and the slot past the count is never read, so a torn write is invisible; every
lifecycle identifier is fresh, which `PortalAssumption` limits to the first 65535 records,
where the 16-bit identifier is the record's number; a change without a terminal record is the one under way or the
last one before the latch. `AccessInv`: the epoch of an account (`rev`) only grows with the
generation of the directory, so a session with an equal epoch was opened by an account that
has not changed since, through every change of accounts and shifting of roles.

**Station.** `NeverStuck` asks for an event that will count when its turn comes, so the
invariant is about order in the queue. Events with the tag of the active transaction come
after all others, and once its attempt has led to a timer no others are left (`TagOrder`);
from its beginning until its disconnection is handled a transaction has stilled both timers
and outdated what they posted (`Stilled`); the flags claim no more than the driver has
(`FlagsFollow`). As long as nothing was lost or abandoned the flags are exactly the driver's,
its last move is told by a queued event that will be processed or has been, and each waiting
state has its cause (`Alive`). An ignored event is therefore never the awaited one. In
service an announced retry is out of date, in its timer and in the queue (`Quiet`).

**MQTT runtime.** Every operation on the session core is shown to *follow* the core it
starts from: same session and last command, the epoch only grows, and within an epoch the
holder stays. The invariant adds that the task works in the session of the core or in an
earlier one, that what was dispatched is recorded up to the last command of the core, and
that the recorded owner of the current epoch is the holder. The assumption that sequence
numbers of one session span less than half the modulus (`MaxSeq < SeqModulus \div 2`) is
what serial-number comparison needs; it is 2^31 commands in the code.

**Broker.** `OldPrincipalGone` needs to know of a client on its way from CONNECT to its
session that the journal was read before the directory, and so shows every later change, or
has been overwritten, which counts as a change (`Authorised`). `ClaimedDescriptorSafe`
needs that a descriptor in anybody's hands is his own: the server task's, a client's, or
one that a stop took from a client (`Owners`), that between allocation and creation the
server holds a copy of the descriptor in the record, or of one that a stop has taken
(`ServerOwns`, `ServerHolds`, `TakenOwned`), that a stop with sockets left to close has
closed the listener, so that their numbers go to no new connection (`StopCloses`), and that the claims are exactly those of the
disconnect under way (`ClaimsAgree`). `StoppedIsQuiet` needs the count to be that of the
client tasks and of the one about to be created (`CountAgrees`).

**Publications.** `NothingMissed` accepts any message of a topic that is under way; the
inductive form (`Served`) asks for the current one and takes an outdated copy in a replay
for nothing. `FaultKept` says why the fault comes back: after a start nothing has happened
yet, or a baseline is queued, or a task with an empty change cache is about to compare.
`ModeSettles` follows the last change of the mode through one cycle of the status task. The
assumption that the retained store has a place for every topic is the code's
`_Static_assert`.

**Admission.** For `FailedLoginsCoolDown` the invariant remembers how the current window of
everybody's bucket was opened: by a failure that found the previous window over, and then
the failure `FailureLimit` places earlier is out of reach; or by the failure that reached
the limit, and then the next one comes after the cooldown (`Counted`). It also needs that
failures are recorded in the order of their times, although the clock is read before the
mutex, which holds because the server handles one login at a time (`Ordered`). The
buckets of addresses and names play no part: the count over everybody carries the property.
Of the constants it uses `FailureLimit > 1` and `CooldownInitial <= CooldownMax` (5, 30 s
and 300 s in the code). For `ReservedShareKept` the
counter is the number of derivations granted in the window and a proven source has
authenticated (`SharesAgree`). For `LoginGetsItsTurn` the gate's count is that of the
machines past it, and a login that waits has only just begun to, for no time passes while
the queue has a place or the worker is free (`TurnKept`); this needs the gate to admit one
machine, which the theorem has as its hypothesis and the code as its setting.
An attempt to prove an earlier form of `FailedLoginsCoolDown`, with one failure less,
showed it to be false (section 5).

Only model-checked:

* liveness, which is outside the prover's reach: `StopCompletes`, `EstopServed`,
  `RateTakesEffect`, `TransitionsEnd`, `ResetSettles`, `LeaseExpires`;
* `DecodesExactly`, which is about what a decoder computes from every sequence of tokens, an
  induction over data;
* `AuditComplete`, whose pages are a recursion over the ring; that the ring itself has no gap
  is proved (`LogHasNoGap`);
* `NoLostUpdate` and `ImplementsRegister` for the configuration store, which hold for one
  faulty write and not for two.

## 7. Not modelled

* Formatting: HTTP pages, JSON responses, MQTT packet framing, the console's text. What
  the decoders of commands do is modelled; those of configuration and administration
  forms are reduced to what they decode to.
* Cryptography: a derivation is a step that takes time and says yes or no.
* Tables and conversions: the route inventory, units, identity strings, feedback.
* The operator panel in `hmi/`, a separate program.
* Initialisation failures that stop the boot (`argus_step_gen_init` and its like); the
  3 us clamp of a late alarm and DIR set-up times, which are durations.
* The button detector of local recovery (a debounce over samples), the interface-conflict
  latch of the network manager, legacy migration and factory provisioning.
* Fault code values and rejection texts are reduced to what decisions use.

## 8. Plan

Theorems to come: `NoLostUpdate` of the configuration store for at most one fault, with the
place of the fault in the invariant; the type invariants of `MqttRuntime` and `MqttBroker`
as theorems of their own.

Models to come: the button detector and the interface-conflict latch; provisioning and
migration at first boot; `MqttBroker` and `MqttRuntime` composed, so that the invalidation
of a machine and the loss of its lease are one behaviour.
