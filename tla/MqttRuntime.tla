---------------------------- MODULE MqttRuntime ----------------------------
(***************************************************************************)
(* The MQTT protocol runtime (argus_mqtt_runtime.c): the task that drains  *)
(* the queue of messages, the client tasks of the broker that fill it and  *)
(* report connections and disconnections, the status task that ticks once  *)
(* a second, and the network manager's restarts of the broker.  They share *)
(* the session core under one mutex.  A critical section is one step, and  *)
(* so is what a task does between two of them.                             *)
(*                                                                         *)
(* Clients may send anything, may resend it, and may be cut off at any     *)
(* moment, with their messages still in the queue.                         *)
(***************************************************************************)
EXTENDS MqttSession

CONSTANTS
    Profiles,      \* commissioned authority profiles to consider
    QueueLength,   \* ARGUS_MQTT_RUNTIME_QUEUE_DEPTH, 12 in the code
    CacheSize,     \* ARGUS_MQTT_AUTH_DUP_CACHE_SIZE
    RequestIds,    \* identifiers clients choose for authority requests
    MaxConn,       \* connections in a behaviour
    MaxSession,    \* broker lifecycles in a behaviour
    MaxEpoch,      \* the epoch at which clients stop asking for authority
    MaxSeq,        \* sequence numbers
    MaxBeat        \* heartbeat counters

ASSUME MqttRuntimeAssumption ==
    /\ Profiles \subseteq {"standalone", "preferred"}
    /\ {QueueLength, CacheSize, MaxConn, MaxSession, MaxEpoch, MaxSeq,
        MaxBeat} \subseteq Nat \ {0}
    /\ MaxSeq < SeqModulus \div 2 /\ MaxBeat < SeqModulus \div 2

VARIABLES
    core,      \* s_runtime.session
    age,       \* of core's last heartbeat
    window,    \* what s_authority_ready_ms makes of the acquisition window
    profile,   \* cfg.authority_profile
    broker,    \* down, up, or ready: up with authority marked ready
    conns,     \* the machine behind each connection, while its slot is in use
    leaving,   \* connections whose DISCONNECTED event is still to come
    nconn,     \* connection ids handed out
    queue,     \* s_runtime.queue
    task,      \* the runtime task: the message and how far it is handled
    cache,     \* s_auth_dup_cache, oldest first
    ran,       \* the commands dispatched and the last one's epoch (history)
    owners     \* who held the lease in this session and epoch (history)

vars == <<core, age, window, profile, broker, conns, leaving, nconn, queue, task, cache,
          ran, owners>>

ConnIds == 1 .. MaxConn
NoMessage == [kind |-> "none"]
Idle == [at |-> "idle", m |-> NoMessage]

Command(m) == [session |-> m.session, n |-> m.n, epoch |-> m.epoch]

\* What connection c of machine m may send: heartbeats, requests for and
\* releases of authority and commands, in this epoch or the
\* one before; of this session, since prepare_start empties the queue.  A message
\* that is retained, not QoS 1, outside the policy or refused by the decoder
\* only takes up the queue, and a baseline event only publishes: neither is sent.
Heartbeats(m, c) ==
    [kind : {"heartbeat"}, from : {m}, conn : {c}, session : {core.session}, n : 1 .. MaxBeat]
Requests(m, c) ==
    {r \in [kind : {"request", "release"}, from : {m}, conn : {c}, session : {core.session},
            id : RequestIds, epoch : {0, core.epoch - 1, core.epoch} \cap Nat] :
        /\ core.epoch < MaxEpoch
        /\ r.kind = "release" => r.epoch # 0}        \* the decoder refuses epoch 0
Commands(m, c) ==
    [kind : {"command"}, from : {m}, conn : {c}, n : 1 .. MaxSeq,
     session : {core.session},
     epoch : {core.epoch - 1, core.epoch} \cap Nat]
Messages(m, c) == Heartbeats(m, c) \cup Requests(m, c) \cup Commands(m, c)

Init ==
    /\ core = SessionCoreInit(0) /\ age = "expired" /\ window = "unset"
    /\ profile \in Profiles
    /\ broker = "down" /\ conns = [c \in ConnIds |-> Nobody] /\ leaving = {} /\ nconn = 0
    /\ queue = <<>> /\ task = Idle /\ cache = <<>>
    /\ ran = [done |-> {}, again |-> FALSE, late |-> FALSE, last |-> <<0, 0>>]
    /\ owners = {}

\* The core changes, and with it the record of who held it in this epoch.
SetCore(c) ==
    /\ core' = c
    /\ owners' = (IF c.epoch = core.epoch THEN owners ELSE {}) \cup ({c.holder} \ {Nobody})

Running == broker \in {"up", "ready"}     \* argus_mqtt_broker_is_running

---------------------------------------------------------------------------
(* The broker's life, on the network manager's task.                       *)

\* argus_mqtt_runtime_prepare_start: a new session, an empty queue and cache.
\* Once argus_mqtt_broker_start has returned clients may connect.
PrepareStart ==
    /\ broker = "down" /\ core.session < MaxSession
    /\ queue' = <<>> /\ core' = SessionCoreInit(core.session + 1) /\ age' = "expired"
    /\ cache' = <<>> /\ window' = "unset" /\ broker' = "up" /\ owners' = {}
    /\ UNCHANGED <<profile, conns, leaving, nconn, task, ran>>

\* argus_mqtt_runtime_broker_started and argus_mqtt_runtime_mark_authority_ready:
\* the window opens, unless somebody was faster: then it stays unset.
MarkAuthorityReady ==
    /\ broker = "up" /\ broker' = "ready"
    /\ window' = IF core.holder # Nobody /\ core.link = "online" THEN window ELSE "open"
    /\ UNCHANGED <<core, age, profile, conns, leaving, nconn, queue, task, cache, ran, owners>>

\* argus_mqtt_broker_stop takes every client's socket away.
StopBroker ==
    /\ Running /\ broker' = "down"
    /\ leaving' = leaving \cup {c \in ConnIds : conns[c] # Nobody}
    /\ conns' = [c \in ConnIds |-> Nobody]
    /\ UNCHANGED <<core, age, window, profile, nconn, queue, task, cache, ran, owners>>

---------------------------------------------------------------------------
(* Clients, on the broker's client tasks.                                  *)

\* An authenticated client; a machine has one connection at a time.
Connect(m) ==
    /\ Running /\ nconn < MaxConn /\ m \notin {conns[c] : c \in ConnIds}
    /\ nconn' = nconn + 1 /\ conns' = [conns EXCEPT ![nconn + 1] = m]
    /\ UNCHANGED <<core, age, window, profile, broker, leaving, queue, task, cache, ran, owners>>

\* broker_message_cb: a message into a full queue is lost, which is no step.
BrokerMessage(c) ==
    /\ conns[c] # Nobody /\ Len(queue) < QueueLength
    /\ \E m \in Messages(conns[c], c) : queue' = Append(queue, m)
    /\ UNCHANGED <<core, age, window, profile, broker, conns, leaving, nconn, task, cache,
                   ran, owners>>

\* The connection is lost or closed: its slot is free at once.
Depart(c) ==
    /\ conns[c] # Nobody
    /\ conns' = [conns EXCEPT ![c] = Nobody] /\ leaving' = leaving \cup {c}
    /\ UNCHANGED <<core, age, window, profile, broker, nconn, queue, task, cache,
                   ran, owners>>

\* broker_client_cb, DISCONNECTED.
BrokerClientGone(c) ==
    /\ c \in leaving /\ leaving' = leaving \ {c}
    /\ SetCore(SessionDisconnect(core, c))
    /\ UNCHANGED <<age, window, profile, broker, conns, nconn, queue, task, cache,
                   ran>>

---------------------------------------------------------------------------
(* The runtime task.                                                       *)

\* auth_dup_find: an entry is known by session, identifier and direction.
AuthDupFind(m) ==
    {i \in 1 .. Len(cache) : /\ cache[i].session = m.session /\ cache[i].id = m.id
                             /\ cache[i].kind = m.kind}

\* auth_dup_store: the oldest entry makes room.
AuthDupStore(m) ==
    LET full == Append(cache, [session |-> m.session, id |-> m.id, kind |-> m.kind])
    IN  IF Len(full) > CacheSize THEN Tail(full) ELSE full

\* argus_mqtt_authority_admit, with the arbitration's answer: duplicates are
\* answered from the cache, stale epochs are refused, the rest is arbitrated.
Arbitrate(m, running) ==
    IF m.kind = "release"
    THEN IF m.epoch # core.epoch THEN Answer("stale_epoch", core, FALSE)
                                 ELSE ReleaseAuthority(core, m.from)
    ELSE IF m.epoch \notin {0, core.epoch} THEN Answer("stale_epoch", core, FALSE)
    ELSE RequestAuthorityWithState(core, age, m.from, m.conn, profile, window, running, m.epoch)

AuthorityAdmit(m, running) ==
    LET known == AuthDupFind(m)
        a == Arbitrate(m, running)
    IN  IF m.session # core.session \/ known # {}
        THEN UNCHANGED <<core, age, cache, owners>>    \* mismatch, replay or conflict
        ELSE /\ SetCore(a.core) /\ age' = IF a.fresh THEN "fresh" ELSE age
             /\ cache' = AuthDupStore(m)

\* handle_heartbeat: only the holder's heartbeats count.
HandleHeartbeat(m) ==
    IF core.holder = m.from /\ AcceptsHeartbeat(core, m.from, m.conn, m.session, m.n)
    THEN SetCore(AcceptHeartbeat(core, m.from, m.conn, m.n)) /\ age' = "fresh"
    ELSE UNCHANGED <<core, age, owners>>

\* handle_command, its first critical section: admission and sequence.
AdmitCommand(m) ==
    /\ CommandAdmissionCheck(core, m) = "ok"
    /\ CheckSequence(core, Command(m)) \in {"first", "newer"}

\* handle_message: the next event of the queue.
HandleMessage ==
    /\ task = Idle /\ queue # <<>> /\ queue' = Tail(queue)
    /\ LET m == Head(queue)
       IN  CASE m.kind = "heartbeat" ->
                  HandleHeartbeat(m) /\ UNCHANGED <<task, cache>>
             [] m.kind \in {"request", "release"} ->
                  /\ \E running \in BOOLEAN : AuthorityAdmit(m, running)
                  /\ UNCHANGED task
             [] m.kind = "command" ->
                  /\ task' = IF AdmitCommand(m) THEN [at |-> "admitted", m |-> m] ELSE Idle
                  /\ UNCHANGED <<core, age, cache, owners>>
    /\ UNCHANGED <<window, profile, broker, conns, leaving, nconn,  ran>>

\* handle_command between its critical sections: the router's authority check
\* and dispatch.  A command the control authority refuses is not committed.
Dispatch ==
    /\ task.at = "admitted"
    /\ LET cmd == Command(task.m)
       IN  \/ /\ ran' = [done  |-> ran.done \cup {<<cmd.session, cmd.n>>},
                          again |-> ran.again \/ <<cmd.session, cmd.n>> \in ran.done,
                          late  |-> ran.late \/ (cmd.session = ran.last[1] /\ cmd.epoch < ran.last[2]),
                          last  |-> <<cmd.session, cmd.epoch>>]
              /\ task' = [task EXCEPT !.at = "done"]
           \/ task' = Idle /\ UNCHANGED ran
    /\ UNCHANGED <<core, age, window, profile, broker, conns, leaving, nconn, queue, cache,
                   owners>>

\* handle_command, its last critical section.
Commit ==
    /\ task.at = "done" /\ task' = Idle
    /\ core' = CommitResult(core, Command(task.m))
    /\ UNCHANGED <<age, window, profile, broker, conns, leaving, nconn, queue, cache,
                   ran, owners>>

---------------------------------------------------------------------------
(* Time, the status task and the rest of the device.                       *)

\* A tick that looks at the link only, which a disconnection has taken down.
RuntimeTickMutant ==
    /\ Running /\ core.link = "online" /\ SessionTick(core, age) # core
    /\ SetCore(SessionTick(core, age))
    /\ UNCHANGED <<age, window, profile, broker, conns, leaving, nconn, queue, task, cache,
                   ran>>

\* argus_mqtt_runtime_tick.
RuntimeTick ==
    /\ Running /\ SessionTick(core, age) # core
    /\ SetCore(SessionTick(core, age))
    /\ UNCHANGED <<age, window, profile, broker, conns, leaving, nconn, queue, task, cache,
                   ran>>

HeartbeatAges ==
    /\ age = "fresh" /\ age' = "expired"
    /\ UNCHANGED <<core, window, profile, broker, conns, leaving, nconn, queue, task, cache,
                   ran, owners>>

\* core_acquisition_window_open turns false 45 s after the anchor.
WindowCloses ==
    /\ window = "open" /\ window' = "closed"
    /\ UNCHANGED <<core, age, profile, broker, conns, leaving, nconn, queue, task, cache,
                   ran, owners>>

Next ==
    \/ PrepareStart \/ MarkAuthorityReady \/ StopBroker
    \/ \E m \in Machines : Connect(m)
    \/ \E c \in ConnIds : BrokerMessage(c) \/ Depart(c) \/ BrokerClientGone(c)
    \/ HandleMessage \/ Dispatch \/ Commit
    \/ RuntimeTick \/ HeartbeatAges \/ WindowCloses

\* Tasks run, and time passes.
Fairness == /\ WF_vars(HandleMessage) /\ WF_vars(Dispatch) /\ WF_vars(Commit)
            /\ WF_vars(RuntimeTick) /\ WF_vars(HeartbeatAges)
Spec == Init /\ [][Next]_vars /\ Fairness

---------------------------------------------------------------------------

TypeOK ==
    /\ core.link \in Links /\ core.holder \in Machines \cup {Nobody}
    /\ core.conn \in 0 .. MaxConn /\ core.hbconn \in 0 .. MaxConn
    /\ age \in Ages /\ window \in Windows
    /\ Len(queue) <= QueueLength /\ Len(cache) <= CacheSize
    /\ task.at \in {"idle", "admitted", "done"}

\* Whatever is resent, lost or reordered by reconnections, a command of a
\* session is dispatched once: check_sequence refuses what commit_result recorded.
AtMostOnce == ~ran.again

\* Commands reach the pump in the order of the authority epochs: once a later
\* owner's command has run, nothing an earlier owner sent still runs, even if
\* it was queued or in flight when authority moved.
EpochsInOrder == ~ran.late

\* An authority epoch names one owner: no sequence of requests, heartbeats,
\* releases, expiries and reconnections puts two machines into one epoch.
EpochNamesHolder == Cardinality(owners) <= 1

\* Communication does not move authority: while its lease has not expired a
\* machine loses it only by releasing it, to a machine that may preempt it, or
\* with the session (argus_mqtt_session_disconnect keeps the lease).
LeaseKept ==
    [][ /\ core.holder # Nobody /\ age # "expired" /\ core'.session = core.session
        => \/ core'.holder = core.holder
           \/ /\ core'.epoch = core.epoch + 1 /\ queue # <<>>
              /\ \/ Head(queue).kind = "release" /\ Head(queue).from = core.holder
                 \/ MayPreempt(core'.holder, core.holder) /\ Head(queue).from = core'.holder ]_vars

\* A holder that falls silent loses the lease: argus_mqtt_runtime_tick ends it,
\* unless a message of its own renews it or the broker stops.
LeaseExpires ==
    [](core.holder # Nobody => <>(core.holder = Nobody \/ age = "fresh" \/ ~Running))

\* Commands of a departed connection are not accepted any more once its
\* disconnection was handled, as argus_mqtt_session_disconnect's comment says.
DepartedStopsCommanding ==
    [][ task.at = "idle" /\ task'.at = "admitted" /\ Running
        => conns[task'.m.conn] # Nobody \/ task'.m.conn \in leaving ]_vars
=============================================================================
