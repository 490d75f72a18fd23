---------------------------- MODULE Publications ----------------------------
(***************************************************************************)
(* What the pump tells its MQTT clients: the runtime's publications        *)
(* (argus_mqtt_runtime.c) and the broker's retained store, subscriptions   *)
(* and deliveries (argus_mqtt_broker.c, argus_mqtt_security.c).            *)
(*                                                                         *)
(* Two tasks publish: the status task once a second and the runtime task   *)
(* for each event of its queue. A publication stores the retained value    *)
(* and collects the subscribers' sockets under client_lock and sends after *)
(* it is released; a subscription is entered under the lock, then every    *)
(* retained value is copied under the lock and sent outside it. Two global *)
(* caches decide whether a condition is published at all; no lock guards   *)
(* them.                                                                   *)
(*                                                                         *)
(* Of the topics one is kept of each kind: mode stands for what every      *)
(* cycle publishes, fault for the conditions published on change only.     *)
(* Left out are the answers, which are not retained, and the values of the *)
(* authority, which are published when they change and with a baseline.    *)
(* A client is its descriptor: the next connection may get the same one.   *)
(***************************************************************************)
EXTENDS Naturals, Sequences, FiniteSets

CONSTANTS
    Clients,       \* descriptors of connected clients
    SubscribeRequests,   \* the sets of filters a client may ask for
    MaxSubs,       \* ARGUS_MQTT_MAX_SUBS_PER_CLIENT
    RetainedCapacity,    \* ARGUS_MQTT_BROKER_RETAINED_CAPACITY
    QueueLength,   \* ARGUS_MQTT_RUNTIME_QUEUE_DEPTH
    MaxEvents,     \* changes of the machine and the network, and commands
    MaxConnects,   \* connections in a behaviour
    MaxStarts      \* starts of the broker in a behaviour

RetainedTopics == {"mode", "fault"}
Tasks == {"status", "runtime"}

ASSUME PublicationsAssumption ==
    /\ {MaxSubs, QueueLength, MaxStarts} \subseteq Nat \ {0}
    /\ {MaxEvents, MaxConnects, RetainedCapacity} \subseteq Nat
    /\ RetainedCapacity >= Cardinality(RetainedTopics)   \* the code's _Static_assert

VARIABLES
    world,     \* what there is to tell: the machine and the network
    running,   \* the broker is RUNNING
    started,   \* argus_mqtt_runtime_broker_started was called since the start
    retained,  \* s_broker.retained, the value of each topic
    client,    \* the session of each descriptor
    cache,     \* s_last_network_fault
    queue,     \* s_runtime.queue
    task,      \* the publishing tasks
    left,      \* what the bounds still allow
    got,       \* topics whose current value each client was sent (history)
    settled    \* how far a cycle has come since the last change (history)

vars == <<world, running, started, retained, client, cache, queue, task, left, got, settled>>
brokerVars == <<running, started, retained, client, got>>

\* Payloads are numbers: a version of the mode, or a condition.
None == 0
Clear == 1
Conflict == 2
NoMessage == [topic |-> "none", value |-> None]

\* argus_mqtt_session_t, and how far the client's task is in a SUBSCRIBE: the
\* topics still to be looked at, the copy about to be sent; mode is the last one sent.
Unconnected == [up |-> FALSE, subs |-> {}, replay |-> {}, copy |-> NoMessage,
                mode |-> None]
\* Where a task is, what it will publish next, and what it is sending to whom.
IdleTask == [at |-> "idle", fault |-> None, todo |-> NoMessage,
             message |-> NoMessage, to |-> {}]

Init ==
    /\ world = [mode |-> 1, conflict |-> FALSE]
    /\ running = FALSE /\ started = FALSE
    /\ retained = [t \in RetainedTopics |-> None]
    /\ client = [c \in Clients |-> Unconnected]
    /\ cache = None /\ queue = <<>>
    /\ task = [k \in Tasks |-> IdleTask]
    /\ left = [events |-> MaxEvents, connects |-> MaxConnects, starts |-> MaxStarts]
    /\ got = [c \in Clients |-> {}]
    /\ settled = "no"

---------------------------------------------------------------------------
(* Topics and filters.                                                     *)

\* argus_mqtt_topics_build: the category under the unit's root.
Category(t) == IF t = "mode" THEN "state" ELSE "status"

\* approved_read_filter: a whole category or one topic of it, never the
\* commands, never a wildcard inside a path.
ApprovedReadFilter(f) ==
    f.category \in {"metadata", "state", "status", "telemetry", "event"} /\ f.leaf # "+"

\* argus_mqtt_topic_matches, on approved filters.
TopicMatches(f, t) == f.category = Category(t) /\ f.leaf \in {"#", t}

\* broker_subscribe_policy_cb: one filter that is not allowed refuses them all.
SubscriptionAllowed(filters) == \A f \in filters : ApprovedReadFilter(f)

Subscribed(c, t) == client[c].up /\ \E f \in client[c].subs : TopicMatches(f, t)

---------------------------------------------------------------------------
(* The broker: storing, collecting, sending.                               *)

\* A topic has a slot of the retained store, or there is a free one.
HasSlot(t) ==
    \/ retained[t] # None
    \/ Cardinality({u \in RetainedTopics : retained[u] # None}) < RetainedCapacity

\* The first value of a topic stays.
StoreRetainedMutant(m) ==
    IF retained[m.topic] = None THEN [retained EXCEPT ![m.topic] = m.value] ELSE retained

\* argus_mqtt_store_retained_locked.
StoreRetained(m) == [retained EXCEPT ![m.topic] = m.value]

\* A client that is being sent the retained values is left out.
CollectMutant(t) == {c \in Clients : Subscribed(c, t) /\ client[c].replay = {}}

\* argus_mqtt_collect_subscribers_locked.
Collect(t) == {c \in Clients : Subscribed(c, t)}

\* A message reaches whatever connection has the descriptor now.
Sent(c, m, replayed) ==
    IF client[c].up
    THEN /\ client' = [client EXCEPT ![c].copy = IF replayed THEN NoMessage ELSE @,
                                     ![c].mode = IF m.topic = "mode" THEN m.value ELSE @]
         /\ got' = IF retained[m.topic] = m.value THEN [got EXCEPT ![c] = @ \cup {m.topic}] ELSE got
    ELSE UNCHANGED <<client, got>>

\* A task that has published and sent everything is idle again.
Continue(k, next) ==
    task' = [task EXCEPT ![k] = IF next.at = "done" /\ next.todo = NoMessage /\ next.to = {}
                                THEN IdleTask ELSE next]

\* argus_mqtt_broker_publish up to the release of client_lock: nothing happens
\* unless the broker runs, or when the retained store is full.
Publish(k) ==
    /\ task[k].to = {} /\ task[k].todo # NoMessage
    /\ LET m == task[k].todo
           stored == running /\ HasSlot(m.topic)
           to == IF stored THEN Collect(m.topic) ELSE {}
       IN  /\ retained' = IF stored THEN StoreRetained(m) ELSE retained
           /\ got' = IF retained' = retained THEN got
                     ELSE [c \in Clients |-> got[c] \ {m.topic}]
           /\ Continue(k, [task[k] EXCEPT !.todo = NoMessage, !.to = to,
                                          !.message = IF to = {} THEN NoMessage ELSE m])
    /\ UNCHANGED <<world, running, started, client, cache, queue, left>>

\* argus_mqtt_deliver_to_sockets: one send.
Deliver(k) ==
    \E c \in task[k].to :
        /\ Continue(k, [task[k] EXCEPT !.to = @ \ {c},
                                       !.message = IF task[k].to = {c} THEN NoMessage ELSE @])
        /\ Sent(c, task[k].message, FALSE)
        /\ UNCHANGED <<world, running, started, retained, cache, queue, left>>

---------------------------------------------------------------------------
(* Clients.                                                                *)

\* The queue takes an event or, when it is full, drops it.
Enqueue(event) == queue' = IF Len(queue) < QueueLength THEN Append(queue, event) ELSE queue

\* A client was admitted: broker_client_cb asks for a baseline.
Connect(c) ==
    /\ running /\ ~client[c].up /\ left.connects > 0
    /\ client' = [client EXCEPT ![c] = [Unconnected EXCEPT !.up = TRUE]]
    /\ got' = [got EXCEPT ![c] = {}]
    /\ Enqueue("baseline")
    /\ left' = [left EXCEPT !.connects = @ - 1]
    /\ UNCHANGED <<world, running, started, retained, cache, task>>

\* argus_mqtt_handle_subscribe, its critical section, after policy and
\* revalidation.  Too many filters end the connection, as Disconnect does.
Subscribe(c) ==
    \E filters \in SubscribeRequests :
        /\ client[c].up /\ client[c].replay = {} /\ client[c].copy = NoMessage
        /\ SubscriptionAllowed(filters)
        /\ Cardinality(client[c].subs) + Cardinality(filters) <= MaxSubs
        /\ client' = [client EXCEPT ![c].subs = @ \cup filters,
                                    ![c].replay = {t \in RetainedTopics :
                                                      \E f \in filters : TopicMatches(f, t)}]
        /\ UNCHANGED <<world, running, started, retained, cache, queue, task, left, got>>

\* The loop over the retained store: a copy under the lock, in any order of slots;
ReplayCopy(c) ==
    \E t \in client[c].replay :
        /\ client[c].copy = NoMessage
        /\ client' = [client EXCEPT ![c].replay = @ \ {t},
                         ![c].copy = IF retained[t] = None THEN NoMessage
                                     ELSE [topic |-> t, value |-> retained[t]]]
        /\ UNCHANGED <<world, running, started, retained, cache, queue, task, left, got>>

\* and its sending.
ReplaySend(c) ==
    /\ client[c].copy # NoMessage
    /\ Sent(c, client[c].copy, TRUE)
    /\ UNCHANGED <<world, running, started, retained, cache, queue, task, left>>

\* broker_message_cb: a command.
Message(c) ==
    /\ client[c].up /\ client[c].replay = {} /\ client[c].copy = NoMessage
    /\ left.events > 0 /\ left' = [left EXCEPT !.events = @ - 1]
    /\ Enqueue("command")
    /\ UNCHANGED <<world, running, started, retained, client, cache, task, got>>

\* The connection ends: its slot and its descriptor are free.
Disconnect(c) ==
    /\ client[c].up
    /\ client' = [client EXCEPT ![c] = Unconnected] /\ got' = [got EXCEPT ![c] = {}]
    /\ UNCHANGED <<world, running, started, retained, cache, queue, task, left>>

---------------------------------------------------------------------------
(* The runtime: what is published, and in which order.                     *)

Idle(k) == task[k] = IdleTask
Ready(k, at) == task[k].at = at /\ task[k].todo = NoMessage /\ task[k].to = {}
Say(t, v) == [topic |-> t, value |-> v]
Goto(k, at, todo) == Continue(k, [task[k] EXCEPT !.at = at, !.todo = todo])

\* publish_operational_snapshot, up to the conditions.
PublishOperationalSnapshot(k) ==
    /\ Ready(k, "snapshot")
    /\ Goto(k, "conditions", Say("mode", world.mode))
    /\ UNCHANGED <<world, cache, queue, left>> /\ UNCHANGED brokerVars

\* publish_admission_conditions with publish_on_change: the condition is read and
\* compared with the cache,
PublishConditions(k) ==
    /\ Ready(k, "conditions")
    /\ LET fault == IF world.conflict THEN Conflict ELSE Clear
       IN  IF cache = fault THEN Goto(k, "done", NoMessage)
           ELSE task' = [task EXCEPT ![k].at = "write", ![k].fault = fault]
    /\ UNCHANGED <<world, cache, queue, left>> /\ UNCHANGED brokerVars

\* which is then written, and the condition published.
PublishOnChange(k) ==
    /\ Ready(k, "write")
    /\ cache' = task[k].fault
    /\ Goto(k, "done", Say("fault", task[k].fault))
    /\ UNCHANGED <<world, queue, left>> /\ UNCHANGED brokerVars

\* The caches are kept.
PublishBaselineMutant ==
    /\ Idle("runtime") /\ queue # <<>> /\ Head(queue) = "baseline"
    /\ queue' = Tail(queue)
    /\ Goto("runtime", "snapshot", NoMessage)
    /\ UNCHANGED <<world, cache, left>> /\ UNCHANGED brokerVars

\* runtime_task with publish_baseline: the caches are reset, then everything is
\* published.
PublishBaseline ==
    /\ Idle("runtime") /\ queue # <<>> /\ Head(queue) = "baseline"
    /\ queue' = Tail(queue)
    /\ cache' = None
    /\ Goto("runtime", "snapshot", NoMessage)
    /\ UNCHANGED <<world, left>> /\ UNCHANGED brokerVars

\* handle_command: a dispatched command is followed by a snapshot, a rejected
\* one is only answered.
HandleCommand ==
    /\ Idle("runtime") /\ queue # <<>> /\ Head(queue) = "command"
    /\ queue' = Tail(queue)
    /\ UNCHANGED task \/ Goto("runtime", "snapshot", NoMessage)
    /\ UNCHANGED <<world, cache, left>> /\ UNCHANGED brokerVars

\* status_task with argus_mqtt_runtime_tick.
Tick ==
    /\ Idle("status") /\ running
    /\ Goto("status", "snapshot", NoMessage)
    /\ UNCHANGED <<world, cache, queue, left>> /\ UNCHANGED brokerVars

---------------------------------------------------------------------------
(* The machine, the network and the broker's life.                         *)

WorldChanges ==
    /\ left.events > 0 /\ left' = [left EXCEPT !.events = @ - 1]
    /\ \/ world' = [world EXCEPT !.mode = @ + 1]
       \/ world' = [world EXCEPT !.conflict = ~@]
    /\ UNCHANGED <<cache, queue, task>> /\ UNCHANGED brokerVars

\* argus_mqtt_runtime_prepare_start empties the queue, argus_mqtt_broker_start
\* the retained store.
Start ==
    /\ ~running /\ left.starts > 0 /\ left' = [left EXCEPT !.starts = @ - 1]
    /\ running' = TRUE /\ started' = FALSE
    /\ queue' = <<>> /\ retained' = [t \in RetainedTopics |-> None]
    /\ UNCHANGED <<world, client, cache, task, got>>

\* argus_mqtt_runtime_broker_started; that its event was dropped is only logged.
BrokerStarted ==
    /\ running /\ ~started /\ started' = TRUE
    /\ Enqueue("baseline")
    /\ UNCHANGED <<world, running, retained, client, cache, task, left, got>>

\* argus_mqtt_broker_stop takes every client with it; the last start stays.
Stop ==
    /\ running /\ left.starts > 0 /\ running' = FALSE
    /\ client' = [c \in Clients |-> Unconnected] /\ got' = [c \in Clients |-> {}]
    /\ UNCHANGED <<world, started, retained, cache, queue, task, left>>

---------------------------------------------------------------------------

Outdated == \E c \in Clients : client[c].copy.topic = "mode" /\ client[c].copy.value # world.mode

\* settled: after the last change every publication that was under way has
\* ended (clean), the status task has taken a snapshot (cycle) and sent it (yes),
\* with no old value on its way to a new subscriber.
Observe ==
    settled' =
        IF world'.mode # world.mode \/ left'.starts # left.starts THEN "no"
        ELSE CASE settled = "no" -> IF \A k \in Tasks : task'[k] = IdleTask THEN "clean" ELSE "no"
               [] settled = "clean" ->
                    IF /\ ~Outdated' /\ task["status"].at = "snapshot"
                       /\ task'["status"].at = "conditions"
                    THEN "cycle" ELSE "clean"
               [] settled = "cycle" ->
                    IF Outdated' THEN "clean"
                    ELSE IF task'["status"].todo = NoMessage /\ task'["status"].to = {}
                    THEN "yes" ELSE "cycle"
               [] OTHER -> settled

PublishStep(k) ==
    \/ Publish(k) \/ Deliver(k) \/ PublishOperationalSnapshot(k)
    \/ PublishConditions(k) \/ PublishOnChange(k)
ClientStep(c) ==
    Connect(c) \/ Subscribe(c) \/ ReplayCopy(c) \/ ReplaySend(c) \/ Message(c) \/ Disconnect(c)
Step ==
    \/ \E k \in Tasks : PublishStep(k)
    \/ \E c \in Clients : ClientStep(c)
    \/ PublishBaseline \/ HandleCommand \/ Tick
    \/ WorldChanges \/ Start \/ BrokerStarted \/ Stop

Next == Step /\ Observe

Spec == Init /\ [][Next]_vars

---------------------------------------------------------------------------

\* No retained value passes a subscriber by: once its SUBSCRIBE is answered it
\* was sent the value each of its topics has now, or a publisher is about to send
\* it, however publications and the replay of retained values interleave
\* (argus_mqtt_handle_subscribe enters the filters before it copies).
NothingMissed ==
    \A c \in Clients, t \in RetainedTopics :
        Subscribed(c, t) /\ t \notin client[c].replay /\ client[c].copy.topic # t
            /\ retained[t] # None
        => t \in got[c] \/ \E k \in Tasks : task[k].message.topic = t /\ c \in task[k].to

\* What every cycle publishes comes right: a publisher or a replay that was
\* overtaken leaves an old value behind for one cycle of the status task at most
\* (publish_operational_snapshot).
ModeCurrent ==
    settled = "yes" /\ running =>
        /\ retained["mode"] = world.mode
        /\ \A c \in Clients : Subscribed(c, "mode") /\ "mode" \notin client[c].replay
                                 /\ client[c].copy.topic # "mode" => client[c].mode = world.mode

\* A restart of the broker, which empties the retained store, never hides the
\* condition that is published on change only, even when the event of
\* broker_started was dropped: once the runtime has caught up it is there again
\* (publish_baseline resets the cache).
FaultRepublished ==
    running /\ started /\ queue = <<>> /\ (\A k \in Tasks : Idle(k)) => retained["fault"] # None
=============================================================================
