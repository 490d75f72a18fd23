----------------------------- MODULE MqttBroker -----------------------------
(***************************************************************************)
(* The embedded MQTT broker (argus_mqtt_broker.c): the server task that    *)
(* accepts connections, one task per client, the network manager that      *)
(* starts and stops it, and the HTTP handler that changes a machine's      *)
(* record and cuts its connections (argus_security_http.c with             *)
(* argus_mqtt_invalidation.c).  Each step is one critical section of       *)
(* client_lock or lifecycle_mutex, or the work between two of them.        *)
(*                                                                         *)
(* Connections are named by their connection_id, which is never reused;    *)
(* the table of slots is their number in use.  Descriptors are reused: the *)
(* stack hands out the lowest free one.                                    *)
(***************************************************************************)
EXTENDS MachineService, Sequences, TLC

CONSTANTS
    Machines,     \* identifiers of machines
    Sources,      \* peer addresses
    MaxClients,   \* ARGUS_MQTT_MAX_CLIENTS: sessions
    MaxPre,       \* ARGUS_MQTT_MAX_PRECONNECT
    MaxUnproven,  \* ARGUS_MQTT_MAX_PRECONNECT_UNPROVEN
    Fds,          \* descriptors the stack can hand out
    Capacity,     \* ARGUS_MQTT_INVALIDATION_HISTORY_CAPACITY
    MaxConn,      \* connections in a behaviour
    MaxStarts,    \* starts of the broker in a behaviour
    MaxMachines,  \* ARGUS_SECURITY_MAX_MACHINES
    MaxChanges    \* administrative changes in a behaviour

ASSUME MqttBrokerAssumption ==
    /\ {MaxClients, MaxPre, Capacity, MaxConn, MaxStarts, MaxMachines} \subseteq Nat \ {0}
    /\ MaxChanges \in Nat /\ MaxUnproven \in 0 .. MaxPre
    /\ Fds \subseteq Nat \ {0} /\ Fds # {}

VARIABLES
    state,      \* s_broker.state
    listener,   \* s_broker.listen_sock >= 0
    server,     \* the server task: where it is, and the connection in its hands
    signal,     \* an exited server task has still to set STOPPED
    bits,       \* s_broker.lifecycle_event_group
    count,      \* s_broker.active_client_count
    starts,     \* starts so far
    nconn,      \* s_broker.next_connection_id
    client,     \* the client record and task of each connection
    fds,        \* the connection behind each descriptor, 0 when it is free
    journal,    \* s_broker.invalidations
    mgr,        \* the network manager's task in broker_start or broker_stop
    dir,        \* the machine directory
    known,      \* the credentials that left the device
    admin,      \* the HTTP handler's task
    changes,    \* administrative changes so far
    hit         \* connections for which a descriptor was shut down or closed
                \* that was no longer theirs (history)

vars == <<state, listener, server, signal, bits, count, starts, nconn, client, fds, journal,
          mgr, dir, known, admin, changes, hit>>
brokerVars == <<state, listener, server, signal, bits, starts, nconn, mgr>>
adminVars == <<dir, known, admin, changes>>

Symmetry == Permutations(Machines)

ConnIds == 1 .. MaxConn
MaxConnections == MaxClients + MaxPre
NoPrincipal == [id |-> "none", cred |-> 0, rev |-> 0]

\* argus_mqtt_client_t, with the task that owns it: not created yet ("new"),
\* reading its socket, in authenticate, authenticated, bound, handling a packet,
\* closing, leaving, gone; "untasked" when it could not be created.
Fresh == [at |-> "none", inUse |-> FALSE, connected |-> FALSE, invalidated |-> FALSE,
          claimed |-> FALSE, sock |-> 0, shut |-> FALSE, peer |-> 0, principal |-> NoPrincipal,
          offer |-> 0, captured |-> 0]

Idle == [at |-> "idle", m |-> "none", op |-> "none", targets |-> {}]

Init ==
    /\ state = "STOPPED" /\ listener = FALSE /\ server = [at |-> "none", fd |-> 0]
    /\ signal = FALSE /\ bits = {} /\ count = 0 /\ starts = 0 /\ nconn = 0
    /\ client = [c \in ConnIds |-> Fresh] /\ fds = [d \in Fds |-> 0]
    /\ journal = [gen |-> 0, events |-> [i \in 0 .. Capacity - 1 |-> <<0, "none">>]]
    /\ mgr = [at |-> "idle", taken |-> {}]
    /\ dir \in [Machines -> {Absent, Enroll, Revoke(Enroll)}] /\ \E m \in Machines : dir[m] = Enroll
    /\ known = [m \in Machines |-> IF dir[m].there THEN {1} ELSE {}]
    /\ admin = Idle /\ changes = 0 /\ hit = {}

---------------------------------------------------------------------------
(* The invalidation journal and the questions asked under client_lock.     *)

\* argus_mqtt_invalidation_record.
InvalidationRecord(m) ==
    [gen |-> journal.gen + 1,
     events |-> [journal.events EXCEPT ![journal.gen % Capacity] = <<journal.gen + 1, m>>]]

\* argus_mqtt_invalidation_since: what the ring no longer holds counts as hit.
InvalidationSince(m, captured) ==
    /\ journal.gen # captured
    /\ \/ journal.gen < captured \/ journal.gen - captured > Capacity
       \/ \E g \in captured + 1 .. journal.gen :
             LET e == journal.events[(g - 1) % Capacity] IN e[1] # g \/ e[2] = m

\* argus_mqtt_client_admitted_locked.
Admitted(c) == client[c].inUse /\ client[c].connected /\ ~client[c].invalidated

\* argus_mqtt_duplicate_client_id_locked: the client id is the identifier.
DuplicateClientId(c) ==
    \E d \in ConnIds \ {c} : /\ client[d].inUse /\ client[d].connected
                             /\ client[d].principal.id = client[c].principal.id

\* The journal is not asked.
BindAllowedMutant(c) ==
    /\ client[c].inUse /\ ~client[c].connected /\ ~client[c].invalidated
    /\ ~DuplicateClientId(c)

\* argus_mqtt_bind_allowed_locked.
BindAllowed(c) ==
    /\ client[c].inUse /\ ~client[c].connected /\ ~client[c].invalidated
    /\ ~DuplicateClientId(c)
    /\ ~InvalidationSince(client[c].principal.id, client[c].captured)

\* argus_mqtt_disconnect_matches_locked.
DisconnectMatches(c, m) ==
    client[c].inUse /\ client[c].connected /\ client[c].sock # 0 /\ client[c].principal.id = m

\* argus_mqtt_occupancy_locked.
Pending == {c \in ConnIds : client[c].inUse /\ ~client[c].connected}
Authenticated == {c \in ConnIds : client[c].inUse /\ client[c].connected}

\* argus_mqtt_broker_preconnect_decide; whether a source is proven is not known here.
PreconnectAdmit(source, proven) ==
    /\ Cardinality(Pending) < MaxPre
    /\ Cardinality(Pending) >= MaxUnproven => proven
    /\ \A c \in Pending : client[c].peer # source

\* argus_mqtt_broker_observation_is_stopped and _is_running.
ObservedStopped == state = "STOPPED" /\ server.at = "none" /\ ~listener /\ count = 0
ObservedRunning == state = "RUNNING" /\ server.at # "none" /\ listener

---------------------------------------------------------------------------
(* The server task.                                                        *)

ServerExits ==
    /\ server' = [at |-> "none", fd |-> 0] /\ signal' = TRUE
    /\ UNCHANGED <<bits, count, starts, nconn, client, journal, mgr, hit>> /\ UNCHANGED adminVars

\* argus_mqtt_server_task until it listens; the socket calls may fail.
ServerListen ==
    /\ server.at = "boot"
    /\ \/ /\ state = "STARTING" /\ state' = "RUNNING" /\ listener' = TRUE
          /\ bits' = bits \cup {"STARTED"} /\ server' = [server EXCEPT !.at = "accept"]
          /\ UNCHANGED <<signal, count, starts, nconn, client, fds, journal, mgr, hit>>
          /\ UNCHANGED adminVars
       \/ ServerExits /\ UNCHANGED <<state, listener, fds>>

\* accept returns a connection, on the lowest free descriptor.
ServerAccept ==
    /\ server.at = "accept" /\ listener /\ nconn < MaxConn
    /\ \E d \in Fds :
          /\ fds[d] = 0 /\ \A e \in Fds : fds[e] = 0 => d <= e
          /\ server' = [at |-> "accepted", fd |-> d]
          /\ fds' = [fds EXCEPT ![d] = nconn + 1]
    /\ UNCHANGED <<state, listener, signal, bits, count, starts, nconn, client, journal, mgr, hit>>
    /\ UNCHANGED adminVars

\* The count is stored, not added to.
ServerCountMutant ==
    /\ server.at = "accepted" /\ state = "RUNNING"
    /\ count' = 1 /\ server' = [server EXCEPT !.at = "counted"]
    /\ UNCHANGED <<state, listener, signal, bits, starts, nconn, client, fds, journal, mgr, hit>>
    /\ UNCHANGED adminVars

\* The check that the broker still runs, and the count.
ServerCount ==
    /\ server.at = "accepted" /\ state = "RUNNING"
    /\ count' = count + 1 /\ server' = [server EXCEPT !.at = "counted"]
    /\ UNCHANGED <<state, listener, signal, bits, starts, nconn, client, fds, journal, mgr, hit>>
    /\ UNCHANGED adminVars

\* argus_mqtt_alloc_client_locked: from here on the record, with its socket, is
\* seen by argus_mqtt_broker_stop; refused, the connection is closed again.
ServerAllocate ==
    /\ server.at = "counted"
    /\ \/ /\ \E s \in Sources, proven \in BOOLEAN :
                /\ PreconnectAdmit(s, proven)
                /\ client' = [client EXCEPT ![nconn + 1] =
                      [Fresh EXCEPT !.at = "new", !.inUse = TRUE, !.sock = server.fd, !.peer = s]]
          /\ nconn' = nconn + 1 /\ server' = [server EXCEPT !.at = "create"]
          /\ UNCHANGED <<fds, count>>
       \/ /\ fds' = [fds EXCEPT ![server.fd] = 0] /\ count' = count - 1
          /\ server' = [at |-> "accept", fd |-> 0]
          /\ UNCHANGED <<client, nconn>>
    /\ UNCHANGED <<state, listener, signal, bits, starts, journal, mgr, hit>>
    /\ UNCHANGED adminVars

\* xTaskCreate; without memory for the task the record is released again.
ServerCreate ==
    /\ server.at = "create"
    /\ \/ /\ client' = [client EXCEPT ![nconn].at = "read"]
          /\ server' = [at |-> "accept", fd |-> 0]
       \/ /\ client' = [client EXCEPT ![nconn] = [Fresh EXCEPT !.at = "untasked"]]
          /\ server' = [server EXCEPT !.at = "undo"]
    /\ UNCHANGED <<state, listener, signal, bits, count, starts, nconn, fds, journal, mgr, hit>>
    /\ UNCHANGED adminVars

\* Outside the lock the count and the socket follow: close acts on the server's
\* own copy of the descriptor, which a stop may have taken out of the record.
ServerUndo ==
    /\ server.at = "undo" /\ server' = [at |-> "accept", fd |-> 0]
    /\ count' = count - 1 /\ fds' = [fds EXCEPT ![server.fd] = 0]
    /\ hit' = hit \cup {c \in {nconn} : fds[server.fd] # c}
    /\ UNCHANGED <<state, listener, signal, bits, starts, nconn, client, journal, mgr>>
    /\ UNCHANGED adminVars

\* The loop ends when the broker does not run or the listener is gone.
ServerStop ==
    /\ server.at \in {"accept", "accepted"} /\ (state # "RUNNING" \/ (server.at = "accept" /\ ~listener))
    /\ fds' = IF server.fd = 0 THEN fds ELSE [fds EXCEPT ![server.fd] = 0]
    /\ ServerExits /\ UNCHANGED <<state, listener>>

\* The STOPPED bit follows the handle's reset outside the lock.
ServerSignal ==
    /\ signal /\ signal' = FALSE /\ bits' = bits \cup {"STOPPED"}
    /\ UNCHANGED <<state, listener, server, count, starts, nconn, client, fds, journal, mgr, hit>>
    /\ UNCHANGED adminVars

---------------------------------------------------------------------------
(* A client's task.                                                        *)

ClientStep(c, r) ==
    /\ client' = [client EXCEPT ![c] = r]
    /\ UNCHANGED <<count, fds, journal, hit>> /\ UNCHANGED brokerVars /\ UNCHANGED adminVars
Close(c) ==
    ClientStep(c, [client[c] EXCEPT !.at = "closing", !.offer = 0, !.captured = 0,
                      !.principal = IF client[c].connected THEN @ ELSE NoPrincipal])

\* recv delivers a packet only on a socket that is open and not shut down.
Readable(c) == client[c].at = "read" /\ client[c].sock # 0 /\ ~client[c].shut

\* recv fails, the peer leaves, a deadline passes or the packet is not allowed.
ReadFails(c) == client[c].at = "read" /\ Close(c)

\* argus_mqtt_handle_connect up to the call of authenticate.
Connect(c) ==
    /\ Readable(c) /\ ~client[c].connected /\ ~client[c].invalidated
    /\ \E m \in Machines : \E k \in known[m] :
          ClientStep(c, [client[c] EXCEPT !.at = "auth", !.captured = journal.gen, !.offer = k,
                                          !.principal = [NoPrincipal EXCEPT !.id = m]])

\* broker_auth_cb: found, verified, or throttled, which also is a refusal.
Authenticate(c) ==
    /\ client[c].at = "auth"
    /\ LET m == client[c].principal.id
       IN  \/ /\ Authenticates(dir[m], client[c].offer)
              /\ ClientStep(c, [client[c] EXCEPT !.at = "verified", !.offer = 0,
                                  !.principal = PrincipalFromRecord(m, dir[m])])
           \/ Close(c)

\* argus_mqtt_handle_connect, its second critical section: bind, with a session.
Bind(c) ==
    /\ client[c].at = "verified"
    /\ IF BindAllowed(c) /\ Cardinality(Authenticated) < MaxClients
       THEN ClientStep(c, [client[c] EXCEPT !.at = "bound", !.connected = TRUE,
                                            !.captured = 0, !.peer = 0])
       ELSE Close(c)

\* The CONNACK is sent and the admission checked again.
Acknowledge(c) ==
    /\ client[c].at = "bound"
    /\ \/ Admitted(c) /\ ClientStep(c, [client[c] EXCEPT !.at = "read"])
       \/ Close(c)

\* argus_mqtt_client_task: PUBLISH and SUBSCRIBE are revalidated first.
Packet(c) ==
    /\ Readable(c) /\ client[c].connected
    /\ IF Admitted(c) /\ Revalidate(dir[client[c].principal.id], client[c].principal)
       THEN ClientStep(c, [client[c] EXCEPT !.at = "packet"])
       ELSE Close(c)

\* argus_mqtt_handle_publish and _subscribe: revalidated again, then admitted
\* under the lock; topics, retained messages and deliveries are left out.
HandlePacket(c) ==
    /\ client[c].at = "packet"
    /\ IF Admitted(c) /\ Revalidate(dir[client[c].principal.id], client[c].principal)
       THEN ClientStep(c, [client[c] EXCEPT !.at = "read"])
       ELSE Close(c)

\* The claim is not waited for.
CloseClientMutant(c) ==
    /\ client[c].at = "closing"
    /\ ClientStep(c, [Fresh EXCEPT !.at = "leaving", !.sock = client[c].sock])

\* argus_mqtt_close_client, its critical section: it waits while claimed.
CloseClient(c) ==
    /\ client[c].at = "closing" /\ ~client[c].claimed
    /\ ClientStep(c, [Fresh EXCEPT !.at = "leaving", !.sock = client[c].sock])

\* The rest of argus_mqtt_close_client: close, tell the runtime, count down.
Leave(c) ==
    /\ client[c].at = "leaving"
    /\ client' = [client EXCEPT ![c] = [Fresh EXCEPT !.at = "gone"]]
    /\ fds' = [d \in Fds |-> IF d = client[c].sock THEN 0 ELSE fds[d]]
    /\ hit' = hit \cup {d \in {c} : client[c].sock # 0 /\ fds[client[c].sock] # c}
    /\ count' = count - 1 /\ bits' = IF count = 1 THEN bits \cup {"CLIENTS_EXITED"} ELSE bits
    /\ UNCHANGED <<state, listener, server, signal, starts, nconn, journal, mgr>>
    /\ UNCHANGED adminVars

---------------------------------------------------------------------------
(* Start and stop, on the network manager's task.                          *)

MgrStep(at) == mgr' = [at |-> at, taken |-> {}]

\* argus_mqtt_broker_start: everything is reset and the server task created.
\* A start after one that timed out comes after a stop here.
Start ==
    /\ mgr.at = "idle" /\ ObservedStopped /\ starts < MaxStarts
    /\ starts' = starts + 1 /\ state' = "STARTING" /\ listener' = FALSE /\ count' = 0
    /\ client' = [c \in ConnIds |-> IF client[c].at \in {"gone", "untasked"} THEN client[c]
                                                                                ELSE Fresh]
    /\ journal' = [gen |-> 0, events |-> [i \in 0 .. Capacity - 1 |-> <<0, "none">>]]
    /\ bits' = {} /\ server' = [at |-> "boot", fd |-> 0] /\ MgrStep("starting")
    /\ UNCHANGED <<signal, nconn, fds, hit>> /\ UNCHANGED adminVars

\* The wait for STARTED or STOPPED ends, or times out.
StartEnds ==
    /\ mgr.at = "starting"
    /\ \/ "STARTED" \in bits /\ MgrStep("idle") /\ UNCHANGED <<state, listener>>
       \/ /\ "STARTED" \notin bits /\ "STOPPED" \in bits
          /\ state' = "STOPPED" /\ MgrStep("idle") /\ UNCHANGED listener
       \/ /\ bits \cap {"STARTED", "STOPPED"} = {}
          /\ state' = "STOPPING" /\ listener' = FALSE /\ MgrStep("startWait")
    /\ UNCHANGED <<server, signal, bits, count, starts, nconn, client, fds, journal, hit>>
    /\ UNCHANGED adminVars

StartTimedOut ==
    /\ mgr.at = "startWait" /\ MgrStep("idle")
    /\ state' = IF "STOPPED" \in bits THEN "STOPPED" ELSE state
    /\ UNCHANGED <<listener, server, signal, bits, count, starts, nconn, client, fds, journal, hit>>
    /\ UNCHANGED adminVars

\* argus_mqtt_broker_stop: the listener is closed.
Stop ==
    /\ mgr.at = "idle" /\ ~ObservedStopped
    /\ bits' = {} /\ state' = "STOPPING" /\ listener' = FALSE
    /\ MgrStep(IF server.at # "none" THEN "sweepServer" ELSE "sweep")
    /\ UNCHANGED <<server, signal, count, starts, nconn, client, fds, journal, hit>>
    /\ UNCHANGED adminVars

\* It waits for claims, then takes every client's socket.
Sweep ==
    /\ mgr.at \in {"sweep", "sweepServer"} /\ \A c \in ConnIds : ~client[c].claimed
    /\ mgr' = [at |-> IF mgr.at = "sweep" THEN "clients" ELSE "server",
               taken |-> {<<c, client[c].sock>> : c \in {c \in ConnIds : client[c].inUse
                                                                      /\ client[c].sock # 0}}]
    /\ client' = [c \in ConnIds |-> IF client[c].inUse THEN [client[c] EXCEPT !.sock = 0]
                                                       ELSE client[c]]
    /\ UNCHANGED <<state, listener, server, signal, bits, count, starts, nconn, fds, journal, hit>>
    /\ UNCHANGED adminVars

\* The sockets are shut down and closed outside the lock.
CloseSockets ==
    /\ mgr.taken # {} /\ mgr' = [mgr EXCEPT !.taken = {}]
    /\ fds' = [d \in Fds |-> IF \E t \in mgr.taken : t[2] = d THEN 0 ELSE fds[d]]
    /\ hit' = hit \cup {c \in ConnIds : \E t \in mgr.taken : t[1] = c /\ fds[t[2]] # c}
    /\ UNCHANGED <<state, listener, server, signal, bits, count, starts, nconn, client, journal>>
    /\ UNCHANGED adminVars

\* The waits for the server task and for the clients, each with a timeout.
StopWaits ==
    /\ mgr.at \in {"server", "clients"} /\ mgr.taken = {}
    /\ \/ mgr.at = "server" /\ "STOPPED" \in bits /\ MgrStep("clients")
       \/ mgr.at = "clients" /\ (count <= 0 \/ "CLIENTS_EXITED" \in bits) /\ MgrStep("decide")
       \/ MgrStep("idle")
    /\ UNCHANGED <<state, listener, server, signal, bits, count, starts, nconn, client, fds,
                   journal, hit>>
    /\ UNCHANGED adminVars

\* STOPPED is only said of a broker without server, listener and clients.
StopDecides ==
    /\ mgr.at = "decide" /\ MgrStep("idle")
    /\ state' = IF server.at = "none" /\ ~listener /\ count = 0 THEN "STOPPED" ELSE state
    /\ UNCHANGED <<listener, server, signal, bits, count, starts, nconn, client, fds, journal, hit>>
    /\ UNCHANGED adminVars

---------------------------------------------------------------------------
(* A machine's record is changed, on the HTTP server's task.               *)

AdminStep(at) == admin' = [admin EXCEPT !.at = at, !.targets = {}]

\* argus_mqtt_broker_fence_machine_authentication.
FenceMachine(m) ==
    /\ journal' = InvalidationRecord(m)
    /\ client' = [c \in ConnIds |-> [client[c] EXCEPT
                     !.invalidated = @ \/ DisconnectMatches(c, m)]]

\* machine_action_post: the fence comes first.
ActionFence ==
    /\ admin.at = "idle" /\ changes < MaxChanges /\ changes' = changes + 1
    /\ \E m \in Machines, op \in Operations :
          FenceMachine(m) /\ admin' = [at |-> "fenced", m |-> m, op |-> op, targets |-> {}]
    /\ UNCHANGED <<count, fds, hit, dir, known>> /\ UNCHANGED brokerVars

\* The change itself, one commit of the directory, which may be refused.
ActionMutate ==
    /\ admin.at = "fenced"
    /\ \/ /\ MutableTarget(admin.op, dir[admin.m])
          /\ admin' = [admin EXCEPT !.at = "committed",
                                    !.op = IF @ = "rotate" THEN "secret" ELSE "other"]
          /\ dir' = [dir EXCEPT ![admin.m] = Mutate(admin.op, @)]
       \/ admin' = Idle /\ UNCHANGED dir
    /\ UNCHANGED <<count, fds, hit, client, journal, known, changes>> /\ UNCHANGED brokerVars

\* argus_mqtt_broker_disconnect_machine: a fence of its own,
DisconnectFence ==
    /\ admin.at \in {"committed", "quarantined"} /\ FenceMachine(admin.m)
    /\ AdminStep(IF admin.at = "committed" THEN "claim" ELSE "reclaim")
    /\ UNCHANGED <<count, fds, hit, dir, known, changes>> /\ UNCHANGED brokerVars

\* the claim of each matching client,
DisconnectClaim ==
    /\ admin.at \in {"claim", "reclaim"}
    /\ LET hits == {c \in ConnIds : DisconnectMatches(c, admin.m)}
       IN  /\ client' = [c \in ConnIds |-> IF c \in hits
                            THEN [client[c] EXCEPT !.invalidated = TRUE, !.claimed = TRUE]
                            ELSE client[c]]
           /\ admin' = [admin EXCEPT !.at = IF @ = "claim" THEN "shutdown" ELSE "reshutdown",
                                     !.targets = {<<c, client[c].sock>> : c \in hits}]
    /\ UNCHANGED <<count, fds, hit, journal, dir, known, changes>> /\ UNCHANGED brokerVars

\* shutdown of its socket outside the lock and the release of the claim
\* (argus_mqtt_release_disconnect_claim_locked).
DisconnectShutdown ==
    /\ admin.at \in {"shutdown", "reshutdown"}
    /\ hit' = hit \cup {c \in ConnIds : \E t \in admin.targets : t[1] = c /\ fds[t[2]] # c}
    /\ client' = [c \in ConnIds |->
                     [client[c] EXCEPT
                         !.shut = @ \/ \E t \in admin.targets : t[1] = c,
                         !.claimed = @ /\ ~(client[c].inUse /\ <<c, client[c].sock>> \in admin.targets)]]
    /\ AdminStep(IF admin.at = "shutdown" THEN "cut" ELSE "done")
    /\ UNCHANGED <<count, fds, journal, dir, known, changes>> /\ UNCHANGED brokerVars

\* machines_post: an identifier nobody had before, if there is room; nothing is
\* fenced, since no connection can be the new machine's.
EnrollMachine ==
    /\ admin.at = "idle" /\ changes < MaxChanges /\ changes' = changes + 1
    /\ Cardinality({m \in Machines : dir[m].there}) < MaxMachines
    /\ \E m \in Machines :
          /\ ~dir[m].there /\ known[m] = {}
          /\ dir' = [dir EXCEPT ![m] = Enroll]
          /\ admin' = [at |-> "cut", m |-> m, op |-> "secret", targets |-> {}]
    /\ UNCHANGED <<count, fds, hit, client, journal, known>> /\ UNCHANGED brokerVars

\* Its result is ignored: the commit may fail.
Quarantined(m) == {dir, [dir EXCEPT ![m] = Quarantine(@)]}

\* send_machine_credential_once: the secret leaves the device; when the answer
\* could not be sent it may have left, and the machine is quarantined and cut.
SendCredentialOnce ==
    LET m == admin.m
    IN  /\ known' = [known EXCEPT ![m] = @ \cup {dir[m].cred}]
        /\ \/ admin' = Idle /\ UNCHANGED dir
           \/ AdminStep("quarantined") /\ dir' \in Quarantined(m)

\* The audit's end, and the new secret of an enrolment or a rotation: when the
\* terminal record failed, the machine is quarantined and the secret stays.
ActionFinish ==
    /\ admin.at \in {"cut", "done"}
    /\ \/ /\ admin.op # "secret" \/ admin.at = "done"
          /\ admin' = Idle /\ UNCHANGED <<dir, known>>
       \/ /\ admin.op = "secret" /\ admin.at = "cut"
          /\ \/ SendCredentialOnce
             \/ /\ dir' \in Quarantined(admin.m)
                /\ admin' = Idle /\ UNCHANGED known
    /\ UNCHANGED <<count, fds, hit, client, journal, changes>> /\ UNCHANGED brokerVars

ClientTask(c) ==
    \/ ReadFails(c) \/ Connect(c) \/ Authenticate(c) \/ Bind(c) \/ Acknowledge(c)
    \/ Packet(c) \/ HandlePacket(c) \/ CloseClient(c) \/ Leave(c)
Manager == Start \/ StartEnds \/ StartTimedOut \/ Stop \/ Sweep \/ CloseSockets \/ StopWaits \/ StopDecides
Administer == \/ ActionFence \/ ActionMutate \/ DisconnectFence \/ DisconnectClaim
              \/ DisconnectShutdown \/ EnrollMachine \/ ActionFinish
Server == \/ ServerListen \/ ServerAccept \/ ServerCount \/ ServerAllocate \/ ServerCreate
          \/ ServerUndo \/ ServerStop \/ ServerSignal

Next == Server \/ Manager \/ Administer \/ \E c \in ConnIds : ClientTask(c)

Spec == Init /\ [][Next]_vars

---------------------------------------------------------------------------

TypeOK ==
    /\ state \in {"STOPPED", "STARTING", "RUNNING", "STOPPING"}
    /\ listener \in BOOLEAN /\ count \in 0 .. MaxConn
    /\ \A c \in ConnIds : client[c].sock \in Fds \cup {0}
    /\ bits \subseteq {"STARTED", "STOPPED", "CLIENTS_EXITED"}

\* Once an administrative change has returned, every admitted connection that
\* a stop has not cut carries the principal the directory holds: neither a connection of the old
\* credential nor a CONNECT that was being verified while the record changed
\* survives it, whatever the order of fence, commit, bind and disconnect.
OldPrincipalGone ==
    admin.at = "idle" =>
        \A c \in ConnIds : Admitted(c) /\ client[c].sock # 0
                              => Revalidate(dir[client[c].principal.id], client[c].principal)

\* No socket is closed under the connection that has it, and for every
\* connection that got its task, shutdown and close only ever act on its own
\* descriptor, never on one that was closed, and perhaps handed out again,
\* meanwhile, whoever acts: the client's task, an invalidation or a stop.  That
\* is what shutdown_claimed, and taking the socket out of the record, are for.
\* The exception is a connection whose task could not be created, whose number
\* may be closed twice: DescriptorsClosedOnce below.
ClientsOwn == \A c \in ConnIds : client[c].sock # 0 => fds[client[c].sock] = c
HitsUntasked == \A c \in hit : client[c].at = "untasked"
ClaimedDescriptorSafe == ClientsOwn /\ HitsUntasked

\* A broker observed as stopped has no client task left, not even one that has
\* still to report its disconnection, and no server task.
StoppedIsQuiet ==
    ObservedStopped => \A c \in ConnIds : client[c].at \in {"none", "gone", "untasked"}

\* A connection that pre-connect admission lets in always finds a slot.
PoolSuffices ==
    Cardinality(Pending) < MaxPre => Cardinality(Pending \cup Authenticated) < MaxConnections

\* A claim never outlives the disconnect that made it: a leaked one would keep
\* its client's task and argus_mqtt_broker_stop waiting for ever, and the release
\* refuses a client whose socket was taken meanwhile.
ClaimsReleased ==
    \A c \in ConnIds : client[c].claimed => <<c, client[c].sock>> \in admin.targets

---------------------------------------------------------------------------
(* A statement of the repository's documents that the code does not meet.  *)

\* docs/PHASE_4D_4_IMPLEMENTATION_PLAN.md: the socket is bound to its slot through
\* shutdown so that descriptor reuse cannot affect another client.  A stop
\* between the allocation of a record and the failure of its task's creation
\* takes the socket, and stop and server both close the number.
DescriptorsClosedOnce == hit = {}
=============================================================================
