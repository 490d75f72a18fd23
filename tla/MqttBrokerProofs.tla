-------------------------- MODULE MqttBrokerProofs --------------------------
(***************************************************************************)
(* The broker for every number of connections, descriptors, machines,      *)
(* administrative changes and journal entries: no descriptor of somebody   *)
(* else is shut down, a claim is released, a stopped broker has no task,   *)
(* and no connection outlives the principal it was admitted with.          *)
(***************************************************************************)
EXTENDS MqttBroker, FiniteSetTheorems, TLAPS

---------------------------------------------------------------------------
(* The inductive invariant.                                                *)

Names == Machines \cup {"none"}
Principal == [id : Names, cred : Nat, rev : Nat]
Record == [there : BOOLEAN, enabled : BOOLEAN, revoked : BOOLEAN, cred : Nat, rev : Nat]
Stages == {"none", "read", "auth", "verified", "bound", "packet", "closing", "leaving", "gone",
           "new", "untasked"}
Client == [at : Stages, inUse : BOOLEAN, connected : BOOLEAN, invalidated : BOOLEAN,
           claimed : BOOLEAN, sock : Fds \cup {0}, shut : BOOLEAN, peer : Sources \cup {0},
           principal : Principal, offer : Nat, captured : Nat]
Journal == [gen : Nat, events : [0 .. Capacity - 1 -> Nat \X Names]]
ServerTask == [at : {"none", "boot", "accept", "accepted", "counted", "create", "undo"},
               fd : Fds \cup {0}]
AdminTask == [at : {"idle", "fenced", "committed", "quarantined", "claim", "reclaim", "shutdown",
                    "reshutdown", "cut", "done"},
              m : Names, op : Operations \cup {"secret", "other", "none"},
              targets : SUBSET (ConnIds \X Fds)]

TaskTypes ==
    /\ server \in ServerTask /\ nconn \in 0 .. MaxConn /\ count \in Int
    /\ fds \in [Fds -> 0 .. MaxConn] /\ mgr.taken \subseteq ConnIds \X Fds
    /\ hit \subseteq ConnIds
DirectoryTypes ==
    /\ dir \in [Machines -> Record] /\ known \in [Machines -> SUBSET Nat]
    /\ admin \in AdminTask /\ journal \in Journal
ClientTypes == client \in [ConnIds -> Client]

\* A task that has not begun, or has finished with its client record, is not
\* seen by anyone who looks for clients.
Retired(r) == ~r.inUse /\ ~r.connected /\ ~r.claimed
StagesAgree ==
    \A c \in ConnIds :
        /\ c > nconn => client[c].at = "none"
        /\ client[c].at \in {"none", "leaving", "gone", "untasked"} => Retired(client[c])
        /\ client[c].at \in {"none", "gone", "untasked"} =>
              client[c].sock = 0 /\ client[c].captured = 0
        /\ client[c].at = "new" =>
              ~client[c].connected /\ ~client[c].claimed /\ client[c].captured = 0

\* Every descriptor in somebody's hands is his: the server task's, a client's
\* (ClientsOwn), or one that a stop took from a client.  From the allocation of
\* a client's record to the end of its task's creation, or of its undoing, the
\* server task has a copy of a number that a stop may have closed.
ServerOwns ==
    /\ server.at \in {"accepted", "counted"} =>
          nconn < MaxConn /\ server.fd # 0 /\ fds[server.fd] = nconn + 1
    /\ server.at \in {"create", "undo"} =>
          nconn # 0 /\ server.fd # 0 /\ fds[server.fd] \in {0, nconn}
    /\ server.at \in {"none", "boot", "accept"} => server.fd = 0
ServerHolds ==
    /\ server.at = "create" => client[nconn].at = "new"
    /\ server.at = "undo" => client[nconn].at = "untasked"
TakenOwned ==
    \A t \in mgr.taken :
        /\ t[1] <= nconn /\ client[t[1]].sock = 0
        /\ fds[t[2]] = t[1] \/ (fds[t[2]] = 0 /\ client[t[1]].at = "untasked")

\* The claims are those of the disconnect under way.
ClaimsAgree ==
    /\ \A c \in ConnIds : client[c].claimed =>
            client[c].inUse /\ <<c, client[c].sock>> \in admin.targets
    /\ \A t \in admin.targets : client[t[1]].claimed /\ client[t[1]].sock = t[2]
    /\ admin.at \notin {"shutdown", "reshutdown"} => admin.targets = {}

\* The count is that of the client tasks, with the one about to be created or
\* whose creation is being undone.
Busy == {c \in ConnIds : client[c].at \notin {"none", "gone", "untasked"}}
CountAgrees == count = Cardinality(Busy) + (IF server.at \in {"counted", "undo"} THEN 1 ELSE 0)

\* A new secret is unknown until it is sent.
SecretPending ==
    admin.op = "secret" /\ admin.at \in {"committed", "claim", "shutdown", "cut"}
SecretsKept ==
    /\ admin.at # "idle" => admin.m \in Machines
    /\ admin.at = "fenced" => admin.op \in Operations
    /\ \A m \in Machines : dir[m].there => \A k \in known[m] : k <= dir[m].cred
    /\ \A m \in Machines : ~dir[m].there => ~dir[m].enabled
    /\ SecretPending => dir[admin.m].cred \notin known[admin.m]

\* A principal is the directory's, or of a machine whose change is committed
\* and whose connections have still to be fenced.
Current(p) ==
    \/ Revalidate(dir[p.id], p)
    \/ admin.m = p.id /\ admin.at \in {"committed", "quarantined"}

\* What is known of a client on its way from CONNECT to its session: the
\* journal was read before the directory, and shows what changed since.
Authorised(r) ==
    /\ r.captured <= journal.gen
    /\ r.at = "auth" => r.principal.id \in Machines /\ r.offer \in known[r.principal.id]
    /\ r.at = "verified" \/ r.connected =>
           r.principal.id \in Machines /\ r.principal.cred \in known[r.principal.id]
    /\ r.at = "verified" =>
           Current(r.principal) \/ InvalidationSince(r.principal.id, r.captured)
    /\ r.inUse /\ r.connected /\ ~r.invalidated /\ r.sock # 0 => Current(r.principal)
PrincipalsAgree == \A c \in ConnIds : Authorised(client[c])

Types == TaskTypes /\ DirectoryTypes /\ ClientTypes
Owners == ServerOwns /\ ServerHolds /\ ClientsOwn /\ TakenOwned
Inv ==
    /\ Types /\ StagesAgree /\ Owners /\ ClaimsAgree /\ CountAgrees
    /\ SecretsKept /\ PrincipalsAgree /\ HitsUntasked

\* Known beside it: what a stop has taken is closed before anything is accepted
\* again, so that nobody gets a number which is closed a second time.
StopCloses ==
    mgr.at \in {"sweep", "sweepServer"} \/ mgr.taken # {} => ~listener /\ state = "STOPPING"

---------------------------------------------------------------------------
(* The journal.                                                            *)

\* Slots of the ring.
LEMMA SlotType ==
    ASSUME NEW g \in Nat PROVE g % Capacity \in 0 .. Capacity - 1
  BY MqttBrokerAssumption

LEMMA RecordType ==
    ASSUME DirectoryTypes, NEW m \in Machines
    PROVE  /\ InvalidationRecord(m) \in Journal
           /\ InvalidationRecord(m).gen = journal.gen + 1
           /\ InvalidationRecord(m).events[journal.gen % Capacity] = <<journal.gen + 1, m>>
           /\ \A i \in 0 .. Capacity - 1 : i # journal.gen % Capacity =>
                  InvalidationRecord(m).events[i] = journal.events[i]
<1>1. journal.gen \in Nat /\ journal.events \in [0 .. Capacity - 1 -> Nat \X Names]
  BY DEF DirectoryTypes, Journal
<1>2. journal.gen % Capacity \in 0 .. Capacity - 1
  BY <1>1, SlotType
<1>3. <<journal.gen + 1, m>> \in Nat \X Names
  BY <1>1 DEF Names
<1>4. [journal.events EXCEPT ![journal.gen % Capacity] = <<journal.gen + 1, m>>]
        \in [0 .. Capacity - 1 -> Nat \X Names]
  BY <1>1, <1>3
<1> QED
  BY <1>1, <1>2, <1>4 DEF InvalidationRecord, Journal

\* A machine that is recorded counts as changed for whoever looked before.
LEMMA RecordedSince ==
    ASSUME DirectoryTypes, NEW m \in Machines, NEW captured \in Nat, captured <= journal.gen,
           journal' = InvalidationRecord(m)
    PROVE  InvalidationSince(m, captured)'
<1>1. journal.gen \in Nat /\ journal'.gen = journal.gen + 1
      /\ journal'.events[journal.gen % Capacity] = <<journal.gen + 1, m>>
  BY RecordType DEF DirectoryTypes, Journal
<1>2. journal'.gen \in captured + 1 .. journal'.gen /\ journal'.gen # captured
      /\ journal'.gen - 1 = journal.gen
  BY <1>1
<1>3. journal'.events[(journal'.gen - 1) % Capacity][2] = m
  BY <1>1, <1>2
<1> QED
  BY <1>2, <1>3 DEF InvalidationSince

\* What counted as changed goes on to: its slot is kept or reused, and a slot
\* that was reused counts.
LEMMA SinceStays ==
    ASSUME DirectoryTypes, NEW m \in Machines, NEW n, NEW captured \in Nat,
           captured <= journal.gen, InvalidationSince(n, captured),
           journal' = InvalidationRecord(m)
    PROVE  InvalidationSince(n, captured)'
<1>1. journal.gen \in Nat /\ journal'.gen = journal.gen + 1
      /\ journal'.events[journal.gen % Capacity] = <<journal.gen + 1, m>>
      /\ \A i \in 0 .. Capacity - 1 : i # journal.gen % Capacity =>
              journal'.events[i] = journal.events[i]
  BY RecordType DEF DirectoryTypes, Journal
<1>2. Capacity \in Nat \ {0}
  BY MqttBrokerAssumption
<1>3. CASE journal.gen - captured > Capacity
  BY <1>1, <1>2, <1>3 DEF InvalidationSince
<1>4. CASE ~(journal.gen - captured > Capacity)
  <2>1. PICK g \in captured + 1 .. journal.gen :
            LET e == journal.events[(g - 1) % Capacity] IN e[1] # g \/ e[2] = n
    BY <1>1, <1>4 DEF InvalidationSince
  <2>2. g \in captured + 1 .. journal'.gen /\ g - 1 \in Nat /\ g # journal.gen + 1
    BY <1>1
  <2>3. (g - 1) % Capacity \in 0 .. Capacity - 1
    BY <2>2, SlotType
  <2>4. LET e == journal'.events[(g - 1) % Capacity] IN e[1] # g \/ e[2] = n
    <3>1. CASE (g - 1) % Capacity = journal.gen % Capacity
      BY <1>1, <2>2, <3>1
    <3>2. CASE (g - 1) % Capacity # journal.gen % Capacity
      BY <1>1, <2>1, <2>3, <3>2
    <3> QED
      BY <3>1, <3>2
  <2>5. journal'.gen # captured
    BY <1>1
  <2> QED
    BY <2>2, <2>4, <2>5 DEF InvalidationSince
<1> QED
  BY <1>3, <1>4

---------------------------------------------------------------------------
(* Connections whose task is being created, or could not be.               *)

LEMMA StagesKept ==
    ASSUME Inv, UNCHANGED <<server, nconn, hit>>,
           \A d \in ConnIds : client[d].at \in {"new", "untasked"} => client'[d].at = client[d].at
    PROVE  ServerHolds' /\ HitsUntasked'
<1>1. hit \subseteq ConnIds /\ nconn \in 0 .. MaxConn
  BY DEF Inv, Types, TaskTypes
<1>2. server.at \in {"create", "undo"} => nconn \in ConnIds
  BY <1>1 DEF Inv, Owners, ServerOwns, ConnIds
<1> QED
  BY <1>1, <1>2 DEF Inv, Owners, ServerHolds, HitsUntasked

LEMMA TakenKept ==
    ASSUME Inv, UNCHANGED <<nconn, mgr, fds>>,
           \A d \in ConnIds : /\ client[d].at = "untasked" => client'[d].at = "untasked"
                              /\ client[d].sock = 0 => client'[d].sock = 0
    PROVE  TakenOwned'
  BY DEF Inv, Owners, TakenOwned, Types, TaskTypes

---------------------------------------------------------------------------
(* A step of a client's task that keeps its record and its descriptor.     *)

Working == {"read", "auth", "verified", "bound", "packet", "closing"}

\* Such a step changes how far the client has come and what it may do, and
\* concerns neither the owners of descriptors nor the claims nor the count.
LEMMA ClientMoves ==
    ASSUME Inv, NEW c \in ConnIds, NEW r \in Client, ClientStep(c, r),
           client[c].at \in Working, r.at \in Working,
           r.sock = client[c].sock, r.claimed = client[c].claimed, r.inUse = client[c].inUse,
           Authorised(r)
    PROVE  Inv'
<1>1. client' = [client EXCEPT ![c] = r] /\ client \in [ConnIds -> Client]
      /\ UNCHANGED <<count, fds, journal, hit, state, listener, server, signal, bits, starts,
                     nconn, mgr, dir, known, admin, changes>>
  BY DEF Inv, Types, ClientTypes, ClientStep, brokerVars, adminVars
<1>2. client' \in [ConnIds -> Client] /\ client'[c] = r
      /\ \A d \in ConnIds : d # c => client'[d] = client[d]
  BY <1>1
<1>3. \A d \in ConnIds : /\ client'[d].sock = client[d].sock
                         /\ client'[d].claimed = client[d].claimed
                         /\ client'[d].inUse = client[d].inUse
  BY <1>2
<1>4. \A d \in ConnIds : client'[d].at \in {"none", "leaving", "gone", "untasked"} =>
                            client'[d] = client[d]
  BY <1>2 DEF Working
<1>5. \A d \in ConnIds : client'[d].at \in {"none", "gone", "untasked"} <=> client[d].at \in {"none", "gone", "untasked"}
  BY <1>2 DEF Working
<1>5a. \A d \in ConnIds : client[d].at \in {"new", "untasked"} => client'[d].at = client[d].at
  BY <1>2 DEF Working
<1>5b. ServerHolds' /\ HitsUntasked'
  BY <1>1, <1>5a, StagesKept
<1>6. Types'
  BY <1>1, <1>2 DEF Inv, Types, TaskTypes, DirectoryTypes, ClientTypes
<1>7. StagesAgree'
  <2> SUFFICES ASSUME NEW d \in ConnIds
               PROVE  /\ d > nconn' => client'[d].at = "none"
                      /\ client'[d].at \in {"none", "leaving", "gone", "untasked"} => Retired(client'[d])
                      /\ client'[d].at \in {"none", "gone", "untasked"} =>
                            client'[d].sock = 0 /\ client'[d].captured = 0
                      /\ client'[d].at = "new" => /\ ~client'[d].connected /\ ~client'[d].claimed
                                                  /\ client'[d].captured = 0
    BY DEF StagesAgree
  <2>1. CASE d = c
    BY <1>1, <1>2, <2>1 DEF Inv, StagesAgree, Working
  <2>2. CASE d # c
    BY <1>1, <1>2, <2>2 DEF Inv, StagesAgree
  <2> QED
    BY <2>1, <2>2
<1>8. Owners'
  <2>1. ServerOwns'
    BY <1>1 DEF Inv, Owners, ServerOwns
  <2>2. ClientsOwn'
    BY <1>1, <1>3 DEF Inv, Owners, ClientsOwn
  <2>3. TakenOwned'
    BY <1>1, <1>3, <1>5a, TakenKept
  <2> QED
    BY <1>5b, <2>1, <2>2, <2>3 DEF Owners
<1>9. ClaimsAgree'
  <2>1. \A t \in admin.targets : t[1] \in ConnIds
    BY DEF Inv, Types, DirectoryTypes, AdminTask
  <2> QED
    BY <1>1, <1>3, <2>1 DEF Inv, ClaimsAgree
<1>10. CountAgrees'
  <2>1. Busy' = Busy
    BY <1>5 DEF Busy
  <2> QED
    BY <1>1, <2>1 DEF Inv, CountAgrees
<1>11. SecretsKept'
  BY <1>1 DEF Inv, SecretsKept, SecretPending
<1>12. PrincipalsAgree'
  <2> SUFFICES ASSUME NEW d \in ConnIds
               PROVE  Authorised(client[d])'
    BY DEF PrincipalsAgree
  <2>1. Authorised(client'[d])
    BY <1>2 DEF Inv, PrincipalsAgree
  <2> QED
    BY <1>1, <2>1 DEF Authorised, Current, InvalidationSince
<1> QED
  BY <1>1, <1>5b, <1>6, <1>7, <1>8, <1>9, <1>10, <1>11, <1>12 DEF Inv

LEMMA ClientKnown ==
    ASSUME Inv, NEW c \in ConnIds
    PROVE  client[c] \in Client /\ Authorised(client[c])
  BY DEF Inv, Types, ClientTypes, PrincipalsAgree

LEMMA CloseKeeps ==
    ASSUME Inv, NEW c \in ConnIds, client[c].at \in Working, Close(c)
    PROVE  Inv'
<1> DEFINE r == [client[c] EXCEPT !.at = "closing", !.offer = 0, !.captured = 0,
                    !.principal = IF client[c].connected THEN @ ELSE NoPrincipal]
<1>1. client[c] \in Client /\ Authorised(client[c])
  BY ClientKnown
<1>2. NoPrincipal \in Principal
  BY DEF NoPrincipal, Principal, Names
<1>3. r \in Client
  BY <1>1, <1>2 DEF Client, Stages
<1>4. r.at = "closing" /\ r.sock = client[c].sock /\ r.claimed = client[c].claimed
      /\ r.inUse = client[c].inUse /\ r.connected = client[c].connected
      /\ r.invalidated = client[c].invalidated /\ r.captured = 0
      /\ (client[c].connected => r.principal = client[c].principal)
  BY <1>1 DEF Client
<1>5. ClientStep(c, r)
  BY DEF Close
<1> HIDE DEF r
<1>6. journal.gen \in Nat
  BY DEF Inv, Types, DirectoryTypes, Journal
<1>7. Authorised(r)
  BY <1>1, <1>4, <1>6 DEF Authorised
<1> QED
  BY <1>3, <1>4, <1>5, <1>7, ClientMoves DEF Working

LEMMA ConnectKeeps ==
    ASSUME Inv, NEW c \in ConnIds, Connect(c)
    PROVE  Inv'
<1>0. PICK m \in Machines : \E k \in known[m] :
          ClientStep(c, [client[c] EXCEPT !.at = "auth", !.captured = journal.gen, !.offer = k,
                                          !.principal = [NoPrincipal EXCEPT !.id = m]])
  BY DEF Connect
<1>1. PICK k \in known[m] :
          ClientStep(c, [client[c] EXCEPT !.at = "auth", !.captured = journal.gen, !.offer = k,
                                          !.principal = [NoPrincipal EXCEPT !.id = m]])
  BY <1>0
<1> DEFINE r == [client[c] EXCEPT !.at = "auth", !.captured = journal.gen, !.offer = k,
                    !.principal = [NoPrincipal EXCEPT !.id = m]]
<1>2. client[c] \in Client /\ Authorised(client[c])
  BY ClientKnown
<1>3. [NoPrincipal EXCEPT !.id = m] \in Principal /\ [NoPrincipal EXCEPT !.id = m].id = m
  BY DEF NoPrincipal, Principal, Names
<1>4. k \in Nat /\ journal.gen \in Nat
  BY DEF Inv, Types, DirectoryTypes, Journal
<1>5. r \in Client
  BY <1>2, <1>3, <1>4 DEF Client, Stages
<1>6. r.at = "auth" /\ r.sock = client[c].sock /\ r.claimed = client[c].claimed
      /\ r.inUse = client[c].inUse /\ r.connected = client[c].connected
      /\ r.captured = journal.gen /\ r.offer = k /\ r.principal.id = m
  BY <1>2, <1>3 DEF Client
<1>7. client[c].at = "read" /\ ~client[c].connected
  BY DEF Connect, Readable
<1> HIDE DEF r
<1>8. Authorised(r)
  BY <1>4, <1>6, <1>7 DEF Authorised
<1>9. ClientStep(c, r)
  BY <1>1 DEF r
<1> QED
  BY <1>5, <1>6, <1>7, <1>8, <1>9, ClientMoves DEF Working

LEMMA AuthenticateKeeps ==
    ASSUME Inv, NEW c \in ConnIds, Authenticate(c)
    PROVE  Inv'
<1> DEFINE m == client[c].principal.id
           r == [client[c] EXCEPT !.at = "verified", !.offer = 0,
                    !.principal = PrincipalFromRecord(m, dir[m])]
<1>1. client[c] \in Client /\ Authorised(client[c]) /\ client[c].at = "auth"
  BY ClientKnown DEF Authenticate
<1>2. CASE Close(c)
  BY <1>1, <1>2, CloseKeeps DEF Working
<1>3. CASE Authenticates(dir[m], client[c].offer) /\ ClientStep(c, r)
  <2>1. m \in Machines /\ client[c].offer \in known[m]
    BY <1>1 DEF Authorised
  <2>2. dir[m] \in Record
    BY <2>1 DEF Inv, Types, DirectoryTypes
  <2> DEFINE p == PrincipalFromRecord(m, dir[m])
  <2>3. p \in Principal /\ p.id = m /\ p.cred = dir[m].cred /\ p.rev = dir[m].rev
    BY <2>1, <2>2 DEF PrincipalFromRecord, Principal, Record, Names
  <2>4. r.at = "verified" /\ r.sock = client[c].sock /\ r.claimed = client[c].claimed
        /\ r.inUse = client[c].inUse /\ r.connected = client[c].connected
        /\ r.captured = client[c].captured /\ r.principal = p
    BY <1>1 DEF Client
  <2> HIDE DEF p
  <2>5. r \in Client
    BY <1>1, <2>3 DEF Client, Stages, p
  <2>6. p.cred \in known[m] /\ Revalidate(dir[m], p)
    BY <1>3, <2>1, <2>3 DEF Authenticates, Revalidate
  <2>7. ClientStep(c, r)
    BY <1>3
  <2> HIDE DEF m, r
  <2>8. Authorised(r)
    BY <1>1, <2>1, <2>3, <2>4, <2>6 DEF Authorised, Current
  <2> QED
    BY <1>1, <2>4, <2>5, <2>7, <2>8, ClientMoves DEF Working
<1> QED
  BY <1>2, <1>3 DEF Authenticate

\* The journal is asked and the client bound in one critical section: what it
\* does not show has not been changed and fenced.
LEMMA BindKeeps ==
    ASSUME Inv, NEW c \in ConnIds, Bind(c)
    PROVE  Inv'
<1> DEFINE r == [client[c] EXCEPT !.at = "bound", !.connected = TRUE, !.captured = 0, !.peer = 0]
<1>1. client[c] \in Client /\ Authorised(client[c]) /\ client[c].at = "verified"
  BY ClientKnown DEF Bind
<1>2. CASE Close(c)
  BY <1>1, <1>2, CloseKeeps DEF Working
<1>3. CASE BindAllowed(c) /\ ClientStep(c, r)
  <2>1. r \in Client
    BY <1>1 DEF Client, Stages
  <2>2. r.at = "bound" /\ r.sock = client[c].sock /\ r.claimed = client[c].claimed
        /\ r.inUse = client[c].inUse /\ r.principal = client[c].principal /\ r.captured = 0
    BY <1>1 DEF Client
  <2>3. ClientStep(c, r)
    BY <1>3
  <2> HIDE DEF r
  <2>4. Current(r.principal) /\ r.principal.id \in Machines
        /\ r.principal.cred \in known[r.principal.id]
    BY <1>1, <1>3, <2>2 DEF Authorised, BindAllowed
  <2>5. journal.gen \in Nat
    BY DEF Inv, Types, DirectoryTypes, Journal
  <2>6. Authorised(r)
    BY <2>2, <2>4, <2>5 DEF Authorised
  <2> QED
    BY <1>1, <2>1, <2>2, <2>3, <2>6, ClientMoves DEF Working
<1> QED
  BY <1>2, <1>3 DEF Bind

\* From one place of the loop to the next.
LEMMA LoopKeeps ==
    ASSUME Inv, NEW c \in ConnIds, NEW at \in {"read", "packet"},
           client[c].at \in {"bound", "read", "packet"},
           ClientStep(c, [client[c] EXCEPT !.at = at])
    PROVE  Inv'
<1> DEFINE r == [client[c] EXCEPT !.at = at]
<1>1. client[c] \in Client /\ Authorised(client[c])
  BY ClientKnown
<1>2. r \in Client
  BY <1>1 DEF Client, Stages
<1>3. r.at = at /\ r.sock = client[c].sock /\ r.claimed = client[c].claimed
      /\ r.inUse = client[c].inUse /\ r.principal = client[c].principal
      /\ r.captured = client[c].captured /\ r.connected = client[c].connected
      /\ r.invalidated = client[c].invalidated
  BY <1>1 DEF Client
<1> HIDE DEF r
<1>4. Authorised(r)
  BY <1>1, <1>3 DEF Authorised
<1> QED
  BY <1>2, <1>3, <1>4, ClientMoves DEF Working, r

LEMMA LoopStepsKeep ==
    ASSUME Inv, NEW c \in ConnIds,
           ReadFails(c) \/ Acknowledge(c) \/ Packet(c) \/ HandlePacket(c)
    PROVE  Inv'
<1>1. client[c].at \in {"read", "bound", "packet"}
  BY DEF ReadFails, Acknowledge, Packet, HandlePacket, Readable
<1>2. \/ Close(c)
      \/ \E at \in {"read", "packet"} : ClientStep(c, [client[c] EXCEPT !.at = at])
  BY DEF ReadFails, Acknowledge, Packet, HandlePacket
<1> QED
  BY <1>1, <1>2, CloseKeeps, LoopKeeps DEF Working

---------------------------------------------------------------------------
(* The end of a client's task.                                             *)

LEMMA FreshType ==
    /\ Fresh \in Client /\ Retired(Fresh)
    /\ Fresh.at = "none" /\ Fresh.sock = 0 /\ Fresh.captured = 0
<1>1. NoPrincipal \in Principal
  BY DEF NoPrincipal, Principal, Names
<1> QED
  BY <1>1 DEF Fresh, Client, Stages, Retired

\* A record without principal, session or captured generation is authorised.
LEMMA RetiredAuthorised ==
    ASSUME DirectoryTypes, NEW r, Retired(r), r.captured = 0, r.at \notin {"auth", "verified"}
    PROVE  Authorised(r)
  BY DEF DirectoryTypes, Journal, Authorised, Retired

LEMMA TargetsKnown ==
    ASSUME Inv
    PROVE  \A t \in admin.targets : t[1] \in ConnIds /\ t[2] \in Fds
  BY DEF Inv, Types, DirectoryTypes, AdminTask

LEMMA CloseClientKeeps ==
    ASSUME Inv, NEW c \in ConnIds, CloseClient(c)
    PROVE  Inv'
<1> DEFINE r == [Fresh EXCEPT !.at = "leaving", !.sock = client[c].sock]
<1>1. client[c] \in Client /\ client[c].at = "closing" /\ ~client[c].claimed
  BY ClientKnown DEF CloseClient
<1>2. r \in Client /\ Retired(r) /\ r.at = "leaving" /\ r.sock = client[c].sock /\ r.captured = 0
  BY <1>1, FreshType DEF Client, Stages, Retired
<1>3. client' = [client EXCEPT ![c] = r]
      /\ UNCHANGED <<count, fds, journal, hit, server, nconn, mgr, dir, known, admin>>
  BY DEF CloseClient, ClientStep, brokerVars, adminVars
<1> HIDE DEF r
<1>4. client' \in [ConnIds -> Client] /\ client'[c] = r
      /\ \A d \in ConnIds : d # c => client'[d] = client[d]
  BY <1>2, <1>3 DEF Inv, Types, ClientTypes
<1>5. \A d \in ConnIds : /\ client'[d].sock = client[d].sock
                         /\ client'[d].claimed = client[d].claimed
  BY <1>1, <1>2, <1>4 DEF Retired, Client
<1>5a. \A d \in ConnIds : client[d].at \in {"new", "untasked"} => client'[d].at = client[d].at
  BY <1>1, <1>4
<1>5b. ServerHolds' /\ HitsUntasked'
  BY <1>3, <1>5a, StagesKept
<1>6. Types'
  BY <1>3, <1>4 DEF Inv, Types, TaskTypes, DirectoryTypes, ClientTypes
<1>7. StagesAgree'
  <2> SUFFICES ASSUME NEW d \in ConnIds
               PROVE  /\ d > nconn' => client'[d].at = "none"
                      /\ client'[d].at \in {"none", "leaving", "gone", "untasked"} => Retired(client'[d])
                      /\ client'[d].at \in {"none", "gone", "untasked"} =>
                            client'[d].sock = 0 /\ client'[d].captured = 0
                      /\ client'[d].at = "new" => /\ ~client'[d].connected /\ ~client'[d].claimed
                                                  /\ client'[d].captured = 0
    BY DEF StagesAgree
  <2>1. CASE d = c
    BY <1>1, <1>2, <1>3, <1>4, <2>1 DEF Inv, StagesAgree
  <2>2. CASE d # c
    BY <1>3, <1>4, <2>2 DEF Inv, StagesAgree
  <2> QED
    BY <2>1, <2>2
<1>8. Owners'
  <2>1. ServerOwns'
    BY <1>3 DEF Inv, Owners, ServerOwns
  <2>2. ClientsOwn'
    BY <1>3, <1>5 DEF Inv, Owners, ClientsOwn
  <2>3. TakenOwned'
    BY <1>3, <1>5, <1>5a, TakenKept
  <2> QED
    BY <1>5b, <2>1, <2>2, <2>3 DEF Owners
<1>9. ClaimsAgree'
  <2>1. \A d \in ConnIds : client'[d].claimed =>
            client'[d].inUse /\ <<d, client'[d].sock>> \in admin'.targets
    <3> SUFFICES ASSUME NEW d \in ConnIds, client'[d].claimed
                 PROVE  client'[d].inUse /\ <<d, client'[d].sock>> \in admin'.targets
      OBVIOUS
    <3>1. d # c
      BY <1>2, <1>4 DEF Retired
    <3> QED
      BY <1>3, <1>4, <3>1 DEF Inv, ClaimsAgree
  <2> QED
    BY <1>3, <1>5, <2>1, TargetsKnown DEF Inv, ClaimsAgree
<1>10. CountAgrees'
  <2>1. Busy' = Busy
    BY <1>1, <1>2, <1>4 DEF Busy
  <2> QED
    BY <1>3, <2>1 DEF Inv, CountAgrees
<1>11. SecretsKept'
  BY <1>3 DEF Inv, SecretsKept, SecretPending
<1>12. PrincipalsAgree'
  <2> SUFFICES ASSUME NEW d \in ConnIds
               PROVE  Authorised(client[d])'
    BY DEF PrincipalsAgree
  <2>1. Authorised(client'[d])
    <3>1. Authorised(r)
      BY <1>2, RetiredAuthorised DEF Inv, Types
    <3> QED
      BY <1>4, <3>1 DEF Inv, PrincipalsAgree
  <2> QED
    BY <1>3, <2>1 DEF Authorised, Current, InvalidationSince
<1> QED
  BY <1>5b, <1>6, <1>7, <1>8, <1>9, <1>10, <1>11, <1>12 DEF Inv

LEMMA BusyFinite == IsFiniteSet(Busy) /\ Cardinality(Busy) \in Nat
<1>1. IsFiniteSet(ConnIds)
  BY MqttBrokerAssumption, FS_Interval DEF ConnIds
<1>2. IsFiniteSet(Busy)
  BY <1>1, FS_Subset DEF Busy
<1> QED
  BY <1>2, FS_CardinalityType

LEMMA LeaveKeeps ==
    ASSUME Inv, NEW c \in ConnIds, Leave(c)
    PROVE  Inv'
<1> DEFINE r == [Fresh EXCEPT !.at = "gone"]
           s == client[c].sock
<1>1. client[c] \in Client /\ client[c].at = "leaving" /\ Retired(client[c]) /\ c \in 1 .. nconn
      /\ s \in Fds \cup {0} /\ (s # 0 => fds[s] = c)
  BY ClientKnown, MqttBrokerAssumption
     DEF Leave, Inv, StagesAgree, Owners, ClientsOwn, Client, ConnIds, Types, TaskTypes
<1>2. r \in Client /\ Retired(r) /\ r.at = "gone" /\ r.sock = 0 /\ r.captured = 0
  BY FreshType DEF Client, Stages, Retired
<1>3. client' = [client EXCEPT ![c] = r]
      /\ fds' = [d \in Fds |-> IF d = s THEN 0 ELSE fds[d]]
      /\ count' = count - 1 /\ hit' = hit
      /\ UNCHANGED <<journal, server, nconn, mgr, dir, known, admin>>
  BY <1>1 DEF Leave, adminVars
<1> HIDE DEF r
<1>4. client' \in [ConnIds -> Client] /\ client'[c] = r
      /\ \A d \in ConnIds : d # c => client'[d] = client[d]
  BY <1>2, <1>3 DEF Inv, Types, ClientTypes
<1>5. \A d \in Fds : fds[d] # c => fds'[d] = fds[d]
  BY <1>1, <1>3, MqttBrokerAssumption
<1>5a. \A d \in ConnIds : client[d].at \in {"new", "untasked"} => client'[d].at = client[d].at
  BY <1>1, <1>4
<1>5b. ServerHolds' /\ HitsUntasked'
  BY <1>3, <1>5a, StagesKept
<1>6. Types'
  <2>1. fds' \in [Fds -> 0 .. MaxConn]
    BY <1>3, MqttBrokerAssumption DEF Inv, Types, TaskTypes
  <2> QED
    BY <1>3, <1>4, <2>1 DEF Inv, Types, TaskTypes, DirectoryTypes, ClientTypes
<1>7. StagesAgree'
  <2> SUFFICES ASSUME NEW d \in ConnIds
               PROVE  /\ d > nconn' => client'[d].at = "none"
                      /\ client'[d].at \in {"none", "leaving", "gone", "untasked"} => Retired(client'[d])
                      /\ client'[d].at \in {"none", "gone", "untasked"} =>
                            client'[d].sock = 0 /\ client'[d].captured = 0
                      /\ client'[d].at = "new" => /\ ~client'[d].connected /\ ~client'[d].claimed
                                                  /\ client'[d].captured = 0
    BY DEF StagesAgree
  <2>1. CASE d = c
    BY <1>1, <1>2, <1>3, <1>4, <2>1 DEF Inv, StagesAgree
  <2>2. CASE d # c
    BY <1>3, <1>4, <2>2 DEF Inv, StagesAgree
  <2> QED
    BY <2>1, <2>2
<1>8. Owners'
  <2>1. ServerOwns'
    <3>1. CASE server.at \in {"accepted", "counted"}
      <4>1. server.fd \in Fds /\ fds[server.fd] = nconn + 1 /\ nconn < MaxConn
        BY <3>1 DEF Inv, Owners, ServerOwns, Types, TaskTypes, ServerTask
      <4>2. nconn + 1 # c
        BY <1>1 DEF Inv, Types, TaskTypes
      <4> QED
        BY <1>3, <1>5, <3>1, <4>1, <4>2 DEF Inv, Owners, ServerOwns
    <3>2. CASE server.at \in {"create", "undo"}
      <4>1. server.fd \in Fds /\ fds[server.fd] \in {0, nconn} /\ nconn # 0
        BY <3>2 DEF Inv, Owners, ServerOwns, Types, TaskTypes, ServerTask
      <4>2. fds'[server.fd] \in {0, nconn}
        BY <1>3, <4>1
      <4> QED
        BY <1>3, <3>2, <4>1, <4>2 DEF Inv, Owners, ServerOwns
    <3>3. CASE server.at \notin {"accepted", "counted", "create", "undo"}
      BY <1>3, <3>3 DEF Inv, Owners, ServerOwns
    <3> QED
      BY <3>1, <3>2, <3>3
  <2>2. ClientsOwn'
    <3> SUFFICES ASSUME NEW d \in ConnIds, client'[d].sock # 0
                 PROVE  fds'[client'[d].sock] = d
      BY DEF ClientsOwn
    <3>1. d # c /\ client'[d] = client[d]
      BY <1>2, <1>4
    <3>2. client[d].sock \in Fds /\ fds[client[d].sock] = d
      BY <3>1, ClientKnown DEF Inv, Owners, ClientsOwn, Client
    <3> QED
      BY <1>5, <3>1, <3>2
  <2>3. TakenOwned'
    <3> SUFFICES ASSUME NEW t \in mgr.taken
                 PROVE  /\ t[1] <= nconn /\ client'[t[1]].sock = 0
                        /\ \/ fds'[t[2]] = t[1]
                           \/ fds'[t[2]] = 0 /\ client'[t[1]].at = "untasked"
      BY <1>3 DEF TakenOwned
    <3>1. t[1] \in ConnIds /\ t[2] \in Fds /\ t[1] <= nconn /\ client[t[1]].sock = 0
          /\ (fds[t[2]] = t[1] \/ (fds[t[2]] = 0 /\ client[t[1]].at = "untasked"))
      BY DEF Inv, Owners, TakenOwned, Types, TaskTypes
    <3>2. client'[t[1]].sock = 0
      BY <1>2, <1>4, <3>1
    <3>3. fds'[t[2]] = fds[t[2]]
      <4>1. CASE t[1] = c
        BY <1>1, <1>3, <3>1, <4>1, MqttBrokerAssumption
      <4>2. CASE t[1] # c
        BY <1>1, <1>5, <3>1, <4>2
      <4> QED
        BY <4>1, <4>2
    <3> QED
      BY <1>5a, <3>1, <3>2, <3>3
  <2> QED
    BY <1>5b, <2>1, <2>2, <2>3 DEF Owners
<1>9. ClaimsAgree'
  <2>1. \A d \in ConnIds : client'[d].claimed =>
            client'[d].inUse /\ <<d, client'[d].sock>> \in admin'.targets
    <3> SUFFICES ASSUME NEW d \in ConnIds, client'[d].claimed
                 PROVE  client'[d].inUse /\ <<d, client'[d].sock>> \in admin'.targets
      OBVIOUS
    <3>1. d # c
      BY <1>2, <1>4 DEF Retired
    <3> QED
      BY <1>3, <1>4, <3>1 DEF Inv, ClaimsAgree
  <2>2. \A t \in admin.targets : t[1] \in ConnIds \ {c}
    BY <1>1, TargetsKnown DEF Inv, ClaimsAgree, Retired
  <2> QED
    BY <1>3, <1>4, <2>1, <2>2 DEF Inv, ClaimsAgree
<1>10. CountAgrees'
  <2>1. Busy' = Busy \ {c} /\ c \in Busy
    BY <1>1, <1>2, <1>4 DEF Busy
  <2>2. Cardinality(Busy') = Cardinality(Busy) - 1
    BY <2>1, BusyFinite, FS_RemoveElement
  <2> QED
    BY <1>3, <2>2, BusyFinite DEF Inv, CountAgrees
<1>11. SecretsKept'
  BY <1>3 DEF Inv, SecretsKept, SecretPending
<1>12. PrincipalsAgree'
  <2> SUFFICES ASSUME NEW d \in ConnIds
               PROVE  Authorised(client[d])'
    BY DEF PrincipalsAgree
  <2>1. Authorised(client'[d])
    <3>1. Authorised(r)
      BY <1>2, RetiredAuthorised DEF Inv, Types
    <3> QED
      BY <1>4, <3>1 DEF Inv, PrincipalsAgree
  <2> QED
    BY <1>3, <2>1 DEF Authorised, Current, InvalidationSince
<1> QED
  BY <1>6, <1>7, <1>8, <1>9, <1>10, <1>11, <1>12, <1>5b DEF Inv

---------------------------------------------------------------------------
(* The server task.                                                        *)

\* Only the server task and the manager's move, and no descriptor.
LEMMA TasksMove ==
    ASSUME Inv, UNCHANGED <<client, fds, nconn, journal, dir, known, admin, hit>>,
           server' \in ServerTask, ServerOwns', ServerHolds', count' \in Int, CountAgrees',
           mgr'.taken \subseteq mgr.taken
    PROVE  Inv'
<1>1. Types'
  BY DEF Inv, Types, TaskTypes, DirectoryTypes, ClientTypes
<1>2. StagesAgree'
  BY DEF Inv, StagesAgree
<1>3. Owners'
  BY DEF Inv, Owners, ClientsOwn, TakenOwned
<1>4. ClaimsAgree'
  BY DEF Inv, ClaimsAgree
<1>5. SecretsKept'
  BY DEF Inv, SecretsKept, SecretPending
<1>6. PrincipalsAgree'
  BY DEF Inv, PrincipalsAgree, Authorised, Current, InvalidationSince
<1> QED
  BY <1>1, <1>2, <1>3, <1>4, <1>5, <1>6 DEF Inv, HitsUntasked

LEMMA ServerListenKeeps ==
    ASSUME Inv, ServerListen
    PROVE  Inv'
<1>1. UNCHANGED <<client, fds, nconn, journal, dir, known, admin, hit, count, mgr>>
      /\ server.at = "boot" /\ server'.at \in {"accept", "none"} /\ server'.fd = 0
      /\ server' \in ServerTask
  BY DEF ServerListen, ServerExits, adminVars, Inv, Types, TaskTypes, ServerTask, Owners,
         ServerOwns
<1>2. ServerOwns' /\ ServerHolds'
  BY <1>1 DEF ServerOwns, ServerHolds
<1>3. CountAgrees'
  BY <1>1 DEF Inv, CountAgrees, Busy
<1> QED
  BY <1>1, <1>2, <1>3, TasksMove DEF Inv, Types, TaskTypes

LEMMA ServerCountKeeps ==
    ASSUME Inv, ServerCount
    PROVE  Inv'
<1>1. UNCHANGED <<client, fds, nconn, journal, dir, known, admin, hit, mgr>>
      /\ server.at = "accepted" /\ server'.at = "counted" /\ server'.fd = server.fd
      /\ server' \in ServerTask /\ count' = count + 1
  BY DEF ServerCount, adminVars, Inv, Types, TaskTypes, ServerTask
<1>2. ServerOwns' /\ ServerHolds'
  BY <1>1 DEF Inv, Owners, ServerOwns, ServerHolds
<1>3. CountAgrees'
  <2>1. Busy' = Busy
    BY <1>1 DEF Busy
  <2> QED
    BY <1>1, <2>1, BusyFinite DEF Inv, CountAgrees
<1> QED
  BY <1>1, <1>2, <1>3, TasksMove DEF Inv, Types, TaskTypes

LEMMA ServerSignalKeeps ==
    ASSUME Inv, ServerSignal
    PROVE  Inv'
<1>1. UNCHANGED <<client, fds, nconn, journal, dir, known, admin, hit, mgr, server, count>>
  BY DEF ServerSignal, adminVars
<1>2. ServerOwns' /\ ServerHolds' /\ CountAgrees'
  BY <1>1 DEF Inv, Owners, ServerOwns, ServerHolds, CountAgrees, Busy
<1> QED
  BY <1>1, <1>2, TasksMove DEF Inv, Types, TaskTypes

\* A descriptor that nobody owns, or the server task's own, changes hands.
LEMMA ServerFd ==
    ASSUME Inv, UNCHANGED <<client, nconn, mgr, journal, dir, known, admin, hit>>, count' \in Int,
           NEW d \in Fds, fds[d] \in {0, nconn + 1}, fds[d] = 0 => mgr.taken = {},
           NEW v \in 0 .. MaxConn, fds' = [fds EXCEPT ![d] = v],
           server' \in ServerTask, ServerOwns', ServerHolds', CountAgrees'
    PROVE  Inv'
<1>1. fds' \in [Fds -> 0 .. MaxConn] /\ \A e \in Fds : e # d => fds'[e] = fds[e]
  BY DEF Inv, Types, TaskTypes
<1>2. Types'
  BY <1>1 DEF Inv, Types, TaskTypes, DirectoryTypes, ClientTypes
<1>3. StagesAgree'
  BY DEF Inv, StagesAgree
<1>4. ClientsOwn'
  <2> SUFFICES ASSUME NEW c \in ConnIds, client[c].sock # 0
               PROVE  fds'[client[c].sock] = c
    BY DEF ClientsOwn
  <2>1. client[c].sock \in Fds /\ fds[client[c].sock] = c
    BY ClientKnown DEF Inv, Owners, ClientsOwn, Client
  <2>2. c \in 1 .. nconn
    BY MqttBrokerAssumption DEF Inv, StagesAgree, ConnIds, Types, TaskTypes
  <2>3. client[c].sock # d
    BY <2>1, <2>2 DEF Inv, Types, TaskTypes
  <2> QED
    BY <1>1, <2>1, <2>3
<1>5. TakenOwned'
  <2> SUFFICES ASSUME NEW t \in mgr.taken
               PROVE  fds'[t[2]] = fds[t[2]]
    BY DEF Inv, Owners, TakenOwned
  <2>1. t[1] \in ConnIds /\ t[2] \in Fds /\ t[1] <= nconn /\ fds[t[2]] \in {0, t[1]}
    BY DEF Inv, Owners, TakenOwned, Types, TaskTypes
  <2>2. t[2] # d
    BY <2>1, MqttBrokerAssumption DEF ConnIds, Inv, Types, TaskTypes
  <2> QED
    BY <1>1, <2>1, <2>2
<1>6. ClaimsAgree'
  BY DEF Inv, ClaimsAgree
<1>7. SecretsKept'
  BY DEF Inv, SecretsKept, SecretPending
<1>8. PrincipalsAgree'
  BY DEF Inv, PrincipalsAgree, Authorised, Current, InvalidationSince
<1> QED
  BY <1>2, <1>3, <1>4, <1>5, <1>6, <1>7, <1>8 DEF Inv, Owners, HitsUntasked

LEMMA ServerAcceptKeeps ==
    ASSUME Inv, StopCloses, ServerAccept
    PROVE  Inv'
<1>1. PICK d \in Fds : fds[d] = 0 /\ server' = [at |-> "accepted", fd |-> d]
                       /\ fds' = [fds EXCEPT ![d] = nconn + 1]
  BY DEF ServerAccept
<1>2. UNCHANGED <<client, nconn, mgr, journal, dir, known, admin, hit, count>>
      /\ server.at = "accept" /\ nconn < MaxConn /\ mgr.taken = {}
  BY DEF ServerAccept, StopCloses, adminVars
<1>3. nconn + 1 \in 0 .. MaxConn /\ nconn \in Nat
  BY <1>2, MqttBrokerAssumption DEF Inv, Types, TaskTypes
<1>4. server' \in ServerTask /\ server'.at = "accepted" /\ server'.fd = d
  BY <1>1 DEF ServerTask
<1>5. ServerOwns' /\ ServerHolds'
  BY <1>1, <1>2, <1>4, MqttBrokerAssumption DEF ServerOwns, ServerHolds, Inv, Types, TaskTypes
<1>6. CountAgrees'
  BY <1>2, <1>4 DEF Inv, CountAgrees, Busy
<1> QED
  BY <1>1, <1>2, <1>3, <1>4, <1>5, <1>6, ServerFd DEF Inv, Types, TaskTypes

LEMMA ServerStopKeeps ==
    ASSUME Inv, ServerStop
    PROVE  Inv'
<1>1. UNCHANGED <<client, nconn, mgr, journal, dir, known, admin, hit, count>>
      /\ server.at \in {"accept", "accepted"} /\ server' = [at |-> "none", fd |-> 0]
      /\ fds' = IF server.fd = 0 THEN fds ELSE [fds EXCEPT ![server.fd] = 0]
  BY DEF ServerStop, ServerExits, adminVars
<1>2. server' \in ServerTask /\ server'.at = "none" /\ server'.fd = 0
  BY <1>1 DEF ServerTask
<1>3. ServerOwns' /\ ServerHolds' /\ CountAgrees'
  BY <1>1, <1>2 DEF ServerOwns, ServerHolds, Inv, CountAgrees, Busy
<1>4. CASE server.fd = 0
  BY <1>1, <1>2, <1>3, <1>4, TasksMove DEF Inv, Types, TaskTypes
<1>5. CASE server.fd # 0
  <2>1. server.fd \in Fds /\ fds[server.fd] = nconn + 1 /\ fds[server.fd] # 0
    BY <1>1, <1>5 DEF Inv, Owners, ServerOwns, Types, TaskTypes, ServerTask
  <2>2. 0 \in 0 .. MaxConn
    BY MqttBrokerAssumption
  <2> QED
    BY <1>1, <1>2, <1>3, <1>5, <2>1, <2>2, ServerFd DEF Inv, Types, TaskTypes
<1> QED
  BY <1>4, <1>5

\* The new connection gets the next number, which nobody has used, and with it
\* the server task's descriptor.
LEMMA AllocateKeeps ==
    ASSUME Inv, NEW r \in Client, nconn < MaxConn,
           client' = [client EXCEPT ![nconn + 1] = r], nconn' = nconn + 1,
           r.at = "new", r.sock = server.fd, r.captured = 0, ~r.connected, ~r.claimed,
           server.at = "counted", server' = [server EXCEPT !.at = "create"],
           UNCHANGED <<fds, count, journal, mgr, dir, known, admin, hit>>
    PROVE  Inv'
<1> DEFINE n == nconn + 1
<1>1. n \in ConnIds /\ nconn \in Nat /\ server.fd \in Fds /\ fds[server.fd] = n
  BY MqttBrokerAssumption
     DEF Inv, Types, TaskTypes, ServerTask, ConnIds, Owners, ServerOwns
<1>2. client[n].at = "none" /\ ~client[n].claimed
  BY <1>1 DEF Inv, StagesAgree, Retired
<1>3. client' \in [ConnIds -> Client] /\ client'[n] = r
      /\ \A d \in ConnIds : d # n => client'[d] = client[d]
  BY <1>1 DEF Inv, Types, ClientTypes
<1>4. server' \in ServerTask /\ server'.at = "create" /\ server'.fd = server.fd
  BY DEF Inv, Types, TaskTypes, ServerTask
<1>5. Types'
  <2>1. nconn' \in 0 .. MaxConn
    BY <1>1 DEF ConnIds
  <2> QED
    BY <1>3, <1>4, <2>1 DEF Inv, Types, TaskTypes, DirectoryTypes, ClientTypes
<1>6. StagesAgree'
  <2> SUFFICES ASSUME NEW d \in ConnIds
               PROVE  /\ d > nconn' => client'[d].at = "none"
                      /\ client'[d].at \in {"none", "leaving", "gone", "untasked"} => Retired(client'[d])
                      /\ client'[d].at \in {"none", "gone", "untasked"} =>
                            client'[d].sock = 0 /\ client'[d].captured = 0
                      /\ client'[d].at = "new" => /\ ~client'[d].connected /\ ~client'[d].claimed
                                                  /\ client'[d].captured = 0
    BY DEF StagesAgree
  <2>0. d \in Nat
    BY DEF ConnIds
  <2>1. CASE d = n
    BY <1>1, <1>3, <2>1
  <2>2. CASE d # n
    BY <1>1, <1>3, <2>0, <2>2 DEF Inv, StagesAgree
  <2> QED
    BY <2>1, <2>2
<1>7. ServerOwns' /\ ServerHolds'
  BY <1>1, <1>3, <1>4, MqttBrokerAssumption DEF ServerOwns, ServerHolds
<1>8. ClientsOwn'
  <2> SUFFICES ASSUME NEW d \in ConnIds, client'[d].sock # 0
               PROVE  fds[client'[d].sock] = d
    BY DEF ClientsOwn
  <2>1. CASE d = n
    BY <1>1, <1>3, <2>1
  <2>2. CASE d # n
    BY <1>3, <2>2 DEF Inv, Owners, ClientsOwn
  <2> QED
    BY <2>1, <2>2
<1>9. TakenOwned'
  <2> SUFFICES ASSUME NEW t \in mgr.taken
               PROVE  t[1] <= nconn' /\ client'[t[1]] = client[t[1]]
    BY DEF Inv, Owners, TakenOwned
  <2>1. t[1] \in ConnIds /\ t[1] <= nconn
    BY DEF Inv, Owners, TakenOwned, Types, TaskTypes
  <2>2. t[1] # n /\ t[1] <= nconn'
    BY <1>1, <2>1 DEF ConnIds
  <2> QED
    BY <1>3, <2>1, <2>2
<1>10. ClaimsAgree'
  <2>1. \A d \in ConnIds : client'[d].claimed =>
            client'[d].inUse /\ <<d, client'[d].sock>> \in admin'.targets
    <3> SUFFICES ASSUME NEW d \in ConnIds, client'[d].claimed
                 PROVE  client'[d].inUse /\ <<d, client'[d].sock>> \in admin'.targets
      OBVIOUS
    <3>1. d # n
      BY <1>3
    <3> QED
      BY <1>3, <3>1 DEF Inv, ClaimsAgree
  <2>2. \A t \in admin.targets : t[1] \in ConnIds \ {n}
    BY <1>2, TargetsKnown DEF Inv, ClaimsAgree
  <2> QED
    BY <1>3, <2>1, <2>2 DEF Inv, ClaimsAgree
<1>11. CountAgrees'
  <2>1. Busy' = Busy \cup {n} /\ n \notin Busy
    BY <1>1, <1>2, <1>3 DEF Busy
  <2>2. Cardinality(Busy') = Cardinality(Busy) + 1
    BY <2>1, BusyFinite, FS_AddElement
  <2> QED
    BY <1>4, <2>2, BusyFinite DEF Inv, CountAgrees
<1>12. SecretsKept'
  BY DEF Inv, SecretsKept, SecretPending
<1>13. PrincipalsAgree'
  <2> SUFFICES ASSUME NEW d \in ConnIds
               PROVE  Authorised(client[d])'
    BY DEF PrincipalsAgree
  <2>1. Authorised(client'[d])
    <3>1. Authorised(r)
      BY DEF Authorised, Inv, Types, DirectoryTypes, Journal
    <3> QED
      BY <1>3, <3>1 DEF Inv, PrincipalsAgree
  <2> QED
    BY <2>1 DEF Authorised, Current, InvalidationSince
<1>14. HitsUntasked'
  BY <1>2, <1>3 DEF Inv, HitsUntasked, Types, TaskTypes
<1> QED
  BY <1>5, <1>6, <1>7, <1>8, <1>9, <1>10, <1>11, <1>12, <1>13, <1>14 DEF Inv, Owners

LEMMA ServerAllocateKeeps ==
    ASSUME Inv, ServerAllocate
    PROVE  Inv'
<1>1. server.at = "counted"
      /\ UNCHANGED <<journal, mgr, dir, known, admin, hit>>
  BY DEF ServerAllocate, adminVars
<1>2. nconn < MaxConn /\ nconn \in Nat /\ server.fd \in Fds /\ fds[server.fd] = nconn + 1
  BY <1>1 DEF Inv, Types, TaskTypes, ServerTask, Owners, ServerOwns
<1>3. CASE /\ \E s \in Sources, proven \in BOOLEAN :
                 client' = [client EXCEPT ![nconn + 1] =
                      [Fresh EXCEPT !.at = "new", !.inUse = TRUE, !.sock = server.fd, !.peer = s]]
           /\ nconn' = nconn + 1 /\ server' = [server EXCEPT !.at = "create"]
           /\ UNCHANGED <<fds, count>>
  <2>1. PICK s \in Sources : client' = [client EXCEPT ![nconn + 1] =
                [Fresh EXCEPT !.at = "new", !.inUse = TRUE, !.sock = server.fd, !.peer = s]]
    BY <1>3
  <2> DEFINE r == [Fresh EXCEPT !.at = "new", !.inUse = TRUE, !.sock = server.fd, !.peer = s]
  <2>2. r \in Client /\ r.at = "new" /\ r.sock = server.fd /\ r.captured = 0
        /\ ~r.connected /\ ~r.claimed
    BY <1>2, FreshType DEF Client, Stages, Retired
  <2>3. client' = [client EXCEPT ![nconn + 1] = r]
    BY <2>1
  <2> HIDE DEF r
  <2> QED
    BY <1>1, <1>2, <1>3, <2>2, <2>3, AllocateKeeps
<1>4. CASE /\ fds' = [fds EXCEPT ![server.fd] = 0] /\ count' = count - 1
           /\ server' = [at |-> "accept", fd |-> 0] /\ UNCHANGED <<client, nconn>>
  <2>1. server' \in ServerTask /\ server'.at = "accept" /\ server'.fd = 0
    BY <1>4 DEF ServerTask
  <2>2. ServerOwns' /\ ServerHolds'
    BY <2>1 DEF ServerOwns, ServerHolds
  <2>3. Busy' = Busy
    BY <1>4 DEF Busy
  <2>4. CountAgrees' /\ count' \in Int
    BY <1>1, <1>4, <2>1, <2>3, BusyFinite DEF Inv, CountAgrees
  <2>5. 0 \in 0 .. MaxConn /\ fds[server.fd] # 0
    BY <1>2, MqttBrokerAssumption
  <2> QED
    BY <1>1, <1>2, <1>4, <2>1, <2>2, <2>4, <2>5, ServerFd
<1> QED
  BY <1>3, <1>4 DEF ServerAllocate

\* The record gets its task, or is released because there is none for it.
LEMMA CreateKeeps ==
    ASSUME Inv, server.at = "create", NEW r \in Client, client' = [client EXCEPT ![nconn] = r],
           r.at \in {"read", "untasked"}, ~r.connected, ~r.claimed, r.captured = 0,
           r.at = "untasked" => Retired(r) /\ r.sock = 0, r.sock \in {0, client[nconn].sock},
           server' \in ServerTask, ServerOwns', ServerHolds', CountAgrees',
           UNCHANGED <<fds, count, nconn, journal, mgr, dir, known, admin, hit>>
    PROVE  Inv'
<1>1. nconn \in ConnIds /\ client[nconn].at = "new"
      /\ ~client[nconn].claimed
  BY DEF Inv, Types, TaskTypes, ConnIds, Owners, ServerOwns, ServerHolds, StagesAgree
<1>2. client' \in [ConnIds -> Client] /\ client'[nconn] = r
      /\ \A d \in ConnIds : d # nconn => client'[d] = client[d]
  BY <1>1 DEF Inv, Types, ClientTypes
<1>3. Types'
  BY <1>2 DEF Inv, Types, TaskTypes, DirectoryTypes, ClientTypes
<1>4. StagesAgree'
  <2> SUFFICES ASSUME NEW d \in ConnIds
               PROVE  /\ d > nconn' => client'[d].at = "none"
                      /\ client'[d].at \in {"none", "leaving", "gone", "untasked"} =>
                            Retired(client'[d])
                      /\ client'[d].at \in {"none", "gone", "untasked"} =>
                            client'[d].sock = 0 /\ client'[d].captured = 0
                      /\ client'[d].at = "new" => /\ ~client'[d].connected /\ ~client'[d].claimed
                                                  /\ client'[d].captured = 0
    BY DEF StagesAgree
  <2>1. CASE d = nconn
    BY <1>1, <1>2, <2>1 DEF ConnIds
  <2>2. CASE d # nconn
    BY <1>2, <2>2 DEF Inv, StagesAgree
  <2> QED
    BY <2>1, <2>2
<1>5. ClientsOwn'
  <2> SUFFICES ASSUME NEW d \in ConnIds, client'[d].sock # 0
               PROVE  client'[d].sock = client[d].sock
    BY DEF Inv, Owners, ClientsOwn
  <2> QED
    BY <1>2
<1>6. TakenOwned'
  <2>1. \A d \in ConnIds : /\ client[d].at = "untasked" => client'[d].at = "untasked"
                           /\ client[d].sock = 0 => client'[d].sock = 0
    BY <1>1, <1>2
  <2> QED
    BY <2>1, TakenKept
<1>7. ClaimsAgree'
  <2>1. \A d \in ConnIds : client'[d].claimed =>
            client'[d].inUse /\ <<d, client'[d].sock>> \in admin'.targets
    BY <1>2 DEF Inv, ClaimsAgree
  <2>2. \A t \in admin.targets : t[1] \in ConnIds \ {nconn}
    BY <1>1, TargetsKnown DEF Inv, ClaimsAgree
  <2> QED
    BY <1>2, <2>1, <2>2 DEF Inv, ClaimsAgree
<1>8. SecretsKept'
  BY DEF Inv, SecretsKept, SecretPending
<1>9. PrincipalsAgree'
  <2> SUFFICES ASSUME NEW d \in ConnIds
               PROVE  Authorised(client[d])'
    BY DEF PrincipalsAgree
  <2>1. Authorised(client'[d])
    <3>1. Authorised(r)
      BY DEF Authorised, Inv, Types, DirectoryTypes, Journal
    <3> QED
      BY <1>2, <3>1 DEF Inv, PrincipalsAgree
  <2> QED
    BY <2>1 DEF Authorised, Current, InvalidationSince
<1>10. HitsUntasked'
  BY <1>1, <1>2 DEF Inv, HitsUntasked, Types, TaskTypes
<1> QED
  BY <1>3, <1>4, <1>5, <1>6, <1>7, <1>8, <1>9, <1>10 DEF Inv, Owners

LEMMA ServerCreateKeeps ==
    ASSUME Inv, ServerCreate
    PROVE  Inv'
<1>1. server.at = "create"
      /\ UNCHANGED <<fds, count, nconn, journal, mgr, dir, known, admin, hit>>
  BY DEF ServerCreate, adminVars
<1>2. nconn \in ConnIds /\ client[nconn] \in Client /\ client[nconn].at = "new"
      /\ ~client[nconn].connected /\ ~client[nconn].claimed /\ client[nconn].captured = 0
      /\ client \in [ConnIds -> Client]
  BY <1>1 DEF Inv, Types, TaskTypes, ClientTypes, ConnIds, Owners, ServerOwns, ServerHolds,
              StagesAgree
<1>3. CASE /\ client' = [client EXCEPT ![nconn].at = "read"]
           /\ server' = [at |-> "accept", fd |-> 0]
  <2> DEFINE r == [client[nconn] EXCEPT !.at = "read"]
  <2>1. r \in Client /\ r.at = "read" /\ ~r.connected /\ ~r.claimed /\ r.captured = 0
        /\ r.sock = client[nconn].sock
    BY <1>2 DEF Client, Stages
  <2>2. client' = [client EXCEPT ![nconn] = r]
    BY <1>2, <1>3
  <2>3. server' \in ServerTask /\ server'.at = "accept" /\ server'.fd = 0
    BY <1>3 DEF ServerTask
  <2> HIDE DEF r
  <2>4. ServerOwns' /\ ServerHolds'
    BY <2>3 DEF ServerOwns, ServerHolds
  <2>5. CountAgrees'
    <3>1. Busy' = Busy
      BY <1>2, <2>1, <2>2 DEF Busy
    <3> QED
      BY <1>1, <2>3, <3>1 DEF Inv, CountAgrees
  <2> QED
    BY <1>1, <2>1, <2>2, <2>3, <2>4, <2>5, CreateKeeps
<1>4. CASE /\ client' = [client EXCEPT ![nconn] = [Fresh EXCEPT !.at = "untasked"]]
           /\ server' = [server EXCEPT !.at = "undo"]
  <2> DEFINE r == [Fresh EXCEPT !.at = "untasked"]
  <2>1. r \in Client /\ r.at = "untasked" /\ Retired(r) /\ r.captured = 0 /\ r.sock = 0
    BY FreshType DEF Client, Stages, Retired
  <2>2. client' = [client EXCEPT ![nconn] = r]
    BY <1>4
  <2>3. server' \in ServerTask /\ server'.at = "undo" /\ server'.fd = server.fd
    BY <1>4 DEF Inv, Types, TaskTypes, ServerTask
  <2> HIDE DEF r
  <2>4. ServerOwns' /\ ServerHolds'
    BY <1>1, <1>2, <2>1, <2>2, <2>3 DEF Inv, Owners, ServerOwns, ServerHolds
  <2>5. CountAgrees'
    <3>1. Busy' = Busy \ {nconn} /\ nconn \in Busy
      BY <1>2, <2>1, <2>2 DEF Busy
    <3>2. Cardinality(Busy') = Cardinality(Busy) - 1
      BY <3>1, BusyFinite, FS_RemoveElement
    <3> QED
      BY <1>1, <2>3, <3>2, BusyFinite DEF Inv, CountAgrees
  <2> QED
    BY <1>1, <2>1, <2>2, <2>3, <2>4, <2>5, CreateKeeps DEF Retired
<1> QED
  BY <1>3, <1>4 DEF ServerCreate

\* The server task closes its copy of the descriptor of a connection without a
\* task: the connection's still, or a free number that a stop has closed.
LEMMA ServerUndoKeeps ==
    ASSUME Inv, ServerUndo
    PROVE  Inv'
<1>1. /\ server.at = "undo" /\ server' = [at |-> "accept", fd |-> 0]
      /\ count' = count - 1 /\ fds' = [fds EXCEPT ![server.fd] = 0]
      /\ hit' \subseteq hit \cup {nconn}
      /\ UNCHANGED <<client, nconn, mgr, journal, dir, known, admin>>
  BY DEF ServerUndo, adminVars
<1>2. nconn \in ConnIds /\ client[nconn].at = "untasked" /\ client[nconn].sock = 0
      /\ server.fd \in Fds /\ fds[server.fd] \in {0, nconn}
  BY <1>1 DEF Inv, Types, TaskTypes, ServerTask, ConnIds, Owners, ServerOwns, ServerHolds,
              StagesAgree
<1>3. fds' \in [Fds -> 0 .. MaxConn] /\ fds'[server.fd] = 0
      /\ \A e \in Fds : e # server.fd => fds'[e] = fds[e]
  BY <1>1, <1>2, MqttBrokerAssumption DEF Inv, Types, TaskTypes
<1>4. server' \in ServerTask /\ server'.at = "accept" /\ server'.fd = 0
  BY <1>1 DEF ServerTask
<1>5. Types'
  BY <1>1, <1>2, <1>3, <1>4 DEF Inv, Types, TaskTypes, DirectoryTypes, ClientTypes
<1>6. StagesAgree' /\ ClaimsAgree'
  BY <1>1 DEF Inv, StagesAgree, ClaimsAgree
<1>7. ServerOwns' /\ ServerHolds'
  BY <1>4 DEF ServerOwns, ServerHolds
<1>8. ClientsOwn'
  <2> SUFFICES ASSUME NEW c \in ConnIds, client[c].sock # 0
               PROVE  fds'[client[c].sock] = c
    BY <1>1 DEF ClientsOwn
  <2>1. client[c].sock \in Fds /\ fds[client[c].sock] = c /\ c # 0
    BY ClientKnown DEF Inv, Owners, ClientsOwn, Client, ConnIds
  <2>2. client[c].sock # server.fd
    BY <1>2, <2>1
  <2> QED
    BY <1>3, <2>1, <2>2
<1>9. TakenOwned'
  <2> SUFFICES ASSUME NEW t \in mgr.taken
               PROVE  \/ fds'[t[2]] = t[1]
                      \/ fds'[t[2]] = 0 /\ client[t[1]].at = "untasked"
    BY <1>1 DEF Inv, Owners, TakenOwned
  <2>1. t[1] \in ConnIds /\ t[2] \in Fds
        /\ (fds[t[2]] = t[1] \/ (fds[t[2]] = 0 /\ client[t[1]].at = "untasked"))
    BY DEF Inv, Owners, TakenOwned, Types, TaskTypes
  <2>2. CASE t[2] = server.fd
    BY <1>2, <1>3, <2>1, <2>2 DEF ConnIds
  <2>3. CASE t[2] # server.fd
    BY <1>3, <2>1, <2>3
  <2> QED
    BY <2>2, <2>3
<1>10. CountAgrees'
  <2>1. Busy' = Busy
    BY <1>1 DEF Busy
  <2> QED
    BY <1>1, <1>4, <2>1, BusyFinite DEF Inv, CountAgrees
<1>11. SecretsKept'
  BY <1>1 DEF Inv, SecretsKept, SecretPending
<1>12. PrincipalsAgree'
  BY <1>1 DEF Inv, PrincipalsAgree, Authorised, Current, InvalidationSince
<1>13. HitsUntasked'
  BY <1>1, <1>2 DEF Inv, HitsUntasked
<1> QED
  BY <1>5, <1>6, <1>7, <1>8, <1>9, <1>10, <1>11, <1>12, <1>13 DEF Inv, Owners

---------------------------------------------------------------------------
(* The manager.                                                            *)

\* The waits, and what is decided after them.
LEMMA ManagerWaitsKeep ==
    ASSUME Inv, StartEnds \/ StartTimedOut \/ Stop \/ StopWaits \/ StopDecides
    PROVE  Inv'
<1>1. UNCHANGED <<client, fds, nconn, journal, dir, known, admin, hit, server, count>>
      /\ mgr'.taken = {}
  BY DEF StartEnds, StartTimedOut, Stop, StopWaits, StopDecides, MgrStep, adminVars
<1>2. ServerOwns' /\ ServerHolds' /\ CountAgrees'
  BY <1>1 DEF Inv, Owners, ServerOwns, ServerHolds, CountAgrees, Busy
<1> QED
  BY <1>1, <1>2, TasksMove DEF Inv, Types, TaskTypes

\* A broker that is observed as stopped has no client left, so that a start
\* may clear its table.
LEMMA NobodyLeft ==
    ASSUME Inv, ObservedStopped
    PROVE  \A c \in ConnIds : client[c].at \in {"none", "gone", "untasked"}
<1>1. Cardinality(Busy) = 0
  BY BusyFinite DEF Inv, ObservedStopped, CountAgrees
<1>2. Busy = {}
  BY <1>1, BusyFinite, FS_EmptySet
<1> QED
  BY <1>2 DEF Busy

LEMMA StartKeeps ==
    ASSUME Inv, Start
    PROVE  Inv'
<1>1. /\ client' = [c \in ConnIds |-> IF client[c].at \in {"gone", "untasked"} THEN client[c]
                                                                                  ELSE Fresh]
      /\ journal' = [gen |-> 0, events |-> [i \in 0 .. Capacity - 1 |-> <<0, "none">>]]
      /\ server' = [at |-> "boot", fd |-> 0] /\ count' = 0 /\ mgr'.taken = {}
      /\ UNCHANGED <<nconn, fds, hit, dir, known, admin>>
  BY DEF Start, MgrStep, adminVars
<1>2. \A c \in ConnIds : client[c].at \in {"none", "gone", "untasked"}
  BY NobodyLeft DEF Start
<1>3. \A c \in ConnIds : /\ Retired(client[c]) /\ client[c].sock = 0 /\ client[c].captured = 0
                         /\ client[c] \in Client
  BY <1>2, ClientKnown DEF Inv, StagesAgree
<1>4. \A c \in ConnIds : /\ client'[c].at \in {"none", "gone", "untasked"} /\ client'[c] \in Client
                         /\ Retired(client'[c]) /\ client'[c].sock = 0
                         /\ client'[c].captured = 0
                         /\ (client[c].at = "none" => client'[c].at = "none")
                         /\ (client[c].at = "untasked" => client'[c].at = "untasked")
  BY <1>1, <1>3, FreshType
<1>5. journal' \in Journal
  <2>1. [i \in 0 .. Capacity - 1 |-> <<0, "none">>] \in [0 .. Capacity - 1 -> Nat \X Names]
    BY DEF Names
  <2> QED
    BY <1>1, <2>1 DEF Journal
<1>6. server' \in ServerTask /\ server'.at = "boot" /\ server'.fd = 0
  BY <1>1 DEF ServerTask
<1>7. Types'
  <2>1. client' \in [ConnIds -> Client]
    BY <1>1, <1>4
  <2> QED
    BY <1>1, <1>5, <1>6, <2>1 DEF Inv, Types, TaskTypes, DirectoryTypes, ClientTypes
<1>8. StagesAgree'
  BY <1>1, <1>4 DEF Inv, StagesAgree
<1>9. Owners'
  BY <1>1, <1>4, <1>6 DEF Owners, ServerOwns, ServerHolds, ClientsOwn, TakenOwned
<1>10. admin.targets = {}
  BY <1>3, TargetsKnown DEF Inv, ClaimsAgree, Retired
<1>11. ClaimsAgree'
  BY <1>1, <1>4, <1>10 DEF ClaimsAgree, Retired
<1>12. CountAgrees'
  <2>1. Busy' = {}
    BY <1>4 DEF Busy
  <2> QED
    BY <1>1, <1>6, <2>1, FS_EmptySet DEF CountAgrees
<1>13. SecretsKept'
  BY <1>1 DEF Inv, SecretsKept, SecretPending
<1>14. PrincipalsAgree'
  <2> SUFFICES ASSUME NEW c \in ConnIds
               PROVE  Authorised(client[c])'
    BY DEF PrincipalsAgree
  <2>1. client'[c].at \in {"none", "gone", "untasked"} /\ ~client'[c].connected /\ client'[c].captured = 0
    BY <1>4 DEF Retired
  <2>2. journal'.gen = 0
    BY <1>1
  <2> QED
    BY <2>1, <2>2 DEF Authorised
<1>15. HitsUntasked'
  BY <1>1, <1>4 DEF Inv, HitsUntasked, Types, TaskTypes
<1> QED
  BY <1>15, <1>7, <1>8, <1>9, <1>11, <1>12, <1>13, <1>14 DEF Inv

\* The sockets go from the clients to the manager while nobody claims one.
LEMMA SweepKeeps ==
    ASSUME Inv, Sweep
    PROVE  Inv'
<1>1. /\ \A c \in ConnIds : ~client[c].claimed
      /\ mgr'.taken = {<<c, client[c].sock>> : c \in {c \in ConnIds : client[c].inUse
                                                                   /\ client[c].sock # 0}}
      /\ client' = [c \in ConnIds |-> IF client[c].inUse THEN [client[c] EXCEPT !.sock = 0]
                                                         ELSE client[c]]
      /\ UNCHANGED <<server, count, nconn, fds, journal, hit, dir, known, admin>>
  BY DEF Sweep, adminVars
<1>2. \A c \in ConnIds :
          /\ client'[c] \in Client /\ client'[c].at = client[c].at
          /\ client'[c].inUse = client[c].inUse /\ client'[c].connected = client[c].connected
          /\ client'[c].claimed = client[c].claimed /\ client'[c].captured = client[c].captured
          /\ client'[c].invalidated = client[c].invalidated
          /\ client'[c].principal = client[c].principal /\ client'[c].offer = client[c].offer
          /\ client'[c].sock \in {0, client[c].sock}
          /\ (client[c].inUse => client'[c].sock = 0)
  <2> SUFFICES ASSUME NEW c \in ConnIds
               PROVE  /\ client'[c] \in Client /\ client'[c].at = client[c].at
                      /\ client'[c].inUse = client[c].inUse
                      /\ client'[c].connected = client[c].connected
                      /\ client'[c].claimed = client[c].claimed
                      /\ client'[c].captured = client[c].captured
                      /\ client'[c].invalidated = client[c].invalidated
                      /\ client'[c].principal = client[c].principal
                      /\ client'[c].offer = client[c].offer
                      /\ client'[c].sock \in {0, client[c].sock}
                      /\ (client[c].inUse => client'[c].sock = 0)
    OBVIOUS
  <2>1. client[c] \in Client
    BY ClientKnown
  <2>2. CASE client[c].inUse
    BY <1>1, <2>1, <2>2 DEF Client
  <2>3. CASE ~client[c].inUse
    BY <1>1, <2>1, <2>3
  <2> QED
    BY <2>2, <2>3
<1>3. \A t \in mgr'.taken : /\ t[1] \in ConnIds /\ t[2] \in Fds /\ t[1] <= nconn
                            /\ fds[t[2]] = t[1] /\ client'[t[1]].sock = 0
                            /\ t \in ConnIds \X Fds
  <2> SUFFICES ASSUME NEW c \in ConnIds, client[c].inUse, client[c].sock # 0
               PROVE  /\ client[c].sock \in Fds /\ c <= nconn /\ fds[client[c].sock] = c
                      /\ client'[c].sock = 0
    BY <1>1
  <2>1. client[c].at # "none"
    BY DEF Inv, StagesAgree, Retired
  <2>2. c <= nconn
    BY <2>1 DEF Inv, StagesAgree, ConnIds, Types, TaskTypes
  <2> QED
    BY <1>2, <2>2, ClientKnown DEF Client, Inv, Owners, ClientsOwn
<1>4. Types'
  <2>1. client' \in [ConnIds -> Client]
    BY <1>1, <1>2
  <2> QED
    BY <1>1, <1>3, <2>1 DEF Inv, Types, TaskTypes, DirectoryTypes, ClientTypes
<1>5. StagesAgree'
  BY <1>1, <1>2 DEF Inv, StagesAgree, Retired
<1>5a. ServerHolds' /\ HitsUntasked'
  BY <1>1, <1>2, StagesKept
<1>6. Owners'
  BY <1>5a, <1>1, <1>2, <1>3 DEF Inv, Owners, ServerOwns, ClientsOwn, TakenOwned
<1>7. admin.targets = {}
  BY <1>1, TargetsKnown DEF Inv, ClaimsAgree
<1>8. ClaimsAgree'
  BY <1>1, <1>2, <1>7 DEF ClaimsAgree
<1>9. CountAgrees'
  <2>1. Busy' = Busy
    BY <1>2 DEF Busy
  <2> QED
    BY <1>1, <2>1 DEF Inv, CountAgrees
<1>10. SecretsKept'
  BY <1>1 DEF Inv, SecretsKept, SecretPending
<1>11. PrincipalsAgree'
  <2> SUFFICES ASSUME NEW c \in ConnIds
               PROVE  Authorised(client[c])'
    BY DEF PrincipalsAgree
  <2>1. Authorised(client'[c])
    BY <1>2, ClientKnown DEF Authorised
  <2> QED
    BY <1>1, <2>1 DEF Authorised, Current, InvalidationSince
<1> QED
  BY <1>5a, <1>4, <1>5, <1>6, <1>8, <1>9, <1>10, <1>11 DEF Inv

LEMMA CloseSocketsKeeps ==
    ASSUME Inv, CloseSockets
    PROVE  Inv'
<1>1. /\ fds' = [d \in Fds |-> IF \E t \in mgr.taken : t[2] = d THEN 0 ELSE fds[d]]
      /\ hit' = hit \cup {c \in ConnIds : \E t \in mgr.taken : t[1] = c /\ fds[t[2]] # c}
      /\ mgr'.taken = {}
      /\ UNCHANGED <<server, count, nconn, client, journal, dir, known, admin>>
  BY DEF CloseSockets, adminVars
<1>2. \A t \in mgr.taken : /\ t[1] \in ConnIds /\ t[2] \in Fds /\ t[1] <= nconn
                           /\ client[t[1]].sock = 0 /\ fds[t[2]] \in {0, t[1]}
                           /\ (fds[t[2]] # t[1] => client[t[1]].at = "untasked")
  BY DEF Inv, Owners, TakenOwned, Types, TaskTypes
<1>3. HitsUntasked' /\ hit' \subseteq ConnIds
  BY <1>1, <1>2 DEF Inv, HitsUntasked, Types, TaskTypes
<1>4. Types'
  <2>1. fds' \in [Fds -> 0 .. MaxConn]
    BY <1>1, MqttBrokerAssumption DEF Inv, Types, TaskTypes
  <2> QED
    BY <1>1, <1>3, <2>1 DEF Inv, Types, TaskTypes, DirectoryTypes, ClientTypes
<1>5. ServerOwns' /\ ServerHolds'
  <2>1. CASE server.at \in {"accepted", "counted"}
    <3>1. server.fd \in Fds /\ fds[server.fd] = nconn + 1 /\ nconn \in Nat
      BY <2>1 DEF Inv, Owners, ServerOwns, Types, TaskTypes, ServerTask
    <3>2. \A t \in mgr.taken : t[2] # server.fd
      BY <1>2, <3>1 DEF ConnIds
    <3> QED
      BY <1>1, <2>1, <3>1, <3>2 DEF Inv, Owners, ServerOwns, ServerHolds
  <2>2. CASE server.at \in {"create", "undo"}
    <3>1. server.fd \in Fds /\ fds[server.fd] \in {0, nconn}
      BY <2>2 DEF Inv, Owners, ServerOwns, Types, TaskTypes, ServerTask
    <3>2. fds'[server.fd] \in {0, nconn}
      BY <1>1, <3>1
    <3> QED
      BY <1>1, <2>2, <3>2 DEF Inv, Owners, ServerOwns, ServerHolds
  <2>3. CASE server.at \notin {"accepted", "counted", "create", "undo"}
    BY <1>1, <2>3 DEF Inv, Owners, ServerOwns, ServerHolds
  <2> QED
    BY <2>1, <2>2, <2>3
<1>6. ClientsOwn'
  <2> SUFFICES ASSUME NEW c \in ConnIds, client[c].sock # 0
               PROVE  fds'[client[c].sock] = c
    BY <1>1 DEF ClientsOwn
  <2>1. client[c].sock \in Fds /\ fds[client[c].sock] = c
    BY ClientKnown DEF Inv, Owners, ClientsOwn, Client
  <2>2. \A t \in mgr.taken : t[2] # client[c].sock
    BY <1>2, <2>1 DEF ConnIds
  <2> QED
    BY <1>1, <2>1, <2>2
<1>7. TakenOwned'
  BY <1>1 DEF TakenOwned
<1>8. StagesAgree' /\ ClaimsAgree'
  BY <1>1 DEF Inv, StagesAgree, ClaimsAgree
<1>9. CountAgrees'
  BY <1>1 DEF Inv, CountAgrees, Busy
<1>10. SecretsKept'
  BY <1>1 DEF Inv, SecretsKept, SecretPending
<1>11. PrincipalsAgree'
  BY <1>1 DEF Inv, PrincipalsAgree, Authorised, Current, InvalidationSince
<1> QED
  BY <1>3, <1>4, <1>5, <1>6, <1>7, <1>8, <1>9, <1>10, <1>11 DEF Inv, Owners

---------------------------------------------------------------------------
(* Administration.                                                         *)

\* A fence marks the sessions of its machine, and the journal shows it to the
\* clients that are not yet bound: whoever is left has the directory's principal.
LEMMA FenceProtects ==
    ASSUME Inv, NEW m \in Machines, FenceMachine(m), UNCHANGED <<dir, known>>,
           \A p : Current(p) => p.id = m \/ Revalidate(dir[p.id], p)
    PROVE  PrincipalsAgree'
<1> SUFFICES ASSUME NEW c \in ConnIds
             PROVE  Authorised(client[c])'
  BY DEF PrincipalsAgree
<1>1. PICK r \in Client : r = client[c] /\ Authorised(r)
  BY ClientKnown
<1>2. PICK q : q = client'[c]
  OBVIOUS
<1>3. q = [r EXCEPT !.invalidated = @ \/ DisconnectMatches(c, m)]
  BY <1>1, <1>2 DEF FenceMachine
<1>4. q.at = r.at /\ q.inUse = r.inUse /\ q.connected = r.connected /\ q.sock = r.sock
      /\ q.principal = r.principal /\ q.offer = r.offer /\ q.captured = r.captured
      /\ q.invalidated = (r.invalidated \/ DisconnectMatches(c, m))
  BY <1>1, <1>3 DEF Client
<1>5. journal' = InvalidationRecord(m) /\ journal'.gen = journal.gen + 1 /\ journal.gen \in Nat
  BY RecordType DEF FenceMachine, Inv, Types, DirectoryTypes, Journal
<1>6. r.captured \in Nat /\ r.captured <= journal.gen
  BY <1>1 DEF Client, Authorised
<1>7. q.captured <= journal'.gen
  BY <1>4, <1>5, <1>6
<1>8. q.at = "verified" =>
          Current(q.principal)' \/ InvalidationSince(q.principal.id, q.captured)'
  <2> HAVE q.at = "verified"
  <2>1. CASE InvalidationSince(r.principal.id, r.captured)
    <3>1. InvalidationSince(r.principal.id, r.captured)'
      BY <1>5, <1>6, <2>1, SinceStays DEF Inv, Types
    <3> QED
      BY <1>4, <3>1
  <2>2. CASE r.principal.id = m
    <3>1. InvalidationSince(m, r.captured)'
      BY <1>5, <1>6, RecordedSince DEF Inv, Types
    <3> QED
      BY <1>4, <2>2, <3>1
  <2>3. CASE Revalidate(dir[r.principal.id], r.principal)
    BY <1>4, <2>3 DEF Current, Revalidate
  <2> QED
    BY <1>1, <1>4, <2>1, <2>2, <2>3 DEF Authorised
<1>9. q.inUse /\ q.connected /\ ~q.invalidated /\ q.sock # 0 => Current(q.principal)'
  <2> HAVE q.inUse /\ q.connected /\ ~q.invalidated /\ q.sock # 0
  <2>1. Current(r.principal) /\ r.principal.id # m
    BY <1>1, <1>4 DEF Authorised, DisconnectMatches
  <2>2. Revalidate(dir[r.principal.id], r.principal)
    BY <2>1
  <2> QED
    BY <1>4, <2>2 DEF Current, Revalidate
<1>10. Authorised(q)'
  BY <1>1, <1>4, <1>7, <1>8, <1>9 DEF Authorised
<1> QED
  BY <1>2, <1>10 DEF Authorised, Current, InvalidationSince

\* A step of the administration leaves tasks and descriptors alone.
LEMMA TasksStay ==
    ASSUME Inv, client' \in [ConnIds -> Client], UNCHANGED <<server, nconn, count, fds, mgr, hit>>,
           DirectoryTypes',
           \A c \in ConnIds :
              /\ client'[c].at = client[c].at /\ client'[c].sock = client[c].sock
              /\ client'[c].inUse = client[c].inUse /\ client'[c].connected = client[c].connected
              /\ client'[c].captured = client[c].captured
              /\ client'[c].claimed => client[c].claimed \/ client[c].connected
    PROVE  Types' /\ StagesAgree' /\ Owners' /\ CountAgrees' /\ HitsUntasked'
<1>0. ServerHolds' /\ HitsUntasked'
  BY StagesKept
<1>1. Types'
  BY DEF Inv, Types, TaskTypes, ClientTypes
<1>2. StagesAgree'
  BY DEF Inv, StagesAgree, Retired
<1>3. Owners'
  <2>1. ServerOwns'
    BY DEF Inv, Owners, ServerOwns
  <2>2. ClientsOwn'
    BY DEF Inv, Owners, ClientsOwn
  <2>3. TakenOwned'
    BY TakenKept
  <2> QED
    BY <1>0, <2>1, <2>2, <2>3 DEF Owners
<1>4. CountAgrees'
  <2>1. Busy' = Busy
    BY DEF Busy
  <2> QED
    BY <2>1 DEF Inv, CountAgrees
<1> QED
  BY <1>0, <1>1, <1>2, <1>3, <1>4

\* The next step of the same change tells nobody a secret.
LEMMA SecretsStay ==
    ASSUME SecretsKept, UNCHANGED <<dir, known>>, admin'.m = admin.m, admin'.m \in Machines,
           admin'.at # "fenced", SecretPending' => SecretPending
    PROVE  SecretsKept'
BY DEF SecretsKept

\* The fields that a fence leaves alone.
LEMMA FenceFields ==
    ASSUME Inv, NEW m \in Machines, FenceMachine(m)
    PROVE  /\ client' \in [ConnIds -> Client]
           /\ \A c \in ConnIds :
                 /\ client'[c].at = client[c].at /\ client'[c].sock = client[c].sock
                 /\ client'[c].inUse = client[c].inUse
                 /\ client'[c].connected = client[c].connected
                 /\ client'[c].captured = client[c].captured
                 /\ client'[c].claimed = client[c].claimed
<1>1. \A c \in ConnIds : client[c] \in Client
  BY ClientKnown
<1>2. \A c \in ConnIds : DisconnectMatches(c, m) \in BOOLEAN
  BY DEF DisconnectMatches
<1>3. \A c \in ConnIds :
          client'[c] = [client[c] EXCEPT !.invalidated = @ \/ DisconnectMatches(c, m)]
  BY DEF FenceMachine
<1>4. ASSUME NEW c \in ConnIds
      PROVE  client'[c] \in Client
  <2>1. PICK b \in BOOLEAN : b = (client[c].invalidated \/ DisconnectMatches(c, m))
    BY <1>2, Zenon
  <2>2. client'[c] = [client[c] EXCEPT !.invalidated = b]
    BY <1>3, <2>1
  <2> QED
    BY <1>1, <2>2 DEF Client
<1>5. client' \in [ConnIds -> Client]
  BY <1>4 DEF FenceMachine
<1> QED
  BY <1>1, <1>3, <1>5 DEF Client

LEMMA FenceKeeps ==
    ASSUME Inv, NEW m \in Machines, FenceMachine(m),
           UNCHANGED <<dir, known, count, fds, hit, server, nconn, mgr>>,
           admin' \in AdminTask, admin'.targets = {}, admin.targets = {}, SecretsKept',
           \A p : Current(p) => p.id = m \/ Revalidate(dir[p.id], p)
    PROVE  Inv'
<1>1. DirectoryTypes'
  BY RecordType DEF FenceMachine, Inv, Types, DirectoryTypes
<1>2. Types' /\ StagesAgree' /\ Owners' /\ CountAgrees' /\ HitsUntasked'
  BY <1>1, FenceFields, TasksStay
<1>3. ClaimsAgree'
  BY FenceFields DEF Inv, ClaimsAgree
<1>4. PrincipalsAgree'
  BY FenceProtects
<1> QED
  BY <1>2, <1>3, <1>4 DEF Inv

LEMMA ActionFenceKeeps ==
    ASSUME Inv, ActionFence
    PROVE  Inv'
<1>1. PICK m \in Machines, op \in Operations :
          FenceMachine(m) /\ admin' = [at |-> "fenced", m |-> m, op |-> op, targets |-> {}]
  BY DEF ActionFence
<1>2. admin.at = "idle" /\ admin.targets = {}
      /\ UNCHANGED <<dir, known, count, fds, hit, server, nconn, mgr>>
  BY DEF ActionFence, brokerVars, Inv, ClaimsAgree
<1>3. admin' \in AdminTask /\ admin'.targets = {} /\ admin'.at = "fenced" /\ admin'.m = m
      /\ admin'.op = op
  BY <1>1 DEF AdminTask, Names
<1>4. SecretsKept'
  BY <1>2, <1>3 DEF Inv, SecretsKept, SecretPending
<1>5. \A p : Current(p) => p.id = m \/ Revalidate(dir[p.id], p)
  BY <1>2 DEF Current
<1> QED
  BY <1>1, <1>2, <1>3, <1>4, <1>5, FenceKeeps

\* The fence of a disconnect covers the machine whose change was committed.
LEMMA DisconnectFenceKeeps ==
    ASSUME Inv, DisconnectFence
    PROVE  Inv'
<1>1. admin.at \in {"committed", "quarantined"} /\ FenceMachine(admin.m)
      /\ UNCHANGED <<dir, known, count, fds, hit, server, nconn, mgr>>
      /\ admin' = [admin EXCEPT !.at = IF admin.at = "committed" THEN "claim" ELSE "reclaim",
                                !.targets = {}]
  BY DEF DisconnectFence, AdminStep, brokerVars
<1>2. admin \in AdminTask /\ admin.m \in Machines /\ admin.targets = {}
  BY <1>1 DEF Inv, Types, DirectoryTypes, SecretsKept, ClaimsAgree
<1>3. admin' \in AdminTask /\ admin'.targets = {} /\ admin'.m = admin.m /\ admin'.op = admin.op
      /\ admin'.at = IF admin.at = "committed" THEN "claim" ELSE "reclaim"
  BY <1>1, <1>2 DEF AdminTask
<1>4. SecretsKept'
  <2>1. SecretPending' => SecretPending
    BY <1>1, <1>3 DEF SecretPending
  <2> QED
    BY <1>1, <1>2, <1>3, <2>1 DEF Inv, SecretsKept
<1>5. \A p : Current(p) => p.id = admin.m \/ Revalidate(dir[p.id], p)
  BY DEF Current
<1>6. PICK m \in Machines : m = admin.m
  BY <1>2
<1> QED
  BY <1>1, <1>2, <1>3, <1>4, <1>5, <1>6, FenceKeeps

LEMMA DisconnectClaimKeeps ==
    ASSUME Inv, DisconnectClaim
    PROVE  Inv'
<1> DEFINE hits == {c \in ConnIds : DisconnectMatches(c, admin.m)}
<1>1. /\ client' = [c \in ConnIds |-> IF c \in hits
                       THEN [client[c] EXCEPT !.invalidated = TRUE, !.claimed = TRUE]
                       ELSE client[c]]
      /\ admin' = [admin EXCEPT !.at = IF @ = "claim" THEN "shutdown" ELSE "reshutdown",
                                !.targets = {<<c, client[c].sock>> : c \in hits}]
      /\ admin.at \in {"claim", "reclaim"}
      /\ UNCHANGED <<count, fds, hit, journal, dir, known, server, nconn, mgr>>
  BY DEF DisconnectClaim, brokerVars
<1>2. \A c \in ConnIds : client[c] \in Client /\ Authorised(client[c]) /\ ~client[c].claimed
  <2>1. admin.targets = {}
    BY <1>1 DEF Inv, ClaimsAgree
  <2> QED
    BY <2>1, ClientKnown DEF Inv, ClaimsAgree
<1>3. \A c \in hits : client[c].inUse /\ client[c].connected /\ client[c].sock # 0 /\ c \in ConnIds
                      /\ client[c].sock \in Fds
  BY <1>2 DEF DisconnectMatches, Client
<1>4. \A c \in ConnIds :
          /\ client'[c] \in Client /\ client'[c].at = client[c].at
          /\ client'[c].inUse = client[c].inUse /\ client'[c].connected = client[c].connected
          /\ client'[c].captured = client[c].captured /\ client'[c].sock = client[c].sock
          /\ client'[c].principal = client[c].principal /\ client'[c].offer = client[c].offer
          /\ (client'[c].claimed <=> c \in hits)
          /\ (client[c].invalidated => client'[c].invalidated)
  <2> SUFFICES ASSUME NEW c \in ConnIds
               PROVE  /\ client'[c] \in Client /\ client'[c].at = client[c].at
                      /\ client'[c].inUse = client[c].inUse
                      /\ client'[c].connected = client[c].connected
                      /\ client'[c].captured = client[c].captured
                      /\ client'[c].sock = client[c].sock
                      /\ client'[c].principal = client[c].principal
                      /\ client'[c].offer = client[c].offer
                      /\ (client'[c].claimed <=> c \in hits)
                      /\ (client[c].invalidated => client'[c].invalidated)
    OBVIOUS
  <2>1. CASE c \in hits
    <3>1. client'[c] = [client[c] EXCEPT !.invalidated = TRUE, !.claimed = TRUE]
      BY <1>1, <2>1
    <3> HIDE DEF hits
    <3> QED
      BY <1>2, <2>1, <3>1 DEF Client
  <2>2. CASE c \notin hits
    <3>1. client'[c] = client[c]
      BY <1>1, <2>2
    <3> HIDE DEF hits
    <3> QED
      BY <1>2, <2>2, <3>1
  <2> QED
    BY <2>1, <2>2
<1>5. admin'.targets = {<<c, client[c].sock>> : c \in hits} /\ admin'.m = admin.m
      /\ admin'.op = admin.op
      /\ admin'.at = IF admin.at = "claim" THEN "shutdown" ELSE "reshutdown"
  BY <1>1 DEF Inv, Types, DirectoryTypes, AdminTask
<1>6. admin' \in AdminTask
  <2>1. {<<c, client[c].sock>> : c \in hits} \in SUBSET (ConnIds \X Fds)
    BY <1>3
  <2> HIDE DEF hits
  <2> QED
    BY <1>1, <2>1 DEF Inv, Types, DirectoryTypes, AdminTask
<1> HIDE DEF hits
<1>7. client' \in [ConnIds -> Client]
  BY <1>1, <1>4
<1>8. DirectoryTypes'
  BY <1>1, <1>6 DEF Inv, Types, DirectoryTypes
<1>9. Types' /\ StagesAgree' /\ Owners' /\ CountAgrees' /\ HitsUntasked'
  BY <1>1, <1>3, <1>4, <1>7, <1>8, TasksStay
<1>10. ClaimsAgree'
  <2>1. \A c \in ConnIds : client'[c].claimed =>
            client'[c].inUse /\ <<c, client'[c].sock>> \in admin'.targets
    BY <1>3, <1>4, <1>5
  <2>2. \A t \in admin'.targets : client'[t[1]].claimed /\ client'[t[1]].sock = t[2]
    <3> SUFFICES ASSUME NEW c \in hits
                 PROVE  client'[c].claimed /\ client'[c].sock = client[c].sock
      BY <1>5
    <3> QED
      BY <1>3, <1>4
  <2>3. admin'.at \in {"shutdown", "reshutdown"}
    BY <1>5
  <2> QED
    BY <2>1, <2>2, <2>3 DEF ClaimsAgree
<1>11. SecretsKept'
  <2>1. admin.at \in {"claim", "reclaim"} /\ UNCHANGED <<dir, known>>
    BY <1>1
  <2>2. SecretPending' => SecretPending
    BY <1>5, <2>1 DEF SecretPending
  <2>3. SecretsKept
    BY Zenon DEF Inv
  <2>4. admin.m \in Machines
    BY <2>1, <2>3 DEF SecretsKept
  <2>5. admin'.m = admin.m /\ admin'.m \in Machines
    BY <1>5, <2>4, Zenon
  <2>6. admin'.at # "fenced"
    BY <1>5, Zenon
  <2> QED
    BY <2>1, <2>2, <2>3, <2>5, <2>6, SecretsStay
<1>12. PrincipalsAgree'
  <2> SUFFICES ASSUME NEW c \in ConnIds
               PROVE  Authorised(client[c])'
    BY DEF PrincipalsAgree
  <2>1. Authorised(client'[c])
    BY <1>2, <1>4 DEF Authorised
  <2> QED
    BY <1>1, <1>5, <2>1 DEF Authorised, Current, InvalidationSince
<1> QED
  BY <1>1, <1>9, <1>10, <1>11, <1>12 DEF Inv

LEMMA DisconnectShutdownKeeps ==
    ASSUME Inv, DisconnectShutdown
    PROVE  Inv'
<1>1. /\ client' = [c \in ConnIds |->
                     [client[c] EXCEPT
                         !.shut = @ \/ \E t \in admin.targets : t[1] = c,
                         !.claimed = @ /\ ~(client[c].inUse
                                            /\ <<c, client[c].sock>> \in admin.targets)]]
      /\ hit' = hit \cup {c \in ConnIds : \E t \in admin.targets : t[1] = c /\ fds[t[2]] # c}
      /\ admin' = [admin EXCEPT !.at = IF admin.at = "shutdown" THEN "cut" ELSE "done",
                                !.targets = {}]
      /\ admin.at \in {"shutdown", "reshutdown"}
      /\ UNCHANGED <<count, fds, journal, dir, known, server, nconn, mgr>>
  BY DEF DisconnectShutdown, AdminStep, brokerVars
<1>2. \A c \in ConnIds : client[c] \in Client /\ Authorised(client[c])
  BY ClientKnown
<1>3. \A c \in ConnIds :
          /\ client'[c] \in Client /\ client'[c].at = client[c].at
          /\ client'[c].inUse = client[c].inUse /\ client'[c].connected = client[c].connected
          /\ client'[c].captured = client[c].captured /\ client'[c].sock = client[c].sock
          /\ client'[c].principal = client[c].principal /\ client'[c].offer = client[c].offer
          /\ client'[c].invalidated = client[c].invalidated
          /\ client'[c].claimed = (client[c].claimed
                 /\ ~(client[c].inUse /\ <<c, client[c].sock>> \in admin.targets))
  BY <1>1, <1>2, ZenonT(60) DEF Client
<1>4. \A c \in ConnIds : ~client'[c].claimed
  BY <1>3 DEF Inv, ClaimsAgree
<1>5. \A t \in admin.targets : fds[t[2]] = t[1]
  <2> SUFFICES ASSUME NEW t \in admin.targets
               PROVE  fds[t[2]] = t[1]
    OBVIOUS
  <2>1. t[1] \in ConnIds /\ t[2] \in Fds /\ client[t[1]].sock = t[2]
    BY TargetsKnown DEF Inv, ClaimsAgree
  <2> QED
    BY <2>1, MqttBrokerAssumption DEF Inv, Owners, ClientsOwn
<1>6. hit' = hit
  BY <1>1, <1>5
<1>7. admin'.targets = {} /\ admin'.m = admin.m /\ admin'.op = admin.op
      /\ admin'.at = (IF admin.at = "shutdown" THEN "cut" ELSE "done") /\ admin' \in AdminTask
  BY <1>1 DEF Inv, Types, DirectoryTypes, AdminTask
<1>8. DirectoryTypes'
  BY <1>1, <1>7 DEF Inv, Types, DirectoryTypes
<1>9. Types' /\ StagesAgree' /\ Owners' /\ CountAgrees' /\ HitsUntasked'
  <2>1. client' \in [ConnIds -> Client]
    BY <1>1, <1>3
  <2> QED
    BY <1>1, <1>3, <1>6, <1>8, <2>1, TasksStay
<1>10. ClaimsAgree'
  BY <1>4, <1>7 DEF ClaimsAgree
<1>11. SecretsKept'
  <2>1. admin.at \in {"shutdown", "reshutdown"} /\ UNCHANGED <<dir, known>>
    BY <1>1
  <2>2. SecretPending' => SecretPending
    BY <1>7, <2>1 DEF SecretPending
  <2>3. SecretsKept
    BY Zenon DEF Inv
  <2>4. admin.m \in Machines
    BY <2>1, <2>3 DEF SecretsKept
  <2>5. admin'.m = admin.m /\ admin'.m \in Machines
    BY <1>7, <2>4, Zenon
  <2>6. admin'.at # "fenced"
    BY <1>7, Zenon
  <2> QED
    BY <2>1, <2>2, <2>3, <2>5, <2>6, SecretsStay
<1>12. PrincipalsAgree'
  <2> SUFFICES ASSUME NEW c \in ConnIds
               PROVE  Authorised(client[c])'
    BY DEF PrincipalsAgree
  <2>1. Authorised(client'[c])
    BY <1>2, <1>3 DEF Authorised
  <2> QED
    BY <1>1, <1>7, <2>1 DEF Authorised, Current, InvalidationSince
<1> QED
  BY <1>9, <1>10, <1>11, <1>12 DEF Inv

\* A change of the directory, or of nothing but the administration's own state,
\* that leaves current whatever principal was current with a known secret.
LEMMA DirectoryMoves ==
    ASSUME Inv, UNCHANGED <<client, journal, count, fds, hit, server, nconn, mgr>>,
           DirectoryTypes', SecretsKept', admin'.targets = {}, admin.targets = {},
           \A m \in Machines : known[m] \subseteq known'[m],
           \A p \in Principal : p.id \in Machines /\ p.cred \in known[p.id] /\ Current(p)
                                  => Current(p)'
    PROVE  Inv'
<1>1. Types' /\ StagesAgree' /\ Owners' /\ CountAgrees' /\ HitsUntasked'
  BY TasksStay DEF Inv, Types, ClientTypes
<1>2. ClaimsAgree'
  BY DEF Inv, ClaimsAgree
<1>3. PrincipalsAgree'
  <2> SUFFICES ASSUME NEW c \in ConnIds
               PROVE  Authorised(client[c])'
    BY DEF PrincipalsAgree
  <2>1. PICK r \in Client : r = client[c] /\ Authorised(r)
    BY ClientKnown
  <2>2. r.principal \in Principal
    BY <2>1 DEF Client
  <2>3. r.captured <= journal'.gen
    BY <2>1 DEF Authorised
  <2>4. r.at = "auth" => r.principal.id \in Machines /\ r.offer \in known'[r.principal.id]
    BY <2>1 DEF Authorised
  <2>5. r.at = "verified" \/ r.connected =>
            r.principal.id \in Machines /\ r.principal.cred \in known'[r.principal.id]
    BY <2>1 DEF Authorised
  <2>6. r.at = "verified" =>
            Current(r.principal)' \/ InvalidationSince(r.principal.id, r.captured)'
    <3> HAVE r.at = "verified"
    <3>1. CASE Current(r.principal)
      BY <2>1, <2>2, <3>1 DEF Authorised
    <3>2. CASE InvalidationSince(r.principal.id, r.captured)
      BY <3>2 DEF InvalidationSince
    <3> QED
      BY <2>1, <3>1, <3>2 DEF Authorised
  <2>7. r.inUse /\ r.connected /\ ~r.invalidated /\ r.sock # 0 => Current(r.principal)'
    BY <2>1, <2>2 DEF Authorised
  <2>8. Authorised(r)'
    BY <2>3, <2>4, <2>5, <2>6, <2>7 DEF Authorised
  <2>9. r = client'[c]
    BY <2>1
  <2> QED
    BY <2>8, <2>9 DEF Authorised, Current, InvalidationSince
<1> QED
  BY <1>1, <1>2, <1>3 DEF Inv

LEMMA MutateType ==
    ASSUME NEW r \in Record, NEW op \in Operations, MutableTarget(op, r)
    PROVE  /\ Mutate(op, r) \in Record
           /\ Mutate(op, r).there => Mutate(op, r).cred >= r.cred
           /\ (~Mutate(op, r).there => ~Mutate(op, r).enabled)
           /\ op = "rotate" => Mutate(op, r).cred = r.cred + 1
<1>0. r.there
  BY DEF MutableTarget
<1>1. PICK k \in Nat, n \in Nat : k = r.cred + 1 /\ n = r.rev + 1 /\ r.cred \in Nat
  BY DEF Record
<1>2. CASE op = "rotate"
  <2>1. Mutate(op, r) = [r EXCEPT !.cred = k, !.rev = n]
    BY <1>1, <1>2 DEF Mutate, Rotate
  <2>2. [r EXCEPT !.cred = k, !.rev = n] \in Record
    BY DEF Record
  <2>3. Mutate(op, r).there = r.there /\ Mutate(op, r).cred = k
    BY <2>1 DEF Record
  <2>4. Mutate(op, r).cred >= r.cred /\ (op = "rotate" => Mutate(op, r).cred = r.cred + 1)
    BY <1>1, <1>2, <2>3
  <2>5. Mutate(op, r).there
    BY <1>0, <2>3
  <2> QED
    BY <2>1, <2>2, <2>4, <2>5
<1>3. CASE op = "enable"
  <2>1. Mutate(op, r) = [r EXCEPT !.enabled = TRUE, !.rev = n]
    BY <1>1, <1>3 DEF Mutate, SetEnabled
  <2>2. [r EXCEPT !.enabled = TRUE, !.rev = n] \in Record
    BY DEF Record
  <2>3. Mutate(op, r).there = r.there /\ Mutate(op, r).cred = r.cred
    BY <2>1 DEF Record
  <2>4. Mutate(op, r).cred >= r.cred /\ (op = "rotate" => Mutate(op, r).cred = r.cred + 1)
    BY <1>1, <1>3, <2>3
  <2>5. Mutate(op, r).there
    BY <1>0, <2>3
  <2> QED
    BY <2>1, <2>2, <2>4, <2>5
<1>4. CASE op = "disable"
  <2>1. Mutate(op, r) = [r EXCEPT !.enabled = FALSE, !.rev = n]
    BY <1>1, <1>4 DEF Mutate, SetEnabled
  <2>2. [r EXCEPT !.enabled = FALSE, !.rev = n] \in Record
    BY DEF Record
  <2>3. Mutate(op, r).there = r.there /\ Mutate(op, r).cred = r.cred
    BY <2>1 DEF Record
  <2>4. Mutate(op, r).cred >= r.cred /\ (op = "rotate" => Mutate(op, r).cred = r.cred + 1)
    BY <1>1, <1>4, <2>3
  <2>5. Mutate(op, r).there
    BY <1>0, <2>3
  <2> QED
    BY <2>1, <2>2, <2>4, <2>5
<1>5. CASE op = "permissions"
  <2>1. Mutate(op, r) = [r EXCEPT !.rev = n]
    BY <1>1, <1>5 DEF Mutate, SetPermissions
  <2>2. [r EXCEPT !.rev = n] \in Record
    BY DEF Record
  <2>3. Mutate(op, r).there = r.there /\ Mutate(op, r).cred = r.cred
    BY <2>1 DEF Record
  <2>4. Mutate(op, r).cred >= r.cred /\ (op = "rotate" => Mutate(op, r).cred = r.cred + 1)
    BY <1>1, <1>5, <2>3
  <2>5. Mutate(op, r).there
    BY <1>0, <2>3
  <2> QED
    BY <2>1, <2>2, <2>4, <2>5
<1>6. CASE op = "revoke"
  <2>1. Mutate(op, r) = [r EXCEPT !.enabled = FALSE, !.revoked = TRUE, !.cred = k, !.rev = n]
    BY <1>1, <1>6 DEF Mutate, Revoke
  <2>2. [r EXCEPT !.enabled = FALSE, !.revoked = TRUE, !.cred = k, !.rev = n] \in Record
    BY DEF Record
  <2>3. Mutate(op, r).there = r.there /\ Mutate(op, r).cred = k
    BY <2>1 DEF Record
  <2>4. Mutate(op, r).cred >= r.cred /\ (op = "rotate" => Mutate(op, r).cred = r.cred + 1)
    BY <1>1, <1>6, <2>3
  <2>5. Mutate(op, r).there
    BY <1>0, <2>3
  <2> QED
    BY <2>1, <2>2, <2>4, <2>5
<1>7. CASE op = "delete"
  BY <1>7 DEF Mutate, Delete, Absent, Record
<1> QED
  BY <1>2, <1>3, <1>4, <1>5, <1>6, <1>7 DEF Operations

\* Without effect on the directory: a refused change, and the end of one.
LEMMA AdminEnds ==
    ASSUME Inv, UNCHANGED <<client, journal, count, fds, hit, server, nconn, mgr, dir>>,
           admin' = Idle, admin.at \in {"fenced", "cut", "done"},
           known' \in [Machines -> SUBSET Nat],
           \A m \in Machines : known[m] \subseteq known'[m],
           \A m \in Machines : dir[m].there => \A k \in known'[m] : k <= dir[m].cred
    PROVE  Inv'
<1>1. admin'.at = "idle" /\ admin'.targets = {} /\ admin' \in AdminTask /\ admin.targets = {}
      /\ admin'.op = "none"
  BY DEF Idle, AdminTask, Names, Inv, ClaimsAgree
<1>2. DirectoryTypes'
  BY <1>1 DEF Inv, Types, DirectoryTypes
<1>3. SecretsKept'
  BY <1>1 DEF Inv, SecretsKept, SecretPending
<1>4. \A p \in Principal : Current(p) => Current(p)'
  BY DEF Current, Revalidate
<1> QED
  BY <1>1, <1>2, <1>3, <1>4, DirectoryMoves

LEMMA ActionMutateKeeps ==
    ASSUME Inv, ActionMutate
    PROVE  Inv'
<1>1. admin.at = "fenced" /\ admin.m \in Machines /\ admin.op \in Operations
      /\ admin \in AdminTask /\ dir[admin.m] \in Record /\ admin.targets = {}
      /\ known \in [Machines -> SUBSET Nat] /\ dir \in [Machines -> Record]
      /\ UNCHANGED <<client, journal, count, fds, hit, server, nconn, mgr, known>>
  BY DEF ActionMutate, Inv, SecretsKept, Types, DirectoryTypes, ClaimsAgree, brokerVars
<1>2. CASE admin' = Idle /\ UNCHANGED dir
  BY <1>1, <1>2, AdminEnds DEF Inv, SecretsKept
<1>3. CASE /\ MutableTarget(admin.op, dir[admin.m])
           /\ admin' = [admin EXCEPT !.at = "committed",
                                     !.op = IF @ = "rotate" THEN "secret" ELSE "other"]
           /\ dir' = [dir EXCEPT ![admin.m] = Mutate(admin.op, @)]
  <2>1. PICK m \in Machines : m = admin.m
    BY <1>1
  <2>2. PICK new : new = Mutate(admin.op, dir[m])
    OBVIOUS
  <2>3. /\ new \in Record
        /\ new.there => new.cred >= dir[m].cred
        /\ (~new.there => ~new.enabled)
        /\ admin.op = "rotate" => new.cred = dir[m].cred + 1
    BY <1>1, <1>3, <2>1, <2>2, MutateType
  <2>4. dir' \in [Machines -> Record] /\ dir'[m] = new
        /\ \A n \in Machines : n # m => dir'[n] = dir[n]
    <3>1. dir' = [dir EXCEPT ![m] = new] /\ dir \in [Machines -> Record]
      BY <1>1, <1>3, <2>1, <2>2
    <3>2. new \in Record
      BY <2>3
    <3> QED
      BY <3>1, <3>2
  <2>5. admin' \in AdminTask /\ admin'.at = "committed" /\ admin'.m = m /\ admin'.targets = {}
        /\ (admin'.op = "secret" <=> admin.op = "rotate")
    BY <1>1, <1>3, <2>1 DEF AdminTask
  <2>6. DirectoryTypes'
    BY <1>1, <2>4, <2>5 DEF Inv, Types, DirectoryTypes
  <2>7. dir[m].there /\ \A k \in known[m] : k \in Nat /\ k <= dir[m].cred
    BY <1>1, <1>3, <2>1 DEF Inv, SecretsKept, MutableTarget
  <2>8. new.there => \A k \in known[m] : k <= new.cred
    <3>0. new \in Record /\ dir[m] \in Record
      BY <1>1, <2>1, <2>3
    <3>1. new.cred \in Nat /\ dir[m].cred \in Nat
      BY <3>0 DEF Record
    <3> QED
      BY <2>3, <2>7, <3>1
  <2>9. admin'.op = "secret" => new.cred \notin known[m]
    BY <1>1, <2>1, <2>3, <2>5, <2>7 DEF Record
  <2>10. SecretsKept'
    <3>1. \A n \in Machines : dir'[n].there => \A k \in known'[n] : k <= dir'[n].cred
      BY <1>1, <2>4, <2>8 DEF Inv, SecretsKept
    <3>2. \A n \in Machines : ~dir'[n].there => ~dir'[n].enabled
      BY <2>3, <2>4 DEF Inv, SecretsKept
    <3>3. SecretPending' => dir'[admin'.m].cred \notin known'[admin'.m]
      BY <1>1, <2>4, <2>5, <2>9 DEF SecretPending
    <3> QED
      BY <2>5, <3>1, <3>2, <3>3 DEF SecretsKept
  <2>11. \A p \in Principal : p.id \in Machines /\ Current(p) => Current(p)'
    BY <1>1, <2>4, <2>5 DEF Current, Revalidate
  <2> QED
    BY <1>1, <2>5, <2>6, <2>10, <2>11, DirectoryMoves
<1> QED
  BY <1>2, <1>3 DEF ActionMutate

LEMMA EnrollMachineKeeps ==
    ASSUME Inv, EnrollMachine
    PROVE  Inv'
<1>1. PICK m \in Machines : /\ ~dir[m].there /\ known[m] = {}
                            /\ dir' = [dir EXCEPT ![m] = Enroll]
                            /\ admin' = [at |-> "cut", m |-> m, op |-> "secret", targets |-> {}]
  BY DEF EnrollMachine
<1>2. admin.at = "idle" /\ admin.targets = {} /\ dir \in [Machines -> Record]
      /\ UNCHANGED <<client, journal, count, fds, hit, server, nconn, mgr, known>>
  BY DEF EnrollMachine, Inv, Types, DirectoryTypes, ClaimsAgree, brokerVars
<1>3. Enroll \in Record /\ Enroll.there
  BY DEF Enroll, Record
<1>4. dir' \in [Machines -> Record] /\ dir'[m] = Enroll
      /\ \A n \in Machines : n # m => dir'[n] = dir[n]
  BY <1>1, <1>2, <1>3
<1>5. admin' \in AdminTask /\ admin'.at = "cut" /\ admin'.m = m /\ admin'.targets = {}
  BY <1>1 DEF AdminTask, Names
<1>6. DirectoryTypes'
  BY <1>2, <1>4, <1>5 DEF Inv, Types, DirectoryTypes
<1>7. SecretsKept'
  BY <1>1, <1>2, <1>3, <1>4, <1>5 DEF Inv, SecretsKept, SecretPending
<1>8. \A p \in Principal : p.id \in Machines /\ Current(p) => Current(p)'
  <2> SUFFICES ASSUME NEW p \in Principal, p.id \in Machines, Current(p)
               PROVE  Current(p)'
    OBVIOUS
  <2>1. Revalidate(dir[p.id], p)
    BY <1>2 DEF Current
  <2>2. p.id # m
    BY <1>1, <2>1 DEF Inv, SecretsKept, Revalidate
  <2> QED
    BY <1>4, <2>1, <2>2 DEF Current, Revalidate
<1> QED
  BY <1>2, <1>5, <1>6, <1>7, <1>8, DirectoryMoves

LEMMA QuarantineType ==
    ASSUME NEW r \in Record
    PROVE  /\ Quarantine(r) \in Record /\ Quarantine(r).there = r.there
           /\ Quarantine(r).cred = r.cred /\ ~Quarantine(r).enabled
<1>1. PICK n \in Nat : n = r.rev + 1
  BY DEF Record
<1>2. Quarantine(r) = [r EXCEPT !.enabled = FALSE, !.rev = n]
  BY <1>1 DEF Quarantine
<1>3. [r EXCEPT !.enabled = FALSE, !.rev = n] \in Record
  BY DEF Record
<1> QED
  BY <1>2, <1>3 DEF Record

\* A machine that is quarantined without a disconnect has no connection: nobody
\* knows its secret.
LEMMA ActionFinishKeeps ==
    ASSUME Inv, ActionFinish
    PROVE  Inv'
<1>1. admin.at \in {"cut", "done"} /\ admin.m \in Machines /\ admin \in AdminTask
      /\ known \in [Machines -> SUBSET Nat] /\ dir \in [Machines -> Record]
      /\ dir[admin.m] \in Record /\ admin.targets = {}
      /\ UNCHANGED <<client, journal, count, fds, hit, server, nconn, mgr>>
  BY DEF ActionFinish, Inv, SecretsKept, Types, DirectoryTypes, ClaimsAgree, brokerVars
<1>2. CASE admin' = Idle /\ UNCHANGED <<dir, known>>
  BY <1>1, <1>2, AdminEnds DEF Inv, SecretsKept
<1>3. PICK m \in Machines : m = admin.m
  BY <1>1
<1>4. CASE SendCredentialOnce
  <2>1. known' = [known EXCEPT ![m] = @ \cup {dir[m].cred}]
        /\ (\/ admin' = Idle /\ UNCHANGED dir
            \/ AdminStep("quarantined") /\ dir' \in Quarantined(m))
    BY <1>3, <1>4 DEF SendCredentialOnce
  <2>2. known' \in [Machines -> SUBSET Nat] /\ \A n \in Machines : known[n] \subseteq known'[n]
    BY <1>1, <2>1 DEF Record
  <2>3. \A n \in Machines : dir[n].there => \A k \in known'[n] : k <= dir[n].cred
    BY <1>1, <2>1 DEF Inv, SecretsKept, Record
  <2>4. CASE admin' = Idle /\ UNCHANGED dir
    BY <1>1, <2>2, <2>3, <2>4, AdminEnds
  <2>5. CASE AdminStep("quarantined") /\ dir' \in Quarantined(m)
    <3>1. \/ dir' = dir
          \/ dir' = [dir EXCEPT ![m] = Quarantine(dir[m])]
      BY <2>5 DEF Quarantined
    <3>2. /\ dir' \in [Machines -> Record] /\ (\A n \in Machines : n # m => dir'[n] = dir[n])
          /\ \A n \in Machines : dir'[n].there = dir[n].there /\ dir'[n].cred = dir[n].cred
          /\ \A n \in Machines : ~dir[n].enabled => ~dir'[n].enabled
      BY <1>1, <3>1, QuarantineType
    <3>3. admin' \in AdminTask /\ admin'.at = "quarantined" /\ admin'.m = m
          /\ admin'.targets = {}
      BY <1>1, <1>3, <2>5 DEF AdminStep, AdminTask
    <3>4. DirectoryTypes'
      BY <1>1, <2>2, <3>2, <3>3 DEF Inv, Types, DirectoryTypes
    <3>5. SecretsKept'
      BY <2>3, <3>2, <3>3 DEF Inv, SecretsKept, SecretPending
    <3>6. \A p \in Principal : p.id \in Machines /\ Current(p) => Current(p)'
      BY <1>1, <3>2, <3>3 DEF Current, Revalidate
    <3> QED
      BY <1>1, <2>2, <3>3, <3>4, <3>5, <3>6, DirectoryMoves
  <2> QED
    BY <2>1, <2>4, <2>5
<1>5. CASE /\ admin.op = "secret" /\ admin.at = "cut"
           /\ dir' \in Quarantined(admin.m) /\ admin' = Idle /\ UNCHANGED known
  <2>1. \/ dir' = dir
        \/ dir' = [dir EXCEPT ![m] = Quarantine(dir[m])]
    BY <1>3, <1>5 DEF Quarantined
  <2>2. /\ dir' \in [Machines -> Record] /\ (\A n \in Machines : n # m => dir'[n] = dir[n])
        /\ \A n \in Machines : dir'[n].there = dir[n].there /\ dir'[n].cred = dir[n].cred
        /\ \A n \in Machines : ~dir[n].enabled => ~dir'[n].enabled
    BY <1>1, <2>1, QuarantineType
  <2>3. admin' \in AdminTask /\ admin'.at = "idle" /\ admin'.targets = {}
    BY <1>5 DEF Idle, AdminTask, Names
  <2>4. DirectoryTypes'
    BY <1>1, <1>5, <2>2, <2>3 DEF Inv, Types, DirectoryTypes
  <2>5. SecretsKept'
    BY <1>5, <2>2, <2>3 DEF Inv, SecretsKept, SecretPending
  <2>6. dir[m].cred \notin known[m]
    BY <1>3, <1>5 DEF Inv, SecretsKept, SecretPending
  <2>7. \A p \in Principal : p.id \in Machines /\ p.cred \in known[p.id] /\ Current(p)
                                => Current(p)'
    <3> SUFFICES ASSUME NEW p \in Principal, p.id \in Machines, p.cred \in known[p.id],
                        Current(p)
                 PROVE  Current(p)'
      OBVIOUS
    <3>1. Revalidate(dir[p.id], p)
      BY <1>5 DEF Current
    <3>2. p.id # m
      BY <2>6, <3>1 DEF Revalidate
    <3> QED
      BY <2>2, <3>1, <3>2 DEF Current, Revalidate
  <2> QED
    BY <1>1, <1>5, <2>3, <2>4, <2>5, <2>7, DirectoryMoves
<1> QED
  BY <1>2, <1>4, <1>5 DEF ActionFinish

---------------------------------------------------------------------------
(* The invariant holds, and what follows.                                  *)

LEMMA InitInv == Init => Inv
<1> SUFFICES ASSUME Init
             PROVE  Inv
  OBVIOUS
<1>1. \A c \in ConnIds : client[c] = Fresh
  BY DEF Init
<1>2. \A c \in ConnIds : /\ client[c] \in Client /\ Retired(client[c]) /\ client[c].at = "none"
                         /\ client[c].sock = 0 /\ client[c].captured = 0
  BY <1>1, FreshType
<1>3. admin.at = "idle" /\ admin.targets = {} /\ admin \in AdminTask
  BY DEF Init, Idle, AdminTask, Names
<1>4. \A r \in {Absent, Enroll, Revoke(Enroll)} :
          /\ r \in Record /\ (r.there => 1 <= r.cred) /\ (~r.there => ~r.enabled)
  <2>1. Absent \in Record /\ ~Absent.there /\ ~Absent.enabled
    BY DEF Absent, Record
  <2>2. Enroll \in Record /\ Enroll.there /\ Enroll.cred = 1 /\ Enroll.rev = 1
    BY DEF Enroll, Record
  <2>3. MutableTarget("revoke", Enroll) /\ Mutate("revoke", Enroll) = Revoke(Enroll)
    BY <2>2 DEF MutableTarget, Mutate
  <2>4. /\ Revoke(Enroll) \in Record
        /\ Revoke(Enroll).there => Revoke(Enroll).cred >= 1
        /\ ~Revoke(Enroll).there => ~Revoke(Enroll).enabled
    BY <2>2, <2>3, MutateType DEF Operations
  <2>5. Revoke(Enroll).cred \in Nat
    BY <2>4 DEF Record
  <2> QED
    BY <2>1, <2>2, <2>4, <2>5
<1>5. /\ dir \in [Machines -> Record]
      /\ \A m \in Machines : /\ dir[m].there => 1 <= dir[m].cred
                             /\ ~dir[m].there => ~dir[m].enabled
  BY <1>4 DEF Init
<1>6. known \in [Machines -> SUBSET Nat] /\ \A m \in Machines : known[m] \subseteq {1}
  BY DEF Init
<1>7. journal \in Journal /\ journal.gen = 0
  <2>1. [i \in 0 .. Capacity - 1 |-> <<0, "none">>] \in [0 .. Capacity - 1 -> Nat \X Names]
    BY DEF Names
  <2> QED
    BY <2>1 DEF Init, Journal
<1>8. server \in ServerTask /\ server.at = "none" /\ server.fd = 0
  BY DEF Init, ServerTask
<1>9. Types
  <2>1. client \in [ConnIds -> Client]
    BY <1>2 DEF Init
  <2>2. fds \in [Fds -> 0 .. MaxConn] /\ nconn \in 0 .. MaxConn /\ count \in Int
        /\ mgr.taken = {} /\ hit = {}
    BY MqttBrokerAssumption DEF Init
  <2> QED
    BY <1>3, <1>5, <1>6, <1>7, <1>8, <2>1, <2>2 DEF Types, TaskTypes, DirectoryTypes, ClientTypes
<1>10. StagesAgree
  BY <1>2 DEF StagesAgree
<1>11. Owners
  BY <1>2, <1>8 DEF Init, Owners, ServerOwns, ServerHolds, ClientsOwn, TakenOwned
<1>12. ClaimsAgree
  BY <1>2, <1>3 DEF ClaimsAgree, Retired
<1>13. CountAgrees
  <2>1. Busy = {}
    BY <1>2 DEF Busy
  <2> QED
    BY <1>8, <2>1, FS_EmptySet DEF CountAgrees, Init
<1>14. SecretsKept
  BY <1>3, <1>5, <1>6 DEF SecretsKept, SecretPending
<1>15. PrincipalsAgree
  BY <1>2, <1>7 DEF PrincipalsAgree, Authorised, Retired
<1> QED
  BY <1>9, <1>10, <1>11, <1>12, <1>13, <1>14, <1>15 DEF Inv, Init, HitsUntasked

LEMMA StutterKeeps == Inv /\ UNCHANGED vars => Inv'
<1> SUFFICES ASSUME Inv, UNCHANGED vars
             PROVE  Inv'
  OBVIOUS
<1>1. UNCHANGED <<client, fds, nconn, journal, dir, known, admin, hit, mgr, server, count>>
  BY DEF vars
<1>2. ServerOwns' /\ ServerHolds' /\ CountAgrees'
  BY <1>1 DEF Inv, Owners, ServerOwns, ServerHolds, CountAgrees, Busy
<1> QED
  BY <1>1, <1>2, TasksMove DEF Inv, Types, TaskTypes

\* Only a start opens the listener, and the manager does one thing at a time.
LEMMA StopClosesHolds == Spec => []StopCloses
<1>1. Init => StopCloses
  BY DEF Init, StopCloses
<1>2. ASSUME StopCloses, [Next]_vars
      PROVE  StopCloses'
  <2>1. CASE Server
    <3>1. UNCHANGED mgr
      BY <2>1 DEF Server, ServerListen, ServerExits, ServerAccept, ServerCount, ServerAllocate,
                  ServerCreate, ServerUndo, ServerStop, ServerSignal
    <3>2. UNCHANGED <<state, listener>> \/ state = "STARTING"
      BY <2>1 DEF Server, ServerListen, ServerExits, ServerAccept, ServerCount, ServerAllocate,
                  ServerCreate, ServerUndo, ServerStop, ServerSignal
    <3> QED
      BY <1>2, <3>1, <3>2 DEF StopCloses
  <2>2. CASE Start \/ StartEnds \/ StartTimedOut \/ StopWaits \/ StopDecides
    <3>1. mgr'.taken = {} /\ mgr'.at \notin {"sweep", "sweepServer"}
      BY <2>2 DEF Start, StartEnds, StartTimedOut, StopWaits, StopDecides, MgrStep
    <3> QED
      BY <3>1 DEF StopCloses
  <2>3. CASE Stop
    BY <2>3 DEF Stop, StopCloses
  <2>4. CASE Sweep \/ CloseSockets
    BY <1>2, <2>4 DEF Sweep, CloseSockets, StopCloses
  <2>5. CASE Administer
    <3>1. UNCHANGED brokerVars
      BY <2>5 DEF Administer, ActionFence, ActionMutate, DisconnectFence, DisconnectClaim,
                  DisconnectShutdown, EnrollMachine, ActionFinish
    <3> QED
      BY <1>2, <3>1 DEF StopCloses, brokerVars
  <2>6. ASSUME NEW c \in ConnIds, ClientTask(c)
        PROVE  StopCloses'
    <3>1. UNCHANGED <<state, listener, mgr>>
      BY <2>6 DEF ClientTask, ReadFails, Connect, Authenticate, Bind, Acknowledge, Packet,
                  HandlePacket, CloseClient, Leave, Close, ClientStep, brokerVars
    <3> QED
      BY <1>2, <3>1 DEF StopCloses
  <2>7. CASE UNCHANGED vars
    BY <1>2, <2>7 DEF StopCloses, vars
  <2> QED
    BY <1>2, <2>1, <2>2, <2>3, <2>4, <2>5, <2>6, <2>7 DEF Next, Manager
<1> QED
  BY <1>1, <1>2, PTL DEF Spec

LEMMA NextKeeps == Inv /\ StopCloses /\ [Next]_vars => Inv'
<1> SUFFICES ASSUME Inv, StopCloses, [Next]_vars
             PROVE  Inv'
  OBVIOUS
<1>1. CASE Server
  BY <1>1, ServerListenKeeps, ServerAcceptKeeps, ServerCountKeeps, ServerAllocateKeeps,
     ServerCreateKeeps, ServerUndoKeeps, ServerStopKeeps, ServerSignalKeeps DEF Server
<1>2. CASE Manager
  BY <1>2, StartKeeps, SweepKeeps, CloseSocketsKeeps, ManagerWaitsKeep DEF Manager
<1>3. CASE Administer
  BY <1>3, ActionFenceKeeps, ActionMutateKeeps, DisconnectFenceKeeps, DisconnectClaimKeeps,
     DisconnectShutdownKeeps, EnrollMachineKeeps, ActionFinishKeeps DEF Administer
<1>4. ASSUME NEW c \in ConnIds, ClientTask(c)
      PROVE  Inv'
  BY <1>4, ConnectKeeps, AuthenticateKeeps, BindKeeps, LoopStepsKeep, CloseClientKeeps,
     LeaveKeeps DEF ClientTask
<1>5. CASE UNCHANGED vars
  BY <1>5, StutterKeeps
<1> QED
  BY <1>1, <1>2, <1>3, <1>4, <1>5 DEF Next

LEMMA InvHolds == Spec => []Inv
  BY InitInv, NextKeeps, StopClosesHolds, PTL DEF Spec

\* A shutdown or a close outside the lock (argus_mqtt_broker_disconnect_machine,
\* argus_mqtt_broker_stop, argus_mqtt_close_client) acts on the descriptor of the
\* connection it was meant for, however the stack reuses descriptors meanwhile,
\* for every connection whose task was created; where it could not be, stop and
\* argus_mqtt_server_task may both close the number, but no socket that another
\* connection of the broker has.
THEOREM DescriptorsAreOwn == Spec => []ClaimedDescriptorSafe
<1>1. Inv => ClaimedDescriptorSafe
  BY DEF Inv, Owners, ClaimedDescriptorSafe
<1> QED
  BY <1>1, InvHolds, PTL

\* argus_mqtt_broker_observation_is_stopped tells the truth: the count that it
\* reads is that of the client tasks, so that nobody is left when it is zero.
THEOREM StoppedBrokerIsQuiet == Spec => []StoppedIsQuiet
<1>1. Inv => StoppedIsQuiet
  BY NobodyLeft DEF StoppedIsQuiet
<1> QED
  BY <1>1, InvHolds, PTL

\* An administrative change leaves no admitted connection with the principal of
\* before, whatever capacity the journal has: fence, commit and second fence
\* cover a CONNECT whose password was verified at any moment between them.
THEOREM OldPrincipalsLeave == Spec => []OldPrincipalGone
<1>1. Inv => OldPrincipalGone
  <2> SUFFICES ASSUME Inv, admin.at = "idle", NEW c \in ConnIds, Admitted(c), client[c].sock # 0
               PROVE  Revalidate(dir[client[c].principal.id], client[c].principal)
    BY DEF OldPrincipalGone
  <2>1. Authorised(client[c])
    BY ClientKnown
  <2>2. Current(client[c].principal)
    BY <2>1 DEF Authorised, Admitted
  <2> QED
    BY <2>2 DEF Current
<1> QED
  BY <1>1, InvHolds, PTL

\* shutdown_claimed is released by the disconnect that set it, on a client whose
\* socket nobody took meanwhile: no claim is left for argus_mqtt_close_client or
\* argus_mqtt_broker_stop to wait for.
THEOREM ClaimsAreReleased == Spec => []ClaimsReleased
<1>1. Inv => ClaimsReleased
  BY DEF Inv, ClaimsAgree, ClaimsReleased
<1> QED
  BY <1>1, InvHolds, PTL
=============================================================================
