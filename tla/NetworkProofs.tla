--------------------------- MODULE NetworkProofs ---------------------------
(***************************************************************************)
(* The MQTT runtime, for every set of machines, queue length, cache size   *)
(* and number of connections, sessions, epochs and sequence numbers: a     *)
(* command is dispatched once, commands are dispatched in the order of the *)
(* authority epochs, and an epoch names one holder.                        *)
(*                                                                         *)
(* The station interface, for every queue length, limit of authentication  *)
(* failures and number of generations: a station in use is never stuck     *)
(* unless an event was lost or a step of several failed, and in local      *)
(* service it stays quiet.                                                 *)
(***************************************************************************)
EXTENDS MqttRuntime, StaLink, FiniteSetTheorems, SequenceTheorems, TLAPS

---------------------------------------------------------------------------
(* The MQTT runtime: serial numbers.                                       *)

\* As long as the numbers span less than half the modulus, newer is greater.
LEMMA NewerIsGreater ==
    ASSUME NEW x \in 0 .. MaxSeq, NEW y \in 0 .. MaxSeq, IsNewer(x, y)
    PROVE  x > y
<1> DEFINE half == SeqModulus \div 2
<1>1. /\ SeqModulus \in Nat /\ SeqModulus > 3 /\ MaxSeq \in Nat /\ MaxSeq < half
      /\ half \in Nat /\ 2 * half <= SeqModulus
  BY MqttSessionAssumption, MqttRuntimeAssumption
<1>2. (x - y) % SeqModulus \in 1 .. (half - 1)
  BY DEF IsNewer
<1> HIDE DEF half
<1>3. CASE x = y
  <2>1. 0 % SeqModulus = 0
    BY <1>1
  <2> QED
    BY <1>1, <1>2, <1>3, <2>1
<1>4. CASE x < y
  <2>1. (x - y) \in Int /\ 0 - SeqModulus < x - y /\ x - y < 0
    BY <1>1, <1>4
  <2>2. (x - y) % SeqModulus = (x - y) + SeqModulus
    BY <1>1, <2>1
  <2> QED
    BY <1>1, <1>2, <1>4, <2>2
<1> QED
  BY <1>1, <1>3, <1>4

---------------------------------------------------------------------------
(* The session core.                                                       *)

CommandType == [session : Nat, n : 0 .. MaxSeq, epoch : Nat]

CoreType ==
    [session : Nat, link : Links, holder : Machines \cup {Nobody}, conn : Nat,
     hbconn : Nat, counter : Nat, epoch : Nat,
     last : CommandType]

\* What every operation on the core respects: session and last command stay,
\* epochs only grow, and within an epoch the holder stays.
Follows(c, d) ==
    /\ d \in CoreType
    /\ d.session = c.session /\ d.last = c.last
    /\ d.epoch >= c.epoch
    /\ d.epoch = c.epoch => d.holder = c.holder

LEMMA NobodyIsNoMachine == Nobody \notin Machines
BY MqttSessionAssumption DEF Nobody, Local

LEMMA CoreInitType ==
    ASSUME NEW s \in Nat
    PROVE  /\ SessionCoreInit(s) \in CoreType
           /\ SessionCoreInit(s).session = s /\ SessionCoreInit(s).epoch = 0
           /\ SessionCoreInit(s).holder = Nobody /\ SessionCoreInit(s).last.n = 0
<1>1. MaxSeq \in Nat
  BY MqttRuntimeAssumption
<1> QED
  BY <1>1 DEF SessionCoreInit, CoreType, CommandType, NoCommand, Links

LEMMA SameFollows == ASSUME NEW c \in CoreType PROVE Follows(c, c)
BY DEF Follows, CoreType

LEMMA DisconnectFollows ==
    ASSUME NEW c \in CoreType, NEW i
    PROVE  Follows(c, SessionDisconnect(c, i))
<1> DEFINE d == [c EXCEPT !.conn = 0, !.hbconn = 0, !.counter = 0, !.link = "offline"]
<1>1. d \in CoreType
  BY DEF CoreType, Links
<1>2. d.session = c.session /\ d.last = c.last /\ d.epoch = c.epoch /\ d.holder = c.holder
  BY DEF CoreType
<1> HIDE DEF d
<1>3. Follows(c, d)
  BY <1>1, <1>2 DEF Follows, CoreType
<1> QED
  BY <1>3, SameFollows DEF SessionDisconnect, d

\* Whatever else changes, a new epoch follows.
LEMMA NewEpochFollows ==
    ASSUME NEW c \in CoreType, NEW d \in CoreType, d.session = c.session,
           d.last = c.last, d.epoch = c.epoch
    PROVE  Follows(c, AdvanceEpoch(d))
<1>1. AdvanceEpoch(d) \in CoreType
  BY DEF AdvanceEpoch, CoreType
<1>2. /\ AdvanceEpoch(d).session = c.session /\ AdvanceEpoch(d).last = c.last
      /\ AdvanceEpoch(d).epoch = c.epoch + 1
  BY DEF AdvanceEpoch, CoreType
<1>3. c.epoch \in Nat
  BY DEF CoreType
<1> QED
  BY <1>1, <1>2, <1>3 DEF Follows

LEMMA TickFollows ==
    ASSUME NEW c \in CoreType, NEW a
    PROVE  Follows(c, SessionTick(c, a))
<1> DEFINE d == [c EXCEPT !.link = "stale", !.conn = 0, !.holder = Nobody]
<1>1. d \in CoreType /\ d.session = c.session /\ d.last = c.last /\ d.epoch = c.epoch
  BY DEF CoreType, Links
<1> HIDE DEF d
<1> QED
  BY <1>1, SameFollows, NewEpochFollows DEF SessionTick, d

\* The holder's own heartbeat renews what it has.
LEMMA HeartbeatFollows ==
    ASSUME NEW c \in CoreType, NEW i \in Nat, NEW n \in Nat, c.holder # Nobody
    PROVE  Follows(c, AcceptHeartbeat(c, c.holder, i, n))
<1> DEFINE d == AcceptHeartbeat(c, c.holder, i, n)
<1>1. d \in CoreType
  BY DEF AcceptHeartbeat, CoreType, Links
<1>2. d.session = c.session /\ d.last = c.last /\ d.epoch = c.epoch /\ d.holder = c.holder
  BY DEF AcceptHeartbeat, CoreType
<1>3. c.epoch \in Nat
  BY DEF CoreType
<1> QED
  BY <1>1, <1>2, <1>3 DEF Follows

LEMMA ReleaseFollows ==
    ASSUME NEW c \in CoreType, NEW m
    PROVE  Follows(c, ReleaseAuthority(c, m).core)
<1> DEFINE d == [c EXCEPT !.holder = Nobody, !.conn = 0, !.hbconn = 0, !.counter = 0,
                          !.link = "offline"]
<1>1. d \in CoreType /\ d.session = c.session /\ d.last = c.last /\ d.epoch = c.epoch
  BY DEF CoreType, Links
<1> HIDE DEF d
<1> QED
  BY <1>1, SameFollows, NewEpochFollows DEF ReleaseAuthority, Answer, d

LEMMA BindType ==
    ASSUME NEW c \in CoreType, NEW m \in Machines, NEW i \in Nat
    PROVE  /\ Bind(c, m, i) \in CoreType /\ Bind(c, m, i).session = c.session
           /\ Bind(c, m, i).last = c.last /\ Bind(c, m, i).epoch = c.epoch
           /\ Bind(c, m, i).holder = m
<1> DEFINE k == IF c.holder = m /\ c.hbconn = i THEN c.counter ELSE 0
<1>1. k \in Nat
  BY DEF CoreType
<1>2. Bind(c, m, i) = [c EXCEPT !.holder = m, !.conn = i, !.hbconn = i, !.link = "online",
                                !.counter = k]
  BY DEF Bind, CoreType
<1> HIDE DEF k
<1>3. Bind(c, m, i) \in CoreType
  BY <1>1, <1>2 DEF CoreType, Links
<1>4. /\ Bind(c, m, i).session = c.session /\ Bind(c, m, i).last = c.last
      /\ Bind(c, m, i).epoch = c.epoch /\ Bind(c, m, i).holder = m
  BY <1>2 DEF CoreType
<1> QED
  BY <1>3, <1>4

LEMMA RequestFollows ==
    ASSUME NEW c \in CoreType, NEW a, NEW m \in Machines, NEW i \in Nat,
           NEW p, NEW w, NEW r, NEW e
    PROVE  Follows(c, RequestAuthorityWithState(c, a, m, i, p, w, r, e).core)
<1>1. Follows(c, c)
  BY SameFollows
<1>2. c.holder = m => Follows(c, Bind(c, m, i))
  <2>1. c.epoch \in Nat
    BY DEF CoreType
  <2> QED
    BY <2>1, BindType DEF Follows
<1>3. Follows(c, AdvanceEpoch(Bind([c EXCEPT !.holder = Nobody], m, i)))
  <2> DEFINE f == [c EXCEPT !.holder = Nobody]
  <2>1. f \in CoreType /\ f.session = c.session /\ f.last = c.last /\ f.epoch = c.epoch
    BY DEF CoreType
  <2> HIDE DEF f
  <2> QED
    BY <2>1, BindType, NewEpochFollows, ZenonT(60) DEF f
<1>4. Follows(c, RequestAuthority(c, a, m, i, p, w).core)
  BY <1>1, <1>2, <1>3 DEF RequestAuthority, Answer
<1> QED
  BY <1>1, <1>4 DEF RequestAuthorityWithState, Answer

---------------------------------------------------------------------------
(* The inductive invariant.                                                *)

Message ==
    [kind : {"heartbeat"}, from : Machines, conn : ConnIds, session : Nat, n : Nat]
    \cup [kind : {"request", "release"}, from : Machines, conn : ConnIds, session : Nat,
          id : RequestIds, epoch : Nat]
    \cup [kind : {"command"}, from : Machines, conn : ConnIds, n : 1 .. MaxSeq,
          session : Nat, epoch : Nat]

CommandMessage == {m \in Message : m.kind = "command"}

Types ==
    /\ core \in CoreType
    /\ conns \in [ConnIds -> Machines \cup {Nobody}]
    /\ queue \in Seq(Message)
    /\ task = Idle \/ task \in [at : {"admitted", "done"}, m : CommandMessage]
    /\ ran \in [done : SUBSET (Nat \X Nat), again : BOOLEAN, late : BOOLEAN,
                last : Nat \X Nat]

Busy == task # Idle

\* The task's command is of this session or an earlier one; nothing of this
\* session was dispatched while it is of an earlier one.
TaskSession ==
    Busy => /\ task.m.session <= core.session
            /\ task.m.session # core.session => \A d \in ran.done : d[1] # core.session

\* Every command of this session that was dispatched is recorded by the last
\* sequence number, or is the one to be recorded next.
Recorded ==
    /\ \A d \in ran.done :
         /\ d[1] <= core.session
         /\ d[1] = core.session =>
              \/ d[2] <= core.last.n
              \/ task.at = "done" /\ task.m.session = core.session /\ task.m.n = d[2]
    /\ Busy /\ task.m.session = core.session => core.last.n < task.m.n
    /\ task.at = "admitted" => <<task.m.session, task.m.n>> \notin ran.done
    /\ ~ran.again

\* What was dispatched, and what is about to be, is not of a later epoch than
\* the core, and the one that is about to be not of an earlier one than the last.
Ordered ==
    /\ ran.last[1] <= core.session
    /\ ran.last[1] = core.session => ran.last[2] <= core.epoch
    /\ Busy /\ task.m.session = core.session => task.m.epoch <= core.epoch
    /\ task.at = "admitted" =>
         ~(task.m.session = ran.last[1] /\ task.m.epoch < ran.last[2])
    /\ ~ran.late

\* The owners of this epoch are its holder, if it has one.
OwnersAgree == owners = {core.holder} \ {Nobody}

Inv == Types /\ TaskSession /\ Recorded /\ Ordered /\ OwnersAgree

LEMMA InitInv == Init => Inv
<1> SUFFICES ASSUME Init PROVE Inv
  OBVIOUS
<1>1. core \in CoreType /\ core.session = 0 /\ core.holder = Nobody
  BY CoreInitType DEF Init
<1>2. Types
  <2>1. queue \in Seq(Message) /\ task = Idle
    BY DEF Init
  <2>2. conns \in [ConnIds -> Machines \cup {Nobody}]
    BY DEF Init
  <2>3. ran \in [done : SUBSET (Nat \X Nat), again : BOOLEAN, late : BOOLEAN,
                 last : Nat \X Nat]
    BY DEF Init
  <2> QED
    BY <1>1, <2>1, <2>2, <2>3 DEF Types
<1>3. /\ task = Idle /\ task.at = "idle" /\ ran.done = {} /\ ran.last = <<0, 0>>
      /\ ~ran.again /\ ~ran.late
  BY DEF Init, Idle
<1>4. TaskSession /\ Recorded
  BY <1>3 DEF TaskSession, Recorded, Busy
<1>5. Ordered
  BY <1>1, <1>3 DEF Ordered, Busy, CoreType
<1>6. OwnersAgree
  BY <1>1 DEF OwnersAgree, Init
<1> QED
  BY <1>2, <1>4, <1>5, <1>6 DEF Inv

---------------------------------------------------------------------------
(* The steps.                                                              *)

LEMMA SetCoreOwners ==
    ASSUME OwnersAgree, NEW c, Follows(core, c), SetCore(c)
    PROVE  core' = c /\ OwnersAgree'
BY DEF OwnersAgree, Follows, SetCore

\* A step that leaves the task alone and lets the core follow itself.
LEMMA FollowingKeepsInv ==
    ASSUME Inv, Follows(core, core'), OwnersAgree', UNCHANGED <<task, ran>>,
           conns' \in [ConnIds -> Machines \cup {Nobody}], queue' \in Seq(Message)
    PROVE  Inv'
<1>1. /\ core'.session = core.session /\ core'.last = core.last
      /\ core.epoch <= core'.epoch /\ core'.epoch \in Nat /\ core.epoch \in Nat
      /\ core' \in CoreType
  BY DEF Follows, Inv, Types, CoreType
<1>2. Types'
  BY <1>1 DEF Inv, Types
<1>3. TaskSession' /\ Recorded'
  BY <1>1 DEF Inv, TaskSession, Recorded, Busy
<1>4. Ordered'
  <2>1. ran.last[2] \in Nat /\ (Busy => task.m.epoch \in Nat)
    BY DEF Inv, Types, Busy, CommandMessage, Message
  <2> QED
    BY <1>1, <2>1 DEF Inv, Ordered, Busy
<1> QED
  BY <1>2, <1>3, <1>4 DEF Inv

\* Steps of the environment that leave the core alone.
LEMMA IdleCoreKeepsInv ==
    ASSUME Inv, UNCHANGED <<core, owners, task, ran>>,
           conns' \in [ConnIds -> Machines \cup {Nobody}], queue' \in Seq(Message)
    PROVE  Inv'
<1>1. Follows(core, core') /\ OwnersAgree'
  BY SameFollows DEF Inv, Types, OwnersAgree
<1> QED
  BY <1>1, FollowingKeepsInv

LEMMA PrepareStartKeepsInv == ASSUME Inv, PrepareStart PROVE Inv'
<1>1. /\ core.session \in Nat /\ core' = SessionCoreInit(core.session + 1)
      /\ UNCHANGED <<task, ran, conns>> /\ queue' = <<>> /\ owners' = {}
  BY DEF PrepareStart, Inv, Types, CoreType
<1>2. /\ core' \in CoreType /\ core'.session = core.session + 1 /\ core'.holder = Nobody
      /\ core'.epoch = 0
  BY <1>1, CoreInitType
<1>3. Types' /\ OwnersAgree'
  BY <1>1, <1>2 DEF Inv, Types, OwnersAgree
<1>4. /\ \A d \in ran.done : d[1] \in Nat /\ d[1] <= core.session
      /\ ran.last[1] \in Nat /\ ran.last[1] <= core.session
      /\ Busy => task.m.session \in Nat /\ task.m.session <= core.session
  BY DEF Inv, Types, Busy, CommandMessage, Message, TaskSession, Recorded, Ordered
<1>5. TaskSession' /\ Recorded' /\ Ordered'
  BY <1>1, <1>2, <1>4 DEF Inv, TaskSession, Recorded, Ordered, Busy
<1> QED
  BY <1>3, <1>5 DEF Inv

\* What the broker hands over is a message of its connection's machine.
LEMMA BrokerMessageKeepsInv ==
    ASSUME Inv, NEW c \in ConnIds, BrokerMessage(c) PROVE Inv'
<1>1. conns[c] \in Machines /\ core.session \in Nat /\ core.epoch \in Nat /\ MaxBeat \in Nat
  BY MqttRuntimeAssumption DEF BrokerMessage, Inv, Types, CoreType
<1>2. Messages(conns[c], c) \subseteq Message
  BY <1>1 DEF Messages, Heartbeats, Requests, Commands, Message
<1>3. queue' \in Seq(Message)
  BY <1>2 DEF BrokerMessage, Inv, Types
<1> QED
  BY <1>3, IdleCoreKeepsInv DEF BrokerMessage, Inv, Types

LEMMA ClientsKeepInv ==
    ASSUME Inv
    PROVE  /\ \A m \in Machines : Connect(m) => Inv'
           /\ \A c \in ConnIds : Depart(c) \/ BrokerClientGone(c) => Inv'
<1>1. ASSUME NEW m \in Machines, Connect(m) PROVE Inv'
  <2>1. conns' \in [ConnIds -> Machines \cup {Nobody}]
    BY <1>1 DEF Connect, Inv, Types
  <2> QED
    BY <1>1, <2>1, IdleCoreKeepsInv DEF Connect, Inv, Types
<1>2. ASSUME NEW c \in ConnIds, Depart(c) PROVE Inv'
  <2>1. conns' \in [ConnIds -> Machines \cup {Nobody}]
    BY <1>2 DEF Depart, Inv, Types
  <2> QED
    BY <1>2, <2>1, IdleCoreKeepsInv DEF Depart, Inv, Types
<1>3. ASSUME NEW c \in ConnIds, BrokerClientGone(c) PROVE Inv'
  <2>1. Follows(core, SessionDisconnect(core, c))
    BY DisconnectFollows DEF Inv, Types
  <2>2. Follows(core, core') /\ OwnersAgree'
    BY <1>3, <2>1, SetCoreOwners DEF BrokerClientGone, Inv
  <2> QED
    BY <1>3, <2>2, FollowingKeepsInv DEF BrokerClientGone, Inv, Types
<1> QED
  BY <1>1, <1>2, <1>3

\* The arbitration of a request or a release.
LEMMA AuthorityFollows ==
    ASSUME Inv, NEW m \in Message, m.kind \in {"request", "release"}, NEW running,
           AuthorityAdmit(m, running)
    PROVE  Follows(core, core') /\ OwnersAgree'
<1>1. m.from \in Machines /\ m.conn \in Nat /\ core \in CoreType
  BY DEF Message, ConnIds, Inv, Types
<1>2. \A r : Answer(r, core, FALSE).core = core
  BY DEF Answer
<1>3. Follows(core, Arbitrate(m, running).core)
  BY <1>1, <1>2, SameFollows, ReleaseFollows, RequestFollows DEF Arbitrate
<1>4. CASE UNCHANGED <<core, age, cache, owners>>
  BY <1>1, <1>4, SameFollows DEF Inv, OwnersAgree
<1>5. CASE SetCore(Arbitrate(m, running).core)
  BY <1>3, <1>5, SetCoreOwners DEF Inv
<1> QED
  BY <1>4, <1>5 DEF AuthorityAdmit

LEMMA HandleMessageKeepsInv == ASSUME Inv, HandleMessage PROVE Inv'
<1> DEFINE m == Head(queue)
<1>1. m \in Message /\ queue' \in Seq(Message) /\ task = Idle
  BY DEF HandleMessage, Inv, Types
<1>2. /\ UNCHANGED <<conns, ran>>
      /\ conns \in [ConnIds -> Machines \cup {Nobody}]
  BY DEF HandleMessage, Inv, Types
<1>3. m.kind \in {"heartbeat", "request", "release", "command"}
  BY <1>1 DEF Message
<1> HIDE DEF m
<1>4. CASE m.kind = "heartbeat"
  <2>1. HandleHeartbeat(m) /\ UNCHANGED task
    BY <1>4 DEF HandleMessage, m
  <2>2. m.from \in Machines /\ m.conn \in Nat /\ m.n \in Nat /\ core \in CoreType
    BY <1>1, <1>4 DEF Message, ConnIds, Inv, Types
  <2>3. Follows(core, core') /\ OwnersAgree'
    <3>1. CASE /\ core.holder = m.from
               /\ SetCore(AcceptHeartbeat(core, m.from, m.conn, m.n))
      BY <2>2, <3>1, NobodyIsNoMachine, HeartbeatFollows, SetCoreOwners DEF Inv
    <3>2. CASE UNCHANGED <<core, age, owners>>
      BY <2>2, <3>2, SameFollows DEF Inv, OwnersAgree
    <3> QED
      BY <2>1, <3>1, <3>2 DEF HandleHeartbeat
  <2> QED
    BY <1>1, <1>2, <2>1, <2>3, FollowingKeepsInv
<1>5. CASE m.kind \in {"request", "release"}
  <2>1. UNCHANGED task /\ \E running \in BOOLEAN : AuthorityAdmit(m, running)
    BY <1>5 DEF HandleMessage, m
  <2> QED
    BY <1>1, <1>2, <1>5, <2>1, AuthorityFollows, FollowingKeepsInv
<1>6. CASE m.kind = "command"
  <2>1. /\ task' = IF AdmitCommand(m) THEN [at |-> "admitted", m |-> m] ELSE Idle
        /\ UNCHANGED <<core, owners>>
    BY <1>6 DEF HandleMessage, m
  <2>2. CASE ~AdmitCommand(m)
    BY <1>1, <1>2, <2>1, <2>2, IdleCoreKeepsInv
  <2>3. CASE AdmitCommand(m)
    <3>1. /\ m \in CommandMessage /\ m.session \in Nat /\ m.epoch \in Nat
          /\ m.n \in 1 .. MaxSeq
      BY <1>1, <1>6 DEF Message, CommandMessage
    <3>2. /\ task' = [at |-> "admitted", m |-> m] /\ task'.at = "admitted"
          /\ task'.m = m /\ task' # Idle
      BY <2>1, <2>3 DEF Idle
    <3>3. m.session = core.session /\ m.epoch = core.epoch
      BY <2>3 DEF AdmitCommand, CommandAdmissionCheck
    <3>4. core.last.n < m.n
      <4>1. core.last \in CommandType /\ core.last.n \in 0 .. MaxSeq /\ MaxSeq \in Nat
        BY MqttRuntimeAssumption DEF Inv, Types, CoreType, CommandType
      <4>2. core.last = NoCommand \/ IsNewer(m.n, core.last.n)
        BY <2>3 DEF AdmitCommand, CheckSequence, Command
      <4> QED
        BY <3>1, <4>1, <4>2, NewerIsGreater DEF NoCommand
    <3>5. Types'
      BY <1>1, <1>2, <2>1, <3>1, <3>2 DEF Inv, Types
    <3>6. core.session \in Nat /\ core.epoch \in Nat /\ core.last.n \in Nat
          /\ ran.last[2] \in Nat /\ \A d \in ran.done : d[2] \in Nat
      BY DEF Inv, Types, CoreType, CommandType
    <3>7. task.at = "idle" /\ ~Busy
      BY <1>1 DEF Idle, Busy
    <3>8. TaskSession'
      BY <1>2, <2>1, <3>2, <3>3, <3>6 DEF TaskSession, Busy
    <3>9. Recorded'
      BY <1>2, <2>1, <3>1, <3>2, <3>3, <3>4, <3>6, <3>7 DEF Inv, Recorded, Busy
    <3>10. Ordered'
      BY <1>2, <2>1, <3>1, <3>2, <3>3, <3>6, <3>7 DEF Inv, Ordered, Busy
    <3> QED
      BY <2>1, <3>5, <3>8, <3>9, <3>10 DEF Inv, OwnersAgree
  <2> QED
    BY <2>2, <2>3
<1> QED
  BY <1>3, <1>4, <1>5, <1>6

LEMMA DispatchKeepsInv == ASSUME Inv, Dispatch PROVE Inv'
<1> DEFINE m == task.m
<1>1. /\ task.at = "admitted" /\ task # Idle /\ m \in CommandMessage
      /\ task \in [at : {"admitted", "done"}, m : CommandMessage]
      /\ UNCHANGED <<core, conns, queue, owners>>
  BY DEF Dispatch, Inv, Types, Idle
<1>2. m.session \in Nat /\ m.n \in Nat /\ m.epoch \in Nat
  BY <1>1 DEF CommandMessage, Message
<1>3. CASE task' = Idle /\ UNCHANGED ran
  <2>1. Types'
    BY <1>1, <1>3 DEF Inv, Types
  <2>2. task'.at = "idle" /\ ~(Busy')
    BY <1>3 DEF Idle, Busy
  <2>3. TaskSession' /\ Recorded' /\ Ordered' /\ OwnersAgree'
    BY <1>1, <1>3, <2>2 DEF Inv, TaskSession, Recorded, Ordered, OwnersAgree
  <2> QED
    BY <2>1, <2>3 DEF Inv
<1>4. CASE /\ ran' = [done  |-> ran.done \cup {<<m.session, m.n>>},
                      again |-> ran.again \/ <<m.session, m.n>> \in ran.done,
                      late  |-> ran.late \/ (m.session = ran.last[1] /\ m.epoch < ran.last[2]),
                      last  |-> <<m.session, m.epoch>>]
           /\ task' = [task EXCEPT !.at = "done"]
  <2>1. task'.at = "done" /\ task'.m = m /\ task' # Idle
        /\ task' \in [at : {"admitted", "done"}, m : CommandMessage]
    BY <1>1, <1>4 DEF Idle
  <2>2. /\ ran'.done = ran.done \cup {<<m.session, m.n>>}
        /\ ran'.last = <<m.session, m.epoch>>
        /\ ran'.last[1] = m.session /\ ran'.last[2] = m.epoch
    BY <1>4
  <2>3. ~ran'.again /\ ~ran'.late
    BY <1>1, <1>4 DEF Inv, Recorded, Ordered
  <2>4. ran' \in [done : SUBSET (Nat \X Nat), again : BOOLEAN, late : BOOLEAN,
                  last : Nat \X Nat]
    <3>1. ran.done \cup {<<m.session, m.n>>} \in SUBSET (Nat \X Nat)
          /\ <<m.session, m.epoch>> \in Nat \X Nat
      BY <1>2 DEF Inv, Types
    <3>2. /\ (ran.again \/ <<m.session, m.n>> \in ran.done) \in BOOLEAN
          /\ (ran.late \/ (m.session = ran.last[1] /\ m.epoch < ran.last[2])) \in BOOLEAN
      OBVIOUS
    <3> QED
      BY <1>4, <3>1, <3>2
  <2>5. Types'
    BY <1>1, <2>1, <2>4 DEF Inv, Types
  <2>6. m.session <= core.session /\ core.session \in Nat /\ core.last.n \in Nat
    BY <1>1 DEF Inv, TaskSession, Busy, Types, CoreType, CommandType
  <2>7. TaskSession'
    BY <1>1, <1>2, <2>1, <2>2, <2>6 DEF Inv, TaskSession, Busy
  <2>8. Recorded'
    <3>1. \A d \in ran'.done :
            /\ d[1] <= core.session
            /\ d[1] = core.session =>
                 d[2] <= core.last.n \/ (m.session = core.session /\ m.n = d[2])
      BY <1>1, <1>2, <2>2, <2>6 DEF Inv, Recorded
    <3>2. m.session = core.session => core.last.n < m.n
      BY <1>1 DEF Inv, Recorded, Busy
    <3> QED
      BY <1>1, <2>1, <2>3, <3>1, <3>2 DEF Recorded, Busy
  <2>9. Ordered'
    BY <1>1, <1>2, <2>1, <2>2, <2>3, <2>6 DEF Inv, Ordered, Busy
  <2> QED
    BY <1>1, <2>5, <2>7, <2>8, <2>9 DEF Inv, OwnersAgree
<1> QED
  BY <1>3, <1>4 DEF Dispatch, Command

LEMMA CommitKeepsInv == ASSUME Inv, Commit PROVE Inv'
<1> DEFINE m == task.m
<1>1. /\ task.at = "done" /\ task # Idle /\ m \in CommandMessage
      /\ task' = Idle /\ task'.at = "idle" /\ core' = [core EXCEPT !.last = Command(m)]
      /\ UNCHANGED <<conns, queue, owners, ran>>
  BY DEF Commit, CommitResult, Inv, Types, Idle
<1>2. m.session \in Nat /\ m.n \in 1 .. MaxSeq /\ m.epoch \in Nat /\ MaxSeq \in Nat
  BY <1>1, MqttRuntimeAssumption DEF CommandMessage, Message
<1>3. Command(m) \in CommandType /\ Command(m).n = m.n
  BY <1>2 DEF Command, CommandType
<1>4. /\ core' \in CoreType /\ core'.session = core.session /\ core'.last.n = m.n
      /\ core'.epoch = core.epoch /\ core'.holder = core.holder
  BY <1>1, <1>3 DEF Inv, Types, CoreType
<1>5. Types'
  BY <1>1, <1>4 DEF Inv, Types
<1>6. ~(Busy')
  BY <1>1 DEF Busy
<1>7. Recorded'
  <2>1. core.last.n \in Nat /\ \A d \in ran.done : d[2] \in Nat
    BY DEF Inv, Types, CoreType, CommandType
  <2>2. \A d \in ran.done : d[1] = core.session => d[2] <= m.n
    BY <1>1, <1>2, <2>1 DEF Inv, TaskSession, Recorded, Busy
  <2> QED
    BY <1>1, <1>4, <1>6, <2>2 DEF Inv, Recorded
<1>8. TaskSession' /\ Ordered' /\ OwnersAgree'
  BY <1>1, <1>4, <1>6 DEF Inv, TaskSession, Ordered, OwnersAgree
<1> QED
  BY <1>5, <1>7, <1>8 DEF Inv

LEMMA RuntimeTickKeepsInv == ASSUME Inv, RuntimeTick PROVE Inv'
<1>1. Follows(core, SessionTick(core, age))
  BY TickFollows DEF Inv, Types
<1>2. Follows(core, core') /\ OwnersAgree'
  BY <1>1, SetCoreOwners DEF RuntimeTick, Inv
<1> QED
  BY <1>2, FollowingKeepsInv DEF RuntimeTick, Inv, Types

LEMMA NextKeepsInv == ASSUME Inv, [Next]_vars PROVE Inv'
<1>1. CASE MarkAuthorityReady \/ HeartbeatAges \/ WindowCloses \/ UNCHANGED vars
  BY <1>1, IdleCoreKeepsInv DEF MarkAuthorityReady, HeartbeatAges, WindowCloses, vars,
     Inv, Types
<1>2. CASE StopBroker
  <2>1. conns' \in [ConnIds -> Machines \cup {Nobody}]
    BY <1>2 DEF StopBroker
  <2> QED
    BY <1>2, <2>1, IdleCoreKeepsInv DEF StopBroker, Inv, Types
<1> QED
  BY <1>1, <1>2, PrepareStartKeepsInv, ClientsKeepInv, BrokerMessageKeepsInv,
     HandleMessageKeepsInv, DispatchKeepsInv, CommitKeepsInv, RuntimeTickKeepsInv DEF Next

LEMMA InvHolds == Spec => []Inv
BY InitInv, NextKeepsInv, PTL DEF Spec

---------------------------------------------------------------------------
(* The theorems.                                                           *)

\* A command of a session is dispatched to the router at most once, however
\* often it is resent and whatever reconnections, restarts of the broker and
\* hand-overs of authority come between.
THEOREM CommandsRunOnce == Spec => []AtMostOnce
<1>1. Inv => AtMostOnce
  BY DEF Inv, Recorded, AtMostOnce
<1> QED
  BY <1>1, InvHolds, PTL

\* Commands are dispatched in the order of the authority epochs: none of an
\* earlier owner after one of a later owner.
THEOREM CommandsFollowEpochs == Spec => []EpochsInOrder
<1>1. Inv => EpochsInOrder
  BY DEF Inv, Ordered, EpochsInOrder
<1> QED
  BY <1>1, InvHolds, PTL

\* No sequence of requests, heartbeats, releases, expiries and reconnections
\* puts two machines into one authority epoch.
THEOREM OneHolderPerEpoch == Spec => []EpochNamesHolder
<1>1. ASSUME Inv PROVE EpochNamesHolder
  <2>1. owners = {} \/ owners = {core.holder}
    BY <1>1 DEF Inv, OwnersAgree
  <2>2. Cardinality(owners) \in {0, 1}
    BY <2>1, FS_EmptySet, FS_Singleton
  <2> QED
    BY <2>2 DEF EpochNamesHolder
<1> QED
  BY <1>1, InvHolds, PTL

\* A request while the lease is held and has not expired: the holder stays, or
\* a machine that may preempt it takes over in the next epoch.
LEMMA HeldRequest ==
    ASSUME NEW c \in CoreType, NEW a, NEW m \in Machines, NEW i \in Nat,
           NEW p, NEW w, NEW r, NEW e, c.holder # Nobody, a # "expired",
           NEW d, d = RequestAuthorityWithState(c, a, m, i, p, w, r, e).core
    PROVE  \/ d.holder = c.holder
           \/ d.holder = m /\ MayPreempt(m, c.holder) /\ d.epoch = c.epoch + 1
<1> DEFINE f == [c EXCEPT !.holder = Nobody]
           g == AdvanceEpoch(Bind(f, m, i))
<1>1. f \in CoreType /\ f.epoch = c.epoch
  BY DEF CoreType
<1>2. Bind(f, m, i) \in CoreType /\ Bind(f, m, i).epoch = c.epoch /\ Bind(f, m, i).holder = m
  BY <1>1, BindType
<1>3. g.holder = m /\ g.epoch = c.epoch + 1
  BY <1>2 DEF AdvanceEpoch, CoreType
<1>4. Bind(c, m, i).holder = m
  BY BindType
<1> HIDE DEF g
<1>5. \/ d = c
      \/ d = Bind(c, m, i) /\ c.holder = m
      \/ d = g /\ MayPreempt(m, c.holder)
  BY DEF RequestAuthorityWithState, RequestAuthority, Answer, g
<1> QED
  BY <1>3, <1>4, <1>5

\* Communication does not move authority: while its lease has not expired, a
\* machine loses it only by its own release, to a machine that may preempt it,
\* or with the broker's session.
THEOREM LeaseIsKept == Spec => LeaseKept
<1> DEFINE Kept ==
      core.holder # Nobody /\ age # "expired" /\ core'.session = core.session
        => \/ core'.holder = core.holder
           \/ /\ core'.epoch = core.epoch + 1 /\ queue # <<>>
              /\ \/ Head(queue).kind = "release" /\ Head(queue).from = core.holder
                 \/ MayPreempt(core'.holder, core.holder) /\ Head(queue).from = core'.holder
<1>1. ASSUME Inv, Next PROVE Kept
  <2> SUFFICES ASSUME core.holder # Nobody, age # "expired", core'.session = core.session
               PROVE  \/ core'.holder = core.holder
                      \/ /\ core'.epoch = core.epoch + 1 /\ queue # <<>>
                         /\ \/ Head(queue).kind = "release" /\ Head(queue).from = core.holder
                            \/ /\ MayPreempt(core'.holder, core.holder)
                               /\ Head(queue).from = core'.holder
    OBVIOUS
  <2>1. core \in CoreType /\ core.session \in Nat /\ core.epoch \in Nat
    BY <1>1 DEF Inv, Types, CoreType
  <2>2. CASE PrepareStart
    BY <2>1, <2>2, CoreInitType DEF PrepareStart
  <2>3. CASE UNCHANGED core
    BY <2>3
  <2>4. CASE Commit
    BY <2>1, <2>4 DEF Commit, CommitResult, CoreType
  <2>5. CASE RuntimeTick
    BY <2>5 DEF RuntimeTick, SessionTick
  <2>6. ASSUME NEW c \in ConnIds, BrokerClientGone(c)
        PROVE  core'.holder = core.holder
    BY <2>1, <2>6 DEF BrokerClientGone, SetCore, SessionDisconnect, CoreType
  <2>7. CASE HandleMessage
    <3> DEFINE m == Head(queue)
    <3>1. m \in Message /\ queue # <<>>
      BY <1>1, <2>7 DEF HandleMessage, Inv, Types
    <3>2. m.kind \in {"heartbeat", "request", "release", "command"} /\ m.from \in Machines
          /\ m.conn \in Nat
      BY <3>1 DEF Message, ConnIds
    <3> HIDE DEF m
    <3>3. CASE m.kind = "heartbeat"
      <4>1. HandleHeartbeat(m)
        BY <2>7, <3>3 DEF HandleMessage, m
      <4> QED
        BY <2>1, <4>1 DEF HandleHeartbeat, SetCore, AcceptHeartbeat, CoreType
    <3>4. CASE m.kind = "command"
      BY <2>7, <3>4 DEF HandleMessage, m
    <3>5. CASE m.kind \in {"request", "release"}
      <4>1. PICK running \in BOOLEAN : AuthorityAdmit(m, running)
        BY <2>7, <3>5 DEF HandleMessage, m
      <4>2. CASE core' = core
        BY <4>2
      <4>3. CASE core' = Arbitrate(m, running).core
        <5>1. CASE m.kind = "release" /\ m.epoch = core.epoch
          <6>1. core' = ReleaseAuthority(core, m.from).core
            BY <4>3, <5>1 DEF Arbitrate
          <6>2. CASE core.holder = m.from
            BY <2>1, <3>1, <5>1, <6>1, <6>2
               DEF ReleaseAuthority, Answer, AdvanceEpoch, CoreType, m
          <6>3. CASE core.holder # m.from
            BY <6>1, <6>3 DEF ReleaseAuthority, Answer
          <6> QED
            BY <6>2, <6>3
        <5>2. CASE m.kind = "request" /\ m.epoch \in {0, core.epoch}
          <6>1. core' = RequestAuthorityWithState(core, age, m.from, m.conn, profile, window,
                                                  running, m.epoch).core
            BY <4>3, <5>2 DEF Arbitrate
          <6>2. \/ core'.holder = core.holder
                \/ /\ core'.holder = m.from /\ MayPreempt(m.from, core.holder)
                   /\ core'.epoch = core.epoch + 1
            BY <2>1, <3>2, <6>1, HeldRequest
          <6> QED
            BY <3>1, <6>2 DEF m
        <5>3. CASE /\ ~(m.kind = "release" /\ m.epoch = core.epoch)
                   /\ ~(m.kind = "request" /\ m.epoch \in {0, core.epoch})
          BY <3>5, <4>3, <5>3 DEF Arbitrate, Answer
        <5> QED
          BY <5>1, <5>2, <5>3
      <4> QED
        BY <4>1, <4>2, <4>3 DEF AuthorityAdmit, SetCore
    <3> QED
      BY <3>2, <3>3, <3>4, <3>5
  <2> QED
    BY <1>1, <2>2, <2>3, <2>4, <2>5, <2>6, <2>7 DEF Next, MarkAuthorityReady, StopBroker,
       Connect, BrokerMessage, Depart, Dispatch, HeartbeatAges, WindowCloses
<1>2. Inv /\ [Next]_vars => [Kept]_vars
  BY <1>1
<1> QED
  BY <1>2, InvHolds, PTL DEF Spec, LeaseKept

---------------------------------------------------------------------------
(* The station: the queue of the network manager.                          *)

\* What the driver's callback posts, and what the timers post.
DriverTypes == {"ASSOCIATED", "IP_ACQUIRED", "DISCONNECTED"}
TimerTypes == {"WAKEUP", "IP_TIMEOUT"}
EventTypes == DriverTypes \cup TimerTypes \cup {"STOPPED", "RECONNECT", "APPLY", "RECOVERY"}
Events == [type : EventTypes, gen : Nat, reason : {"none"} \cup Reasons]

\* An event of that type and generation is in the queue q.
In(q, type, gen) == \E k \in DOMAIN q : q[k].type = type /\ q[k].gen = gen
\* No event is of a later generation than n; those of the timers are of earlier ones.
GensIn(q, n) == \A k \in DOMAIN q : q[k].gen \in 0 .. n
StaleIn(q, n) == \A k \in DOMAIN q : q[k].type \in TimerTypes => q[k].gen < n
\* The driver's events have the tag g; they come after those that have another.
Tagged(q, g) == \A k \in DOMAIN q : q[k].type \in DriverTypes => q[k].gen = g
TagsLast(q, g) ==
    \A j, k \in DOMAIN q :
        /\ j < k /\ q[j].gen = g
        /\ q[j].type \in DriverTypes /\ q[k].type \in DriverTypes
        => q[k].gen = g
\* Every association is followed by an address.
AddressAfter(q, g) ==
    \A k \in DOMAIN q : q[k].type = "ASSOCIATED" /\ q[k].gen = g =>
        \E m \in DOMAIN q : k < m /\ q[m].type = "IP_ACQUIRED" /\ q[m].gen = g

\* The first event is taken out.
LEMMA PopFacts ==
    ASSUME NEW q \in Seq(Events), q # <<>>
    PROVE  /\ Tail(q) \in Seq(Events) /\ Head(q) = q[1] /\ q[1] \in Events /\ 1 \in DOMAIN q
           /\ \A k \in DOMAIN Tail(q) : k \in Nat \ {0} /\ k + 1 \in DOMAIN q /\ Tail(q)[k] = q[k + 1]
           /\ \A k \in DOMAIN q : k \in Nat /\ (k # 1 => k - 1 \in DOMAIN Tail(q) /\ Tail(q)[k - 1] = q[k])
OBVIOUS

\* Taking it out keeps what the queue had, but for that event.
LEMMA PopKeeps ==
    ASSUME NEW q \in Seq(Events), q # <<>>
    PROVE  /\ Tail(q) \in Seq(Events) /\ Head(q) \in Events
           /\ \A n : GensIn(q, n) => GensIn(Tail(q), n) /\ Head(q).gen \in 0 .. n
           /\ \A n : StaleIn(q, n) =>
                StaleIn(Tail(q), n) /\ (Head(q).type \in TimerTypes => Head(q).gen < n)
           /\ \A g : Tagged(q, g) => Tagged(Tail(q), g)
           /\ \A g : TagsLast(q, g) =>
                /\ TagsLast(Tail(q), g)
                /\ Head(q).type \in DriverTypes /\ Head(q).gen = g => Tagged(Tail(q), g)
           /\ \A g : AddressAfter(q, g) =>
                /\ AddressAfter(Tail(q), g)
                /\ Head(q).type = "ASSOCIATED" /\ Head(q).gen = g => In(Tail(q), "IP_ACQUIRED", g)
           /\ \A type, g : In(Tail(q), type, g) => In(q, type, g)
           /\ \A type, g : In(q, type, g) =>
                In(Tail(q), type, g) \/ (Head(q).type = type /\ Head(q).gen = g)
<1> DEFINE t == Tail(q)
           h == Head(q)
<1>1. /\ t \in Seq(Events) /\ h = q[1] /\ q[1] \in Events /\ 1 \in DOMAIN q
      /\ \A k \in DOMAIN t : k \in Nat \ {0} /\ k + 1 \in DOMAIN q /\ t[k] = q[k + 1]
      /\ \A k \in DOMAIN q : k \in Nat /\ (k # 1 => k - 1 \in DOMAIN t /\ t[k - 1] = q[k])
  BY PopFacts
<1> HIDE DEF t, h
<1>2. \A n : GensIn(q, n) => GensIn(t, n) /\ h.gen \in 0 .. n
  BY <1>1 DEF GensIn
<1>3. \A n : StaleIn(q, n) => StaleIn(t, n) /\ (h.type \in TimerTypes => h.gen < n)
  BY <1>1 DEF StaleIn
<1>4. \A g : Tagged(q, g) => Tagged(t, g)
  BY <1>1 DEF Tagged
<1>5. ASSUME NEW g, TagsLast(q, g)
      PROVE  TagsLast(t, g) /\ (h.type \in DriverTypes /\ h.gen = g => Tagged(t, g))
  <2>1. TagsLast(t, g)
    <3> SUFFICES ASSUME NEW j \in DOMAIN t, NEW k \in DOMAIN t, j < k, t[j].gen = g,
                        t[j].type \in DriverTypes, t[k].type \in DriverTypes
                 PROVE  t[k].gen = g
      BY DEF TagsLast
    <3>1. /\ j + 1 \in DOMAIN q /\ k + 1 \in DOMAIN q /\ j + 1 < k + 1 /\ t[j] = q[j + 1]
          /\ t[k] = q[k + 1]
      BY <1>1
    <3> QED
      BY <1>5, <3>1 DEF TagsLast
  <2>2. ASSUME h.type \in DriverTypes, h.gen = g, NEW k \in DOMAIN t, t[k].type \in DriverTypes
        PROVE  t[k].gen = g
    <3>1. 1 \in DOMAIN q /\ k + 1 \in DOMAIN q /\ 1 < k + 1 /\ t[k] = q[k + 1] /\ h = q[1]
      BY <1>1
    <3> QED
      BY <1>5, <2>2, <3>1 DEF TagsLast
  <2> QED
    BY <2>1, <2>2 DEF Tagged
<1>6. ASSUME NEW g, AddressAfter(q, g)
      PROVE  /\ AddressAfter(t, g)
             /\ h.type = "ASSOCIATED" /\ h.gen = g => In(t, "IP_ACQUIRED", g)
  <2>1. ASSUME NEW k \in DOMAIN q, q[k].type = "ASSOCIATED", q[k].gen = g
        PROVE  \E m \in DOMAIN t : k < m + 1 /\ t[m].type = "IP_ACQUIRED" /\ t[m].gen = g
    <3>1. PICK m \in DOMAIN q : k < m /\ q[m].type = "IP_ACQUIRED" /\ q[m].gen = g
      BY <1>6, <2>1 DEF AddressAfter
    <3>2. k \in Nat /\ m \in Nat /\ k # 0 /\ m # 1
      <4>1. q \in Seq(Events)
        OBVIOUS
      <4>2. k \in 1 .. Len(q) /\ m \in 1 .. Len(q)
        BY <4>1
      <4> QED
        BY <3>1, <4>2
    <3>3. m - 1 \in DOMAIN t /\ t[m - 1] = q[m] /\ k < (m - 1) + 1
      BY <1>1, <3>1, <3>2
    <3> QED
      BY <3>1, <3>3
  <2>2. AddressAfter(t, g)
    <3> SUFFICES ASSUME NEW j \in DOMAIN t, t[j].type = "ASSOCIATED", t[j].gen = g
                 PROVE  \E m \in DOMAIN t : j < m /\ t[m].type = "IP_ACQUIRED" /\ t[m].gen = g
      BY DEF AddressAfter
    <3>1. j + 1 \in DOMAIN q /\ q[j + 1] = t[j]
      BY <1>1
    <3>2. PICK m \in DOMAIN t : j + 1 < m + 1 /\ t[m].type = "IP_ACQUIRED" /\ t[m].gen = g
      BY <2>1, <3>1
    <3>3. j < m
      BY <1>1, <3>2
    <3> QED
      BY <3>2, <3>3
  <2>3. h.type = "ASSOCIATED" /\ h.gen = g => In(t, "IP_ACQUIRED", g)
    BY <1>1, <2>1 DEF In
  <2> QED
    BY <2>2, <2>3
<1>7. \A type, g : In(t, type, g) => In(q, type, g)
  BY <1>1 DEF In
<1>8. \A type, g : In(q, type, g) => In(t, type, g) \/ (h.type = type /\ h.gen = g)
  BY <1>1 DEF In
<1> QED
  BY <1>1, <1>2, <1>3, <1>4, <1>5, <1>6, <1>7, <1>8 DEF t, h

\* Events are put in at the end.
LEMMA ConcatKeeps ==
    ASSUME NEW q \in Seq(Events), NEW s \in Seq(Events)
    PROVE  /\ q \o s \in Seq(Events)
           /\ \A n : GensIn(q, n) /\ GensIn(s, n) => GensIn(q \o s, n)
           /\ \A n : StaleIn(q, n) /\ StaleIn(s, n) => StaleIn(q \o s, n)
           /\ \A g : Tagged(q, g) /\ Tagged(s, g) => Tagged(q \o s, g)
           /\ \A g : TagsLast(q, g) /\ Tagged(s, g) => TagsLast(q \o s, g)
           /\ \A type, g : In(q, type, g) => In(q \o s, type, g)
           /\ \A type, g : In(s, type, g) => In(q \o s, type, g)
           /\ \A type, g : In(q \o s, type, g) => In(q, type, g) \/ In(s, type, g)
           /\ \A g : AddressAfter(q, g) /\ ~In(s, "ASSOCIATED", g) => AddressAfter(q \o s, g)
           /\ \A g : ~In(s, "ASSOCIATED", g) /\ In(s, "IP_ACQUIRED", g) => AddressAfter(q \o s, g)
<1> DEFINE t == q \o s
           n == Len(q)
<1>1. /\ t \in Seq(Events) /\ n \in Nat
      /\ \A k \in DOMAIN q : k \in 1 .. n /\ k \in DOMAIN t /\ t[k] = q[k]
      /\ \A k \in DOMAIN s : k \in Nat \ {0} /\ k + n \in DOMAIN t /\ t[k + n] = s[k]
      /\ \A k \in DOMAIN t : k \in Nat /\ (k \in DOMAIN q \/ (k > n /\ k - n \in DOMAIN s /\ t[k] = s[k - n]))
  <2>1. /\ t \in Seq(Events) /\ Len(t) = n + Len(s)
        /\ \A i \in 1 .. n + Len(s) : t[i] = IF i <= n THEN q[i] ELSE s[i - n]
    BY ConcatProperties
  <2>2. /\ n \in Nat /\ Len(s) \in Nat /\ DOMAIN q = 1 .. n /\ DOMAIN s = 1 .. Len(s)
        /\ DOMAIN t = 1 .. n + Len(s)
    BY <2>1
  <2> HIDE DEF t, n
  <2>3. \A k \in DOMAIN q : k \in 1 .. n /\ k \in DOMAIN t /\ t[k] = q[k]
    BY <2>1, <2>2
  <2>4. ASSUME NEW k \in DOMAIN s
        PROVE  k \in Nat \ {0} /\ k + n \in DOMAIN t /\ t[k + n] = s[k]
    <3>1. k \in 1 .. Len(s) /\ k + n \in 1 .. n + Len(s) /\ ~(k + n <= n) /\ (k + n) - n = k
      BY <2>2
    <3> QED
      BY <2>1, <2>2, <3>1
  <2>5. ASSUME NEW k \in DOMAIN t
        PROVE  k \in Nat /\ (k \in DOMAIN q \/ (k > n /\ k - n \in DOMAIN s /\ t[k] = s[k - n]))
    <3>1. k \in 1 .. n + Len(s)
      BY <2>2
    <3> QED
      BY <2>1, <2>2, <3>1
  <2> QED
    BY <2>1, <2>2, <2>3, <2>4, <2>5
<1> HIDE DEF t, n
<1>2. \A x : GensIn(q, x) /\ GensIn(s, x) => GensIn(t, x)
  BY <1>1 DEF GensIn
<1>3. \A x : StaleIn(q, x) /\ StaleIn(s, x) => StaleIn(t, x)
  BY <1>1 DEF StaleIn
<1>4. \A g : Tagged(q, g) /\ Tagged(s, g) => Tagged(t, g)
  BY <1>1 DEF Tagged
<1>5. ASSUME NEW g, TagsLast(q, g), Tagged(s, g)
      PROVE  TagsLast(t, g)
  <2> SUFFICES ASSUME NEW j \in DOMAIN t, NEW k \in DOMAIN t, j < k, t[j].gen = g,
                      t[j].type \in DriverTypes, t[k].type \in DriverTypes
               PROVE  t[k].gen = g
    BY DEF TagsLast
  <2>1. CASE k \in DOMAIN q
    <3>1. j \in DOMAIN q /\ t[j] = q[j] /\ t[k] = q[k]
      BY <1>1, <2>1
    <3> QED
      BY <1>5, <2>1, <3>1 DEF TagsLast
  <2>2. CASE k - n \in DOMAIN s /\ t[k] = s[k - n]
    BY <1>5, <2>2 DEF Tagged
  <2> QED
    BY <1>1, <2>1, <2>2
<1>6. \A type, g : In(q, type, g) => In(t, type, g)
  BY <1>1 DEF In
<1>7. \A type, g : In(s, type, g) => In(t, type, g)
  BY <1>1 DEF In
<1>8. \A type, g : In(t, type, g) => In(q, type, g) \/ In(s, type, g)
  BY <1>1 DEF In
<1>9. ASSUME NEW g, ~In(s, "ASSOCIATED", g), AddressAfter(q, g) \/ In(s, "IP_ACQUIRED", g)
      PROVE  AddressAfter(t, g)
  <2> SUFFICES ASSUME NEW k \in DOMAIN t, t[k].type = "ASSOCIATED", t[k].gen = g
               PROVE  \E m \in DOMAIN t : k < m /\ t[m].type = "IP_ACQUIRED" /\ t[m].gen = g
    BY DEF AddressAfter
  <2>1. k \in DOMAIN q /\ t[k] = q[k] /\ k \in 1 .. n
    BY <1>1, <1>9 DEF In
  <2>2. CASE AddressAfter(q, g)
    <3>1. PICK m \in DOMAIN q : k < m /\ q[m].type = "IP_ACQUIRED" /\ q[m].gen = g
      BY <2>1, <2>2 DEF AddressAfter
    <3> QED
      BY <1>1, <3>1
  <2>3. CASE In(s, "IP_ACQUIRED", g)
    <3>1. PICK m \in DOMAIN s : s[m].type = "IP_ACQUIRED" /\ s[m].gen = g
      BY <2>3 DEF In
    <3>2. m + n \in DOMAIN t /\ t[m + n] = s[m] /\ k < m + n
      BY <1>1, <2>1
    <3> QED
      BY <3>1, <3>2
  <2> QED
    BY <1>9, <2>2, <2>3
<1> QED
  BY <1>1, <1>2, <1>3, <1>4, <1>5, <1>6, <1>7, <1>8, <1>9 DEF t

\* A generation nobody has been given yet.
LEMMA NewGeneration ==
    ASSUME NEW q \in Seq(Events), NEW n \in Nat, GensIn(q, n)
    PROVE  /\ GensIn(q, n + 1) /\ StaleIn(q, n + 1)
           /\ \A type : ~In(q, type, n + 1)
           /\ TagsLast(q, n + 1) /\ AddressAfter(q, n + 1)
BY DEF GensIn, StaleIn, In, TagsLast, AddressAfter

\* With one tag only, no other matters.
LEMMA OtherTag ==
    ASSUME NEW q, NEW g, Tagged(q, g), NEW f, f # g
    PROVE  AddressAfter(q, f) /\ \A type \in DriverTypes : ~In(q, type, f)
BY DEF Tagged, AddressAfter, In, DriverTypes

\* One event.
LEMMA OneEvent ==
    ASSUME NEW e \in Events
    PROVE  /\ <<e>> \in Seq(Events)
           /\ \A n : e.gen \in 0 .. n => GensIn(<<e>>, n)
           /\ \A n : (e.type \in TimerTypes => e.gen < n) => StaleIn(<<e>>, n)
           /\ \A g : (e.type \in DriverTypes => e.gen = g) => Tagged(<<e>>, g)
           /\ \A type, g : In(<<e>>, type, g) <=> e.type = type /\ e.gen = g
<1>1. <<e>> \in Seq(Events) /\ DOMAIN <<e>> = {1} /\ <<e>>[1] = e
  OBVIOUS
<1> QED
  BY <1>1 DEF GensIn, StaleIn, Tagged, In

\* argus_net_mgr_post_event: what does not fit is lost.
LEMMA PostSome ==
    ASSUME s_event_queue \in Seq(Events), NEW s \in Seq(Events), Post(s)
    PROVE  \E r \in Seq(Events) :
             /\ s_event_queue' = s_event_queue \o r
             /\ \A k \in DOMAIN r : k \in DOMAIN s /\ r[k] = s[k]
             /\ Len(r) < Len(s) => lost'
             /\ lost => lost'
<1> DEFINE room == EventQueueLength - Len(s_event_queue)
           fit == IF Len(s) <= room THEN Len(s) ELSE room
           r == SubSeq(s, 1, fit)
<1>1. Len(s_event_queue) \in Nat /\ Len(s) \in Nat /\ DOMAIN s = 1 .. Len(s)
      /\ \A i \in DOMAIN s : s[i] \in Events
  OBVIOUS
<1>2. fit \in Int /\ fit <= Len(s)
  BY <1>1, StaLinkAssumption
<1>3. s_event_queue' = s_event_queue \o r /\ lost' = (lost \/ fit < Len(s))
  BY DEF Post
<1> HIDE DEF fit
<1>4. r \in Seq(Events) /\ Len(r) = (IF 1 <= fit THEN fit ELSE 0)
      /\ \A i \in 1 .. fit : r[i] = s[i]
  <2>1. \A i \in 1 .. fit : s[i] \in Events
    BY <1>1, <1>2
  <2>2. /\ r \in Seq(Events)
        /\ Len(r) = IF 1 <= fit THEN fit - 1 + 1 ELSE 0
        /\ \A i \in 1 .. fit - 1 + 1 : r[i] = s[1 + i - 1]
    BY <1>2, <2>1, SubSeqProperties
  <2> HIDE DEF r
  <2> QED
    BY <1>2, <2>2
<1>5. \A k \in DOMAIN r : k \in DOMAIN s /\ r[k] = s[k]
  <2> HIDE DEF r
  <2>1. DOMAIN r = 1 .. Len(r)
    BY <1>4
  <2> QED
    BY <1>1, <1>2, <1>4, <2>1
<1>6. Len(r) < Len(s) => lost'
  <2> HIDE DEF r
  <2>1. Len(r) < Len(s) => fit < Len(s)
    BY <1>1, <1>2, <1>4
  <2> QED
    BY <1>3, <2>1, Zenon
<1> QED
  BY <1>3, <1>4, <1>5, <1>6 DEF r

\* An event goes into the queue, or is lost.
LEMMA PostOne ==
    ASSUME s_event_queue \in Seq(Events), NEW e \in Events, Post(<<e>>)
    PROVE  /\ s_event_queue' \in Seq(Events) /\ (lost => lost')
           /\ \A n : GensIn(s_event_queue, n) /\ e.gen \in 0 .. n => GensIn(s_event_queue', n)
           /\ \A n : StaleIn(s_event_queue, n) /\ (e.type \in TimerTypes => e.gen < n) =>
                  StaleIn(s_event_queue', n)
           /\ \A g : Tagged(s_event_queue, g) /\ (e.type \in DriverTypes => e.gen = g) =>
                  Tagged(s_event_queue', g)
           /\ \A g : TagsLast(s_event_queue, g) /\ (e.type \in DriverTypes => e.gen = g) =>
                  TagsLast(s_event_queue', g)
           /\ \A type, g : In(s_event_queue', type, g) =>
                  In(s_event_queue, type, g) \/ (e.type = type /\ e.gen = g)
           /\ \A type, g : In(s_event_queue, type, g) => In(s_event_queue', type, g)
           /\ ~lost' => In(s_event_queue', e.type, e.gen)
           /\ \A g : AddressAfter(s_event_queue, g) /\ ~(e.type = "ASSOCIATED" /\ e.gen = g) =>
                  AddressAfter(s_event_queue', g)
           /\ ~lost' /\ e.type = "IP_ACQUIRED" => AddressAfter(s_event_queue', e.gen)
<1> DEFINE s == <<e>>
<1>1. /\ s \in Seq(Events) /\ Len(s) = 1 /\ DOMAIN s = {1} /\ s[1] = e
  OBVIOUS
<1>2. PICK r \in Seq(Events) :
         /\ s_event_queue' = s_event_queue \o r
         /\ \A k \in DOMAIN r : k \in DOMAIN s /\ r[k] = s[k]
         /\ Len(r) < Len(s) => lost'
         /\ lost => lost'
  BY <1>1, PostSome
<1> HIDE DEF s
<1>3. \A k \in DOMAIN r : r[k] = e
  BY <1>1, <1>2
<1>4. ~lost' => 1 \in DOMAIN r
  <2>1. Len(r) \in Nat /\ DOMAIN r = 1 .. Len(r)
    OBVIOUS
  <2> QED
    BY <1>1, <1>2, <2>1
<1>5. /\ \A n : e.gen \in 0 .. n => GensIn(r, n)
      /\ \A n : (e.type \in TimerTypes => e.gen < n) => StaleIn(r, n)
      /\ \A g : (e.type \in DriverTypes => e.gen = g) => Tagged(r, g)
      /\ \A type, g : In(r, type, g) => e.type = type /\ e.gen = g
      /\ ~lost' => In(r, e.type, e.gen)
  <2>1. ~lost' => In(r, e.type, e.gen)
    BY <1>3, <1>4 DEF In
  <2>2. \A type, g : In(r, type, g) => e.type = type /\ e.gen = g
    BY <1>3 DEF In
  <2> QED
    BY <1>3, <2>1, <2>2 DEF GensIn, StaleIn, Tagged
<1>6. /\ s_event_queue' \in Seq(Events)
      /\ \A n : GensIn(s_event_queue, n) /\ GensIn(r, n) => GensIn(s_event_queue', n)
      /\ \A n : StaleIn(s_event_queue, n) /\ StaleIn(r, n) => StaleIn(s_event_queue', n)
      /\ \A g : Tagged(s_event_queue, g) /\ Tagged(r, g) => Tagged(s_event_queue', g)
      /\ \A g : TagsLast(s_event_queue, g) /\ Tagged(r, g) => TagsLast(s_event_queue', g)
      /\ \A type, g : In(s_event_queue, type, g) => In(s_event_queue', type, g)
      /\ \A type, g : In(r, type, g) => In(s_event_queue', type, g)
      /\ \A type, g : In(s_event_queue', type, g) => In(s_event_queue, type, g) \/ In(r, type, g)
      /\ \A g : AddressAfter(s_event_queue, g) /\ ~In(r, "ASSOCIATED", g) => AddressAfter(s_event_queue', g)
      /\ \A g : ~In(r, "ASSOCIATED", g) /\ In(r, "IP_ACQUIRED", g) => AddressAfter(s_event_queue', g)
  BY <1>2, ConcatKeeps
<1>7. /\ \A n : GensIn(s_event_queue, n) /\ e.gen \in 0 .. n => GensIn(s_event_queue', n)
      /\ \A n : StaleIn(s_event_queue, n) /\ (e.type \in TimerTypes => e.gen < n) =>
             StaleIn(s_event_queue', n)
      /\ \A g : Tagged(s_event_queue, g) /\ (e.type \in DriverTypes => e.gen = g) =>
             Tagged(s_event_queue', g)
      /\ \A g : TagsLast(s_event_queue, g) /\ (e.type \in DriverTypes => e.gen = g) =>
             TagsLast(s_event_queue', g)
  BY <1>5, <1>6
<1>8. /\ \A type, g : In(s_event_queue', type, g) =>
             In(s_event_queue, type, g) \/ (e.type = type /\ e.gen = g)
      /\ ~lost' => In(s_event_queue', e.type, e.gen)
  BY <1>5, <1>6
<1>9. \A g : AddressAfter(s_event_queue, g) /\ ~(e.type = "ASSOCIATED" /\ e.gen = g) =>
           AddressAfter(s_event_queue', g)
  BY <1>5, <1>6
<1>10. ~lost' /\ e.type = "IP_ACQUIRED" => AddressAfter(s_event_queue', e.gen)
  <2> SUFFICES ASSUME ~lost', e.type = "IP_ACQUIRED" PROVE AddressAfter(s_event_queue', e.gen)
    OBVIOUS
  <2>1. ~In(r, "ASSOCIATED", e.gen)
    BY <1>5
  <2>2. In(r, "IP_ACQUIRED", e.gen)
    BY <1>5
  <2> QED
    BY <1>6, <2>1, <2>2
<1> QED
  BY <1>2, <1>6, <1>7, <1>8, <1>9, <1>10

\* What the station's shutdown posts has the tag and is of no timer.
LEMMA PostTagged ==
    ASSUME s_event_queue \in Seq(Events), NEW s \in Seq(Events), NEW f,
           \A k \in DOMAIN s : s[k].gen = f /\ s[k].type \notin TimerTypes,
           Post(s)
    PROVE  /\ s_event_queue' \in Seq(Events)
           /\ \A n : GensIn(s_event_queue, n) /\ f \in 0 .. n => GensIn(s_event_queue', n)
           /\ \A n : StaleIn(s_event_queue, n) => StaleIn(s_event_queue', n)
           /\ Tagged(s_event_queue, f) => Tagged(s_event_queue', f)
           /\ TagsLast(s_event_queue, f) => TagsLast(s_event_queue', f)
           /\ \A type \in TimerTypes : \A g : In(s_event_queue', type, g) => In(s_event_queue, type, g)
<1>1. PICK r \in Seq(Events) :
         /\ s_event_queue' = s_event_queue \o r
         /\ \A k \in DOMAIN r : k \in DOMAIN s /\ r[k] = s[k]
  BY PostSome
<1>2. \A k \in DOMAIN r : r[k].gen = f /\ r[k].type \notin TimerTypes
  BY <1>1
<1>3. /\ \A n : f \in 0 .. n => GensIn(r, n)
      /\ \A n : StaleIn(r, n)
      /\ Tagged(r, f)
      /\ \A type \in TimerTypes : \A g : ~In(r, type, g)
  BY <1>2 DEF GensIn, StaleIn, Tagged, In
<1>4. /\ s_event_queue' \in Seq(Events)
      /\ \A n : GensIn(s_event_queue, n) /\ GensIn(r, n) => GensIn(s_event_queue', n)
      /\ \A n : StaleIn(s_event_queue, n) /\ StaleIn(r, n) => StaleIn(s_event_queue', n)
      /\ \A g : Tagged(s_event_queue, g) /\ Tagged(r, g) => Tagged(s_event_queue', g)
      /\ \A g : TagsLast(s_event_queue, g) /\ Tagged(r, g) => TagsLast(s_event_queue', g)
      /\ \A type, g : In(s_event_queue', type, g) => In(s_event_queue, type, g) \/ In(r, type, g)
  BY <1>1, ConcatKeeps
<1> QED
  BY <1>3, <1>4

\* A request in the queue disturbs none of the events of driver and timers.
LEMMA AppendOne ==
    ASSUME s_event_queue \in Seq(Events), NEW e \in Events, e.type \notin DriverTypes \cup TimerTypes,
           s_event_queue' = Append(s_event_queue, e)
    PROVE  /\ s_event_queue' \in Seq(Events)
           /\ \A n : GensIn(s_event_queue, n) /\ e.gen \in 0 .. n => GensIn(s_event_queue', n)
           /\ \A n : StaleIn(s_event_queue, n) => StaleIn(s_event_queue', n)
           /\ \A g : Tagged(s_event_queue, g) => Tagged(s_event_queue', g)
           /\ \A g : TagsLast(s_event_queue, g) => TagsLast(s_event_queue', g)
           /\ \A g : AddressAfter(s_event_queue, g) => AddressAfter(s_event_queue', g)
           /\ \A type \in DriverTypes \cup TimerTypes : \A g :
                  In(s_event_queue', type, g) <=> In(s_event_queue, type, g)
<1> DEFINE s == <<e>>
<1>1. s_event_queue' = s_event_queue \o s
  OBVIOUS
<1>2. /\ s \in Seq(Events)
      /\ \A n : e.gen \in 0 .. n => GensIn(s, n)
      /\ \A n : StaleIn(s, n)
      /\ \A g : Tagged(s, g)
      /\ \A type \in DriverTypes \cup TimerTypes : \A g : ~In(s, type, g)
  BY OneEvent
<1>3. "ASSOCIATED" \in DriverTypes
  BY DEF DriverTypes
<1> HIDE DEF s
<1>4. /\ s_event_queue' \in Seq(Events)
      /\ \A n : GensIn(s_event_queue, n) /\ GensIn(s, n) => GensIn(s_event_queue', n)
      /\ \A n : StaleIn(s_event_queue, n) /\ StaleIn(s, n) => StaleIn(s_event_queue', n)
      /\ \A g : Tagged(s_event_queue, g) /\ Tagged(s, g) => Tagged(s_event_queue', g)
      /\ \A g : TagsLast(s_event_queue, g) /\ Tagged(s, g) => TagsLast(s_event_queue', g)
      /\ \A type, g : In(s_event_queue, type, g) => In(s_event_queue', type, g)
      /\ \A type, g : In(s_event_queue', type, g) => In(s_event_queue, type, g) \/ In(s, type, g)
      /\ \A g : AddressAfter(s_event_queue, g) /\ ~In(s, "ASSOCIATED", g) => AddressAfter(s_event_queue', g)
  BY <1>1, <1>2, ConcatKeeps
<1> QED
  BY <1>2, <1>3, <1>4

---------------------------------------------------------------------------
(* The station: the invariant.                                             *)

Places == [net : {"idle", "prepare", "service", "recovery"}, cli : {"idle", "service"}]
Timers == [armed : BOOLEAN, gen : Nat]
StationFlags == [started : BOOLEAN, connected : BOOLEAN, ip : BOOLEAN]
TransactionRecords ==
    [active : BOOLEAN, kind : {"NONE", "RECONNECT", "APPLY"}, gen : Nat, state : ApplyStates,
     staged : BOOLEAN, wasUp : BOOLEAN]
StaTypes ==
    /\ mode \in Operational \cup Service
    /\ sta \in StaStates
    /\ radio \in {"off", "down", "trying", "linked", "online"}
    /\ flags \in StationFlags /\ txn \in TransactionRecords
    /\ tgen \in Nat /\ tag \in 0 .. tgen
    /\ retry \in Timers /\ iptimer \in Timers /\ retry.gen <= tgen /\ iptimer.gen <= tgen
    /\ s_event_queue \in Seq(Events) /\ GensIn(s_event_queue, tgen)
    /\ pc \in Places
    /\ lost \in BOOLEAN /\ abandoned \in BOOLEAN
    /\ authFailures \in 0 .. AuthLimit

\* The tag is the transaction's; while it is prepared, the task holds the mutex.
Transactions ==
    /\ tag = IF txn.active THEN txn.gen ELSE 0
    /\ txn.active => txn.gen # 0 /\ txn.state \in {"PREPARING", "WAITING_DISCONNECT", "CONNECTING"}
    /\ pc.net = "prepare" <=> txn.active /\ txn.state = "PREPARING"
    /\ pc.net = "prepare" => mode \in Operational

\* The callback's flags claim no more than the driver has.
FlagsFollow ==
    /\ flags.connected => radio \in {"linked", "online"}
    /\ flags.ip => radio = "online"

\* From its beginning until its disconnection is handled a transaction is the
\* only thing under way: no timer runs and what the timers posted is out of date.
Halted == txn.active /\ txn.state \in {"PREPARING", "WAITING_DISCONNECT"}
Stilled ==
    Halted =>
      /\ txn.gen = tgen /\ ~retry.armed /\ ~iptimer.armed
      /\ StaleIn(s_event_queue, tgen)
      /\ txn.state = "PREPARING" /\ txn.wasUp => radio \in {"linked", "online", "down"}
      /\ txn.state = "WAITING_DISCONNECT" => radio \in {"off", "down"}

\* The driver's events with the transaction's tag come after all others, and
\* once the transaction's attempt has led to a timer, no others are left.
TagOrder ==
    tag # 0 =>
      /\ TagsLast(s_event_queue, tag)
      /\ retry.armed \/ iptimer.armed \/ In(s_event_queue, "IP_TIMEOUT", tgen) =>
             Tagged(s_event_queue, tag)

\* In service an announced retry is out of date.
Quiet ==
    mode \in Service /\ sta = "RETRY_WAIT" =>
       /\ retry.armed => retry.gen < tgen
       /\ ~In(s_event_queue, "WAKEUP", tgen)

\* Nothing was lost or given up half way, and the station is in use.
Sound == ~lost /\ ~abandoned /\ mode \in Operational

\* The last thing the driver did is told by an event that counts.
Tells ==
    \/ radio = "linked" /\ In(s_event_queue, "ASSOCIATED", tag)
    \/ radio = "online" /\ In(s_event_queue, "IP_ACQUIRED", tag)
    \/ radio = "down" /\ In(s_event_queue, "DISCONNECTED", tag)

\* The flags say what the driver has.
FlagsTrue ==
    /\ radio # "off" => flags.started
    /\ radio \in {"linked", "online"} => flags.connected
    /\ radio = "online" => flags.ip
AddressFollows == radio = "online" => AddressAfter(s_event_queue, tag)

WillRetry == (retry.armed /\ retry.gen = tgen) \/ In(s_event_queue, "WAKEUP", tgen)
WillTimeOut == (iptimer.armed /\ iptimer.gen = tgen) \/ In(s_event_queue, "IP_TIMEOUT", tgen)

\* What each state waits for.
Waits ==
    /\ sta = "RETRY_WAIT" /\ ~Halted => WillRetry
    /\ sta = "CONNECTING" => radio = "trying" \/ Tells
    /\ sta = "ASSOCIATED_WAITING_IP" =>
         /\ radio # "off" /\ (WillTimeOut \/ Tells)
         /\ radio = "online" => In(s_event_queue, "IP_ACQUIRED", tag)
    /\ sta = "CONNECTED" => radio = "online" \/ Tells
    /\ Halted => radio = "down" /\ In(s_event_queue, "DISCONNECTED", tag)
\* A station that went down while its transaction was prepared has said so.
Resuming == txn.wasUp /\ radio = "down" => In(s_event_queue, "DISCONNECTED", tag)

Alive ==
    Sound => FlagsTrue /\ AddressFollows /\ IF pc.net = "prepare" THEN Resuming ELSE Waits

StaInv ==
    /\ StaTypes /\ Transactions /\ FlagsFollow /\ Stilled /\ TagOrder /\ Quiet
    /\ Alive

\* argus_net_mgr_init establishes the invariant.
LEMMA StaInvInit == StaInit => StaInv
<1> SUFFICES ASSUME StaInit PROVE StaInv
  OBVIOUS
<1>0. s_event_queue = <<>> /\ <<>> \in Seq(Events) /\ DOMAIN <<>> = {}
  BY DEF StaInit
<1>00. GensIn(<<>>, 0) /\ (\A type, g : ~In(<<>>, type, g)) /\ AddressAfter(<<>>, 0)
  BY <1>0 DEF GensIn, In, AddressAfter
<1>1. StaTypes
  <2>1. authFailures \in 0 .. AuthLimit
    BY StaLinkAssumption DEF StaInit
  <2>2. NoTransaction \in TransactionRecords
    BY DEF NoTransaction, TransactionRecords, ApplyStates
  <2>3. Absent \in StationFlags /\ Started \in StationFlags
    BY DEF Absent, Started, StationFlags
  <2>4. retry \in Timers /\ iptimer \in Timers /\ retry.gen = 0 /\ iptimer.gen = 0
    BY DEF StaInit, Timers, Off
  <2>5. /\ mode \in Operational /\ sta \in StaStates
        /\ radio \in {"off", "down", "trying", "linked", "online"}
    BY DEF StaInit, Operational, StaStates
  <2> QED
    <3>1. txn \in TransactionRecords /\ flags \in StationFlags
      BY <2>2, <2>3 DEF StaInit
    <3>2. tgen \in Nat /\ tag \in 0 .. tgen /\ retry.gen <= tgen /\ iptimer.gen <= tgen
      BY <2>4 DEF StaInit
    <3>3. pc \in Places
      BY DEF StaInit, Places
    <3>4. lost \in BOOLEAN /\ abandoned \in BOOLEAN
      BY DEF StaInit
    <3>5. s_event_queue \in Seq(Events) /\ GensIn(s_event_queue, tgen)
      BY <1>0, <1>00 DEF StaInit
    <3> QED
      BY <2>1, <2>4, <2>5, <3>1, <3>2, <3>3, <3>4, <3>5 DEF StaTypes
<1>2. Transactions /\ FlagsFollow /\ Stilled /\ TagOrder /\ Quiet
  BY DEF StaInit, Transactions, FlagsFollow, Stilled, Halted, TagOrder, Quiet, NoTransaction,
     Absent, Started, Service
<1>3. Alive
  BY <1>0, <1>00 DEF StaInit, Alive, Sound, FlagsTrue, AddressFollows, Waits, Tells, WillRetry,
     WillTimeOut, Halted, NoTransaction, Absent, Started
<1> QED
  BY <1>1, <1>2, <1>3 DEF StaInv

\* The invariant is stronger than the property.
LEMMA StaAliveInv ==
    ASSUME StaInv PROVE NeverStuck
<1> SUFFICES ASSUME Sound, pc.net = "idle" PROVE
        /\ RetryScheduled
        /\ sta = "CONNECTING" => radio = "trying" \/ DriverPending
        /\ sta = "ASSOCIATED_WAITING_IP" =>
               \/ iptimer.armed /\ iptimer.gen = tgen
               \/ Pending("IP_TIMEOUT", tgen) \/ DriverPending
        /\ sta = "CONNECTED" => radio = "online" \/ DriverPending
        /\ txn.active /\ txn.state = "WAITING_DISCONNECT" => Pending("DISCONNECTED", tag)
  BY DEF NeverStuck, StationAlive, Sound
<1>1. Waits
  BY DEF StaInv, Alive
<1>2. \A type, g : Pending(type, g) <=> In(s_event_queue, type, g)
  BY DEF Pending, In
<1>3. Tells => DriverPending
  BY <1>2 DEF Tells, DriverPending
<1> QED
  BY <1>1, <1>2, <1>3 DEF Waits, WillRetry, WillTimeOut, RetryScheduled, Halted

---------------------------------------------------------------------------
(* The station: the driver, the timers and the requests.                   *)

\* A step of the driver is told by its event, or the event is lost.
LEMMA RadioMoves ==
    ASSUME StaInv, NEW e \in Events, e.gen = tag, Post(<<e>>), RadioStep,
           \/ /\ radio = "trying" /\ radio' = "linked" /\ e.type = "ASSOCIATED"
              /\ flags' = [flags EXCEPT !.connected = TRUE]
           \/ /\ radio = "linked" /\ radio' = "online" /\ e.type = "IP_ACQUIRED"
              /\ flags' = [flags EXCEPT !.ip = TRUE]
           \/ /\ radio \in {"trying", "linked", "online"} /\ radio' = "down" /\ e.type = "DISCONNECTED"
              /\ flags' = [flags EXCEPT !.connected = FALSE, !.ip = FALSE]
    PROVE  StaInv'
<1>1. /\ StaTypes /\ Transactions /\ FlagsFollow /\ Stilled /\ TagOrder /\ Quiet /\ Alive
  BY DEF StaInv
<1>2. UNCHANGED <<mode, sta, txn, tag, tgen, retry, iptimer, authFailures, pc, abandoned>>
  BY DEF RadioStep, timers
<1>3. e.type \in DriverTypes /\ e.type \notin TimerTypes /\ s_event_queue \in Seq(Events)
      /\ {"WAKEUP", "IP_TIMEOUT"} = TimerTypes
  BY <1>1 DEF DriverTypes, TimerTypes, StaTypes
<1>4. /\ s_event_queue' \in Seq(Events) /\ (lost => lost')
      /\ \A n : GensIn(s_event_queue, n) /\ e.gen \in 0 .. n => GensIn(s_event_queue', n)
      /\ \A n : StaleIn(s_event_queue, n) => StaleIn(s_event_queue', n)
      /\ Tagged(s_event_queue, tag) => Tagged(s_event_queue', tag)
      /\ TagsLast(s_event_queue, tag) => TagsLast(s_event_queue', tag)
      /\ \A type, g : In(s_event_queue', type, g) =>
                  In(s_event_queue, type, g) \/ (e.type = type /\ e.gen = g)
      /\ \A type, g : In(s_event_queue, type, g) => In(s_event_queue', type, g)
      /\ ~lost' => In(s_event_queue', e.type, tag)
      /\ ~lost' /\ e.type = "IP_ACQUIRED" => AddressAfter(s_event_queue', tag)
  BY <1>3, PostOne
<1>5. flags' \in StationFlags
  BY <1>1 DEF StaTypes, StationFlags
<1>6. lost' \in BOOLEAN
  BY DEF Post
<1>7. StaTypes'
  BY <1>1, <1>2, <1>4, <1>5, <1>6 DEF StaTypes
<1>8. Transactions'
  BY <1>1, <1>2 DEF Transactions
<1>9. FlagsFollow'
  BY <1>1 DEF FlagsFollow, StaTypes, StationFlags
<1>10. Stilled'
  BY <1>1, <1>2, <1>4 DEF Stilled, Halted
<1>11. TagOrder'
  BY <1>1, <1>2, <1>3, <1>4 DEF TagOrder
<1>12. Quiet'
  BY <1>1, <1>2, <1>3, <1>4 DEF Quiet
<1>13. Alive'
  <2> SUFFICES ASSUME Sound' PROVE FlagsTrue' /\ AddressFollows' /\ (pc.net = "prepare" => Resuming')
                                   /\ (pc.net # "prepare" => Waits')
    BY <1>2 DEF Alive
  <2>1. Sound /\ ~lost' /\ FlagsTrue
    BY <1>1, <1>2, <1>4 DEF Sound, Alive
  <2>2. FlagsTrue'
    BY <1>1, <2>1 DEF FlagsTrue, StaTypes, StationFlags
  <2>3. AddressFollows'
    BY <1>2, <1>4, <2>1 DEF AddressFollows
  <2>4. Resuming'
    BY <1>2, <1>4, <2>1 DEF Resuming
  <2>5. Tells'
    BY <1>2, <1>4, <2>1 DEF Tells
  <2>6. ASSUME pc.net # "prepare" PROVE Waits'
    <3>1. Waits
      BY <1>1, <2>1, <2>6 DEF Alive
    <3>2. ~Halted'
      BY <1>1, <1>2, <2>6, <3>1 DEF Waits, Halted, Transactions, Stilled
    <3>3. WillRetry => WillRetry'
      BY <1>2, <1>4 DEF WillRetry
    <3> QED
      BY <1>2, <1>4, <2>1, <2>5, <3>1, <3>2, <3>3 DEF Waits, Halted
  <2> QED
    BY <2>2, <2>3, <2>4, <2>6
<1> QED
  BY <1>7, <1>8, <1>9, <1>10, <1>11, <1>12, <1>13 DEF StaInv

\* A stopped timer keeps its generation.
LEMMA StopKeeps ==
    ASSUME NEW t \in Timers
    PROVE  /\ [t EXCEPT !.armed = FALSE] \in Timers
           /\ [t EXCEPT !.armed = FALSE].gen = t.gen /\ [t EXCEPT !.armed = FALSE].armed = FALSE
           /\ \A s \in StopOutcomes(t) : s \in Timers /\ s.gen = t.gen /\ (s.armed => t.armed)
<1>1. /\ [t EXCEPT !.armed = FALSE] \in Timers
      /\ [t EXCEPT !.armed = FALSE].gen = t.gen /\ [t EXCEPT !.armed = FALSE].armed = FALSE
  BY DEF Timers
<1> QED
  BY <1>1 DEF StopOutcomes

\* A timer expires: its event takes its place.
LEMMA TimerFires ==
    ASSUME StaInv, NEW e \in Events, Post(<<e>>),
           UNCHANGED <<mode, sta, radio, flags, txn, tag, tgen, authFailures, pc, abandoned>>,
           \/ /\ retry.armed /\ retry' = [retry EXCEPT !.armed = FALSE] /\ iptimer' = iptimer
              /\ e.type = "WAKEUP" /\ e.gen = retry.gen
           \/ /\ iptimer.armed /\ iptimer' = [iptimer EXCEPT !.armed = FALSE] /\ retry' = retry
              /\ e.type = "IP_TIMEOUT" /\ e.gen = iptimer.gen
    PROVE  StaInv'
<1>1. /\ StaTypes /\ Transactions /\ FlagsFollow /\ Stilled /\ TagOrder /\ Quiet /\ Alive
  BY DEF StaInv
<1>2. /\ retry' \in Timers /\ iptimer' \in Timers /\ retry'.gen = retry.gen
      /\ iptimer'.gen = iptimer.gen
      /\ (retry'.armed => retry.armed) /\ (iptimer'.armed => iptimer.armed)
      /\ (retry.armed => retry'.armed \/ e.type = "WAKEUP")
      /\ (iptimer.armed => iptimer'.armed \/ e.type = "IP_TIMEOUT")
      /\ e.gen \in 0 .. tgen
      /\ (e.type = "WAKEUP" => e.gen = retry.gen) /\ (e.type = "IP_TIMEOUT" => e.gen = iptimer.gen)
      /\ (retry.armed \/ iptimer.armed) /\ (e.type = "WAKEUP" => retry.armed)
  <2>1. /\ retry \in Timers /\ iptimer \in Timers /\ retry.gen \in 0 .. tgen
        /\ iptimer.gen \in 0 .. tgen
    BY <1>1 DEF StaTypes, Timers
  <2>2. CASE /\ retry.armed /\ retry' = [retry EXCEPT !.armed = FALSE] /\ iptimer' = iptimer
             /\ e.type = "WAKEUP" /\ e.gen = retry.gen
    <3>1. retry' \in Timers /\ retry'.gen = retry.gen /\ ~retry'.armed
      BY <2>1, <2>2, StopKeeps
    <3> QED
      BY <2>1, <2>2, <3>1
  <2>3. CASE /\ iptimer.armed /\ iptimer' = [iptimer EXCEPT !.armed = FALSE] /\ retry' = retry
             /\ e.type = "IP_TIMEOUT" /\ e.gen = iptimer.gen
    <3>1. iptimer' \in Timers /\ iptimer'.gen = iptimer.gen /\ ~iptimer'.armed
      BY <2>1, <2>3, StopKeeps
    <3> QED
      BY <2>1, <2>3, <3>1
  <2> QED
    BY <2>2, <2>3
<1>3. /\ e.type \notin DriverTypes /\ s_event_queue \in Seq(Events)
      /\ e.type \in {"WAKEUP", "IP_TIMEOUT"}
  BY <1>1 DEF DriverTypes, StaTypes
<1>4. /\ s_event_queue' \in Seq(Events) /\ (lost => lost')
      /\ \A n : GensIn(s_event_queue, n) /\ e.gen \in 0 .. n => GensIn(s_event_queue', n)
      /\ \A g : Tagged(s_event_queue, g) => Tagged(s_event_queue', g)
      /\ \A g : TagsLast(s_event_queue, g) => TagsLast(s_event_queue', g)
      /\ \A type, g : In(s_event_queue', type, g) =>
                  In(s_event_queue, type, g) \/ (e.type = type /\ e.gen = g)
      /\ \A type, g : In(s_event_queue, type, g) => In(s_event_queue', type, g)
      /\ ~lost' => In(s_event_queue', e.type, e.gen)
      /\ \A g : AddressAfter(s_event_queue, g) => AddressAfter(s_event_queue', g)
  BY <1>3, PostOne
<1>5. lost' \in BOOLEAN
  BY DEF Post
<1>6. StaTypes'
  BY <1>1, <1>2, <1>4, <1>5 DEF StaTypes
<1>7. Transactions'
  BY <1>1 DEF Transactions
<1>8. FlagsFollow'
  BY <1>1 DEF FlagsFollow
<1>9. ~Halted
  BY <1>1, <1>2 DEF Stilled
<1>10. Stilled'
  BY <1>9 DEF Stilled, Halted
<1>11. TagOrder'
  BY <1>1, <1>2, <1>3, <1>4 DEF TagOrder
<1>12. Quiet'
  BY <1>1, <1>2, <1>3, <1>4 DEF Quiet
<1>13. Alive'
  <2> SUFFICES ASSUME Sound' PROVE FlagsTrue' /\ AddressFollows' /\ Waits'
    BY <1>1, <1>9 DEF Alive, Transactions, Halted
  <2>1. Sound /\ ~lost' /\ FlagsTrue /\ AddressFollows /\ Waits
    BY <1>1, <1>4, <1>9 DEF Sound, Alive, Transactions, Halted
  <2>2. FlagsTrue'
    BY <2>1 DEF FlagsTrue
  <2>3. AddressFollows'
    BY <1>4, <2>1 DEF AddressFollows
  <2>4. Tells => Tells'
    BY <1>4 DEF Tells
  <2>5. WillRetry => WillRetry'
    BY <1>2, <1>4, <2>1 DEF WillRetry
  <2>6. WillTimeOut => WillTimeOut'
    BY <1>2, <1>4, <2>1 DEF WillTimeOut
  <2>7. Waits'
    BY <1>4, <1>9, <2>1, <2>4, <2>5, <2>6 DEF Waits, Halted
  <2> QED
    BY <2>2, <2>3, <2>7
<1> QED
  BY <1>6, <1>7, <1>8, <1>10, <1>11, <1>12, <1>13 DEF StaInv

\* The portal and the recovery button only add their request.
LEMMA RequestPosted == StaInv /\ Request => StaInv'
<1> SUFFICES ASSUME StaInv, Request PROVE StaInv'
  OBVIOUS
<1>1. /\ StaTypes /\ Transactions /\ FlagsFollow /\ Stilled /\ TagOrder /\ Quiet /\ Alive
  BY DEF StaInv
<1>2. UNCHANGED <<mode, sta, radio, flags, txn, tag, tgen, retry, iptimer, authFailures, pc, lost, abandoned>>
  BY DEF Request, driver, timers, history
<1>3. PICK type \in {"RECONNECT", "APPLY", "RECOVERY"} :
         s_event_queue' = Append(s_event_queue, Event(type, 0))
  BY DEF Request
<1>4. /\ Event(type, 0) \in Events /\ Event(type, 0).gen = 0
      /\ Event(type, 0).type \notin DriverTypes \cup TimerTypes
  BY DEF Event, Events, EventTypes, DriverTypes, TimerTypes
<1>5. /\ DriverTypes \cup TimerTypes =
           {"ASSOCIATED", "IP_ACQUIRED", "DISCONNECTED", "WAKEUP", "IP_TIMEOUT"}
      /\ s_event_queue \in Seq(Events) /\ 0 \in 0 .. tgen
  BY <1>1 DEF DriverTypes, TimerTypes, StaTypes
<1>6. /\ s_event_queue' \in Seq(Events)
      /\ \A n : GensIn(s_event_queue, n) /\ 0 \in 0 .. n => GensIn(s_event_queue', n)
      /\ \A n : StaleIn(s_event_queue, n) => StaleIn(s_event_queue', n)
      /\ \A g : Tagged(s_event_queue, g) => Tagged(s_event_queue', g)
      /\ \A g : TagsLast(s_event_queue, g) => TagsLast(s_event_queue', g)
      /\ \A g : AddressAfter(s_event_queue, g) => AddressAfter(s_event_queue', g)
      /\ \A t \in {"ASSOCIATED", "IP_ACQUIRED", "DISCONNECTED", "WAKEUP", "IP_TIMEOUT"} : \A g :
             In(s_event_queue', t, g) <=> In(s_event_queue, t, g)
  BY <1>3, <1>4, <1>5, AppendOne
<1>7. StaTypes'
  BY <1>1, <1>2, <1>5, <1>6 DEF StaTypes
<1>8. Transactions' /\ FlagsFollow'
  BY <1>1, <1>2 DEF Transactions, FlagsFollow
<1>9. Stilled' /\ TagOrder' /\ Quiet'
  BY <1>1, <1>2, <1>6 DEF Stilled, Halted, TagOrder, Quiet
<1>10. Alive'
  <2>1. /\ Tells' <=> Tells
        /\ WillRetry' <=> WillRetry
        /\ WillTimeOut' <=> WillTimeOut
        /\ Halted' <=> Halted
    BY <1>2, <1>6 DEF Tells, WillRetry, WillTimeOut, Halted
  <2>2. Resuming => Resuming'
    BY <1>2, <1>6 DEF Resuming
  <2>3. Waits => Waits'
    BY <1>2, <1>6, <2>1 DEF Waits
  <2>4. (Sound' => Sound) /\ (FlagsTrue => FlagsTrue') /\ (AddressFollows => AddressFollows')
    BY <1>2, <1>6 DEF Sound, FlagsTrue, AddressFollows
  <2> QED
    BY <1>1, <1>2, <2>2, <2>3, <2>4 DEF Alive
<1> QED
  BY <1>7, <1>8, <1>9, <1>10 DEF StaInv

---------------------------------------------------------------------------
(* The station: events that are dropped.                                   *)

\* xQueueReceive
LEMMA TakenKeeps ==
    ASSUME StaInv, NEW type, Taken(type)
    PROVE  /\ s_event_queue' \in Seq(Events) /\ pc.net = "idle"
           /\ Head(s_event_queue).type = type /\ Head(s_event_queue).gen \in 0 .. tgen
           /\ Head(s_event_queue) \in Events /\ In(s_event_queue, type, Head(s_event_queue).gen)
           /\ GensIn(s_event_queue', tgen)
           /\ \A n : StaleIn(s_event_queue, n) =>
                StaleIn(s_event_queue', n) /\ (type \in TimerTypes => Head(s_event_queue).gen < n)
           /\ \A g : Tagged(s_event_queue, g) => Tagged(s_event_queue', g)
           /\ \A g : TagsLast(s_event_queue, g) =>
                /\ TagsLast(s_event_queue', g)
                /\ type \in DriverTypes /\ Head(s_event_queue).gen = g => Tagged(s_event_queue', g)
           /\ \A g : AddressAfter(s_event_queue, g) =>
                /\ AddressAfter(s_event_queue', g)
                /\ type = "ASSOCIATED" /\ Head(s_event_queue).gen = g =>
                       In(s_event_queue', "IP_ACQUIRED", g)
           /\ \A t, g : In(s_event_queue', t, g) => In(s_event_queue, t, g)
           /\ \A t, g : In(s_event_queue, t, g) =>
                In(s_event_queue', t, g) \/ (type = t /\ Head(s_event_queue).gen = g)
<1>1. /\ s_event_queue \in Seq(Events) /\ s_event_queue # <<>> /\ GensIn(s_event_queue, tgen)
      /\ pc.net = "idle" /\ s_event_queue' = Tail(s_event_queue)
      /\ Head(s_event_queue).type = type
  BY DEF StaInv, StaTypes, Taken
<1>2. In(s_event_queue, type, Head(s_event_queue).gen)
  BY <1>1, PopFacts DEF In
<1> QED
  BY <1>1, <1>2, PopKeeps

\* The event h changes nothing: none of the station's waits is for it.
Spent(h) ==
    /\ h.type = "WAKEUP" => h.gen # tgen \/ sta # "RETRY_WAIT"
    /\ h.type = "ASSOCIATED" => h.gen # tag \/ radio # "linked"
    /\ h.type = "IP_ACQUIRED" => h.gen # tag \/ radio # "online"
    /\ h.type = "DISCONNECTED" => h.gen # tag \/ radio # "down"
    /\ h.type = "IP_TIMEOUT" => h.gen # tgen \/ radio \in {"off", "online"}

\* Such an event may be dropped; in service its handler may also reset the
\* flags and disable the station (argus_net_apply_sta_event_action).
LEMMA EventDropped ==
    ASSUME StaInv, NEW type, Taken(type), Sound => Spent(Head(s_event_queue)),
           UNCHANGED <<mode, radio, txn, tag, tgen, retry, iptimer, authFailures, pc, lost, abandoned>>,
           \/ UNCHANGED <<sta, flags>>
           \/ mode \in Service /\ sta' \in {sta, "DISABLED"} /\ flags' \in {flags, Absent}
    PROVE  StaInv'
<1> DEFINE h == Head(s_event_queue)
<1>1. /\ StaTypes /\ Transactions /\ FlagsFollow /\ Stilled /\ TagOrder /\ Quiet /\ Alive
  BY DEF StaInv
<1>2. /\ s_event_queue' \in Seq(Events) /\ pc.net = "idle" /\ h.type = type
      /\ GensIn(s_event_queue', tgen)
      /\ \A n : StaleIn(s_event_queue, n) => StaleIn(s_event_queue', n)
      /\ \A g : Tagged(s_event_queue, g) => Tagged(s_event_queue', g)
      /\ \A g : TagsLast(s_event_queue, g) => TagsLast(s_event_queue', g)
      /\ \A g : AddressAfter(s_event_queue, g) => AddressAfter(s_event_queue', g)
      /\ \A t, g : In(s_event_queue', t, g) => In(s_event_queue, t, g)
      /\ \A t, g : In(s_event_queue, t, g) =>
                In(s_event_queue', t, g) \/ (type = t /\ h.gen = g)
  BY TakenKeeps
<1> HIDE DEF h
<1>3. Absent \in StationFlags /\ Absent.connected = FALSE /\ Absent.ip = FALSE
  BY DEF Absent, StationFlags
<1>4. StaTypes'
  BY <1>1, <1>2, <1>3 DEF StaTypes, StaStates
<1>5. Transactions' /\ FlagsFollow'
  BY <1>1, <1>3 DEF Transactions, FlagsFollow
<1>6. Stilled' /\ TagOrder' /\ Quiet'
  BY <1>1, <1>2 DEF Stilled, Halted, TagOrder, Quiet
<1>7. Alive'
  <2> SUFFICES ASSUME Sound' PROVE FlagsTrue' /\ AddressFollows' /\ Waits'
    BY <1>2 DEF Alive
  <2>1. Sound /\ FlagsTrue /\ AddressFollows /\ Waits /\ UNCHANGED <<sta, flags>>
    BY <1>1, <1>2 DEF Sound, Alive, Operational, Service
  <2>2. Spent(h)
    BY <2>1 DEF h
  <2>3. FlagsTrue' /\ AddressFollows'
    BY <1>2, <2>1 DEF FlagsTrue, AddressFollows
  <2>4. Tells => Tells'
    BY <1>2, <2>2 DEF Tells, Spent
  <2>5. sta = "RETRY_WAIT" /\ WillRetry => WillRetry'
    BY <1>2, <2>2 DEF WillRetry, Spent
  <2>6. WillTimeOut => WillTimeOut' \/ radio \in {"off", "online"}
    BY <1>2, <2>2 DEF WillTimeOut, Spent
  <2>7. /\ radio = "online" /\ In(s_event_queue, "IP_ACQUIRED", tag) =>
                 In(s_event_queue', "IP_ACQUIRED", tag) /\ Tells'
        /\ radio = "down" /\ In(s_event_queue, "DISCONNECTED", tag) =>
                 In(s_event_queue', "DISCONNECTED", tag)
    BY <1>2, <2>2 DEF Tells, Spent
  <2>8. Waits'
    BY <2>1, <2>4, <2>5, <2>6, <2>7 DEF Waits, Halted
  <2> QED
    BY <2>3, <2>8
<1> QED
  BY <1>4, <1>5, <1>6, <1>7 DEF StaInv

\* An event that is not processed was not waited for.
LEMMA IgnoredIsSpent ==
    ASSUME StaInv, Sound, NEW type \in {"ASSOCIATED", "IP_ACQUIRED", "DISCONNECTED", "IP_TIMEOUT"},
           Taken(type), Decide(type, Head(s_event_queue).gen) # "PROCESS"
    PROVE  Spent(Head(s_event_queue))
<1> DEFINE h == Head(s_event_queue)
<1>1. h.type = type /\ pc.net = "idle"
  BY TakenKeeps
<1>2. StaTypes /\ FlagsTrue /\ FlagsFollow /\ Waits /\ mode \in Operational
      /\ mode \notin {"SERVICE_AP_ONLY", "SECURITY_RECOVERY_AP_ONLY"}
  BY <1>1 DEF StaInv, Alive, Sound, Operational
<1> HIDE DEF h
<1>3. CASE type = "ASSOCIATED"
  BY <1>1, <1>2, <1>3 DEF Decide, Spent, FlagsTrue, h
<1>4. CASE type = "IP_ACQUIRED"
  BY <1>1, <1>2, <1>4 DEF Decide, Spent, FlagsTrue, h
<1>5. CASE type = "DISCONNECTED"
  BY <1>1, <1>2, <1>5 DEF Decide, Spent, FlagsTrue, FlagsFollow, h
<1>6. CASE type = "IP_TIMEOUT"
  BY <1>1, <1>2, <1>6 DEF Decide, Spent, FlagsTrue, FlagsFollow, h
<1> QED
  BY <1>3, <1>4, <1>5, <1>6

---------------------------------------------------------------------------
(* The station: transactions.                                              *)

\* Both timers, after xTimerStop was tried.
LEMMA StoppedTimers ==
    ASSUME StaTypes, retry' \in StopOutcomes(retry), iptimer' \in StopOutcomes(iptimer)
    PROVE  /\ retry' \in Timers /\ iptimer' \in Timers
           /\ retry'.gen = retry.gen /\ iptimer'.gen = iptimer.gen
           /\ (retry'.armed => retry.armed) /\ (iptimer'.armed => iptimer.armed)
           /\ \A n \in Nat : tgen <= n => retry'.gen <= n /\ iptimer'.gen <= n
           /\ retry'.gen < tgen + 1 /\ iptimer'.gen < tgen + 1
<1>1. /\ retry \in Timers /\ iptimer \in Timers /\ tgen \in Nat
      /\ retry.gen \in Nat /\ iptimer.gen \in Nat /\ retry.gen <= tgen /\ iptimer.gen <= tgen
  BY DEF StaTypes, Timers
<1>2. retry' \in Timers /\ retry'.gen = retry.gen /\ (retry'.armed => retry.armed)
  BY <1>1, StopKeeps
<1>3. iptimer' \in Timers /\ iptimer'.gen = iptimer.gen /\ (iptimer'.armed => iptimer.armed)
  BY <1>1, StopKeeps
<1> QED
  BY <1>1, <1>2, <1>3

\* wifi_transaction_begin: everything in the queue is of an earlier generation.
LEMMA TransactionBegins ==
    ASSUME StaInv, NEW type, Taken(type), NEW kind \in {"RECONNECT", "APPLY"},
           mode \in Operational, Begin(kind)
    PROVE  StaInv'
<1>1. /\ StaTypes /\ Transactions /\ FlagsFollow /\ Stilled /\ TagOrder /\ Quiet /\ Alive
  BY DEF StaInv
<1>2. /\ UNCHANGED <<mode, sta, radio, flags, authFailures, lost>> /\ tgen' = tgen + 1
      /\ tgen \in Nat
  BY <1>1 DEF Begin, driver, StaTypes
<1>3. /\ retry' \in Timers /\ iptimer' \in Timers
      /\ retry'.gen <= tgen + 1 /\ iptimer'.gen <= tgen + 1
  BY <1>1, <1>2, StoppedTimers DEF Begin
<1>4. s_event_queue' \in Seq(Events) /\ GensIn(s_event_queue', tgen) /\ pc.net = "idle"
  BY TakenKeeps
<1>5. /\ GensIn(s_event_queue', tgen + 1) /\ StaleIn(s_event_queue', tgen + 1)
      /\ \A t : ~In(s_event_queue', t, tgen + 1)
      /\ TagsLast(s_event_queue', tgen + 1) /\ AddressAfter(s_event_queue', tgen + 1)
  BY <1>2, <1>4, NewGeneration
<1> DEFINE begun == [active |-> TRUE, kind |-> kind, gen |-> tgen + 1, state |-> "PREPARING",
                     staged |-> FALSE, wasUp |-> flags.connected]
<1>6. CASE TimersStopped
  <2>1. /\ txn' = begun /\ tag' = tgen + 1 /\ pc' = [pc EXCEPT !.net = "prepare"]
        /\ abandoned' = abandoned /\ ~retry'.armed /\ ~iptimer'.armed
    BY <1>6 DEF Begin, TimersStopped
  <2>2. /\ txn' \in TransactionRecords /\ txn'.active /\ txn'.gen = tgen + 1
        /\ txn'.state = "PREPARING" /\ (txn'.wasUp => flags.connected)
        /\ pc'.net = "prepare"
        /\ pc' \in Places
    BY <1>1, <1>2, <2>1 DEF StaTypes, Places, TransactionRecords, ApplyStates, StationFlags
  <2>3. StaTypes'
    BY <1>1, <1>2, <1>3, <1>4, <1>5, <2>1, <2>2 DEF StaTypes
  <2>4. Transactions'
    BY <1>1, <1>2, <2>1, <2>2 DEF Transactions
  <2>5. FlagsFollow'
    BY <1>1, <1>2 DEF FlagsFollow
  <2>6. Stilled' /\ TagOrder' /\ Quiet'
    BY <1>1, <1>2, <1>5, <2>1, <2>2 DEF Stilled, FlagsFollow, TagOrder, Quiet, Operational,
       Service
  <2>7. Alive'
    BY <1>1, <1>2, <1>4, <1>5, <2>1, <2>2 DEF Alive, Sound, FlagsTrue, AddressFollows, Resuming,
       FlagsFollow
  <2> QED
    BY <2>3, <2>4, <2>5, <2>6, <2>7 DEF StaInv
<1>7. CASE ~TimersStopped
  <2>1. /\ txn' = [begun EXCEPT !.active = FALSE, !.state = "FAILED"] /\ tag' = 0 /\ pc' = pc
        /\ abandoned' = TRUE
    BY <1>7 DEF Begin
  <2>2. txn' \in TransactionRecords /\ ~txn'.active
    <3>1. begun \in TransactionRecords
      BY <1>1, <1>2 DEF StaTypes, TransactionRecords, ApplyStates, StationFlags
    <3> HIDE DEF begun
    <3> QED
      BY <2>1, <3>1 DEF TransactionRecords, ApplyStates
  <2>3. StaTypes'
    BY <1>1, <1>2, <1>3, <1>4, <1>5, <2>1, <2>2 DEF StaTypes
  <2>4. Transactions' /\ FlagsFollow' /\ Stilled' /\ TagOrder' /\ Quiet' /\ Alive'
    BY <1>1, <1>2, <1>4, <2>1, <2>2 DEF Transactions, FlagsFollow, Stilled, Halted, TagOrder,
       Quiet, Alive, Sound, Operational, Service
  <2> QED
    BY <2>3, <2>4 DEF StaInv
<1> QED
  BY <1>6, <1>7

\* A request that is refused.
LEMMA SkipSpent ==
    ASSUME StaInv, NEW type \in {"RECONNECT", "APPLY", "RECOVERY"}, Taken(type), Skip
    PROVE  StaInv'
<1>1. UNCHANGED <<mode, sta, radio, flags, txn, tag, tgen, retry, iptimer, authFailures, pc, lost, abandoned>>
  BY DEF Skip, driver, timers, history
<1>2. Head(s_event_queue).type = type
  BY TakenKeeps
<1>3. Spent(Head(s_event_queue))
  BY <1>2 DEF Spent
<1> QED
  BY <1>1, <1>3, EventDropped

\* A reconnection is begun or refused.
LEMMA ReconnectHandled == StaInv /\ HandleReconnect => StaInv'
<1> SUFFICES ASSUME StaInv, HandleReconnect PROVE StaInv'
  OBVIOUS
<1>1. Taken("RECONNECT")
  BY DEF HandleReconnect
<1>2. CASE CanReconnect /\ ~txn.active
  <2>1. mode \in Operational /\ Begin("RECONNECT")
    BY <1>2 DEF HandleReconnect, CanReconnect, Operational
  <2> QED
    BY <1>1, <2>1, TransactionBegins
<1>3. CASE ~(CanReconnect /\ ~txn.active)
  BY <1>1, <1>3, SkipSpent DEF HandleReconnect
<1> QED
  BY <1>2, <1>3

\* A new configuration is begun, refused, or in service left for later.
LEMMA ApplyHandled == StaInv /\ HandleApply => StaInv'
<1> SUFFICES ASSUME StaInv, HandleApply PROVE StaInv'
  OBVIOUS
<1>1. Taken("APPLY")
  BY DEF HandleApply
<1>2. CASE txn.active
  BY <1>1, <1>2, SkipSpent DEF HandleApply
<1>3. CASE ~txn.active /\ mode \in Operational
  BY <1>1, <1>3, TransactionBegins DEF HandleApply
<1>4. CASE ~txn.active /\ mode \notin Operational
  <2>1. /\ StaTypes /\ Transactions /\ FlagsFollow /\ Stilled /\ TagOrder /\ Quiet /\ Alive
    BY DEF StaInv
  <2>2. /\ UNCHANGED <<mode, sta, radio, flags, txn, retry, iptimer, authFailures, pc, lost, abandoned>>
        /\ tgen' = tgen + 1 /\ tag' = 0 /\ tgen \in Nat
    BY <1>4, <2>1 DEF HandleApply, driver, history, StaTypes
  <2>3. s_event_queue' \in Seq(Events) /\ GensIn(s_event_queue', tgen) /\ pc.net = "idle"
    BY <1>1, TakenKeeps
  <2>4. GensIn(s_event_queue', tgen + 1) /\ \A t : ~In(s_event_queue', t, tgen + 1)
    BY <2>2, <2>3, NewGeneration
  <2>5. retry.gen < tgen + 1 /\ retry.gen <= tgen + 1 /\ iptimer.gen <= tgen + 1
    BY <2>1, <2>2 DEF StaTypes, Timers
  <2>6. StaTypes'
    BY <2>1, <2>2, <2>3, <2>4, <2>5 DEF StaTypes
  <2>7. Transactions' /\ FlagsFollow' /\ Stilled' /\ TagOrder' /\ Quiet' /\ Alive'
    BY <1>4, <2>1, <2>2, <2>3, <2>4, <2>5 DEF Transactions, FlagsFollow, Stilled, Halted,
       TagOrder, Quiet, Alive, Sound
  <2> QED
    BY <2>6, <2>7 DEF StaInv
<1> QED
  BY <1>2, <1>3, <1>4

\* However it ends, a transaction is no longer active.
LEMMA TransactionEnds ==
    ASSUME txn \in TransactionRecords
    PROVE  /\ FinishError \in TransactionRecords /\ ~FinishError.active
           /\ Cancelled \in TransactionRecords /\ ~Cancelled.active
           /\ Complete \in TransactionRecords /\ ~Complete.active
BY DEF FinishError, Cancelled, Complete, TransactionRecords, ApplyStates

\* A transaction or a service entry given up: there is nothing to keep but the types.
LEMMA GivenUp ==
    ASSUME StaTypes', FlagsFollow', tag' = 0, ~txn'.active, pc'.net # "prepare", mode' \in Operational,
           abandoned'
    PROVE  StaInv'
BY DEF StaInv, Transactions, Stilled, Halted, TagOrder, Quiet, Alive, Sound, Operational, Service

\* wifi_transaction_begin gives up while preparing.
LEMMA PreparationFails == StaInv /\ PrepareFails => StaInv'
<1> SUFFICES ASSUME StaInv, PrepareFails PROVE StaInv'
  OBVIOUS
<1>1. StaTypes /\ Transactions /\ FlagsFollow
  BY DEF StaInv
<1>2. /\ UNCHANGED <<mode, sta, radio, flags, tgen, retry, iptimer, authFailures, s_event_queue, lost>>
      /\ txn' = FinishError /\ tag' = 0 /\ pc' = [pc EXCEPT !.net = "idle"] /\ abandoned' = TRUE
      /\ mode \in Operational
  BY <1>1 DEF PrepareFails, driver, timers, Transactions
<1>3. pc'.net = "idle" /\ pc' \in Places
  BY <1>1, <1>2 DEF StaTypes, Places
<1>4. txn' \in TransactionRecords /\ ~txn'.active
  BY <1>1, <1>2, TransactionEnds DEF StaTypes
<1>5. StaTypes' /\ FlagsFollow'
  BY <1>1, <1>2, <1>3, <1>4 DEF StaTypes, FlagsFollow
<1> QED
  BY <1>2, <1>3, <1>4, <1>5, GivenUp

\* wifi_transaction_connect, at the end of the preparation or when the
\* disconnection is handled.
LEMMA Connects ==
    ASSUME StaInv, ConnectStation, txn.active, Halted, mode \in Operational,
           UNCHANGED <<mode, tgen, retry, authFailures, lost>>,
           iptimer' \in Timers, ~iptimer'.armed, iptimer'.gen <= tgen,
           pc' \in Places,
           pc'.net = "idle",
           s_event_queue' \in Seq(Events), GensIn(s_event_queue', tgen),
           TagsLast(s_event_queue, tag) => TagsLast(s_event_queue', tag),
           StaleIn(s_event_queue, tgen) => StaleIn(s_event_queue', tgen)
    PROVE  StaInv'
<1>1. /\ StaTypes /\ Transactions /\ FlagsFollow /\ Stilled /\ TagOrder /\ Quiet /\ Alive
  BY DEF StaInv
<1>2. /\ FinishError \in TransactionRecords /\ ~FinishError.active
      /\ [txn EXCEPT !.state = "CONNECTING", !.staged = FALSE] \in TransactionRecords
      /\ [txn EXCEPT !.state = "CONNECTING", !.staged = FALSE].active
      /\ [txn EXCEPT !.state = "CONNECTING", !.staged = FALSE].gen = txn.gen
      /\ [txn EXCEPT !.state = "CONNECTING", !.staged = FALSE].state = "CONNECTING"
  BY <1>1, TransactionEnds DEF StaTypes, TransactionRecords, ApplyStates
<1> DEFINE on == [radio |-> IF radio = "off" THEN "down" ELSE radio,
                  flags |-> [flags EXCEPT !.started = TRUE]]
<1>3. on.radio = (IF radio = "off" THEN "down" ELSE radio) /\ on.flags = [flags EXCEPT !.started = TRUE]
  OBVIOUS
<1>4. /\ [flags EXCEPT !.started = TRUE] \in StationFlags
      /\ [flags EXCEPT !.started = TRUE].started
      /\ [flags EXCEPT !.started = TRUE].connected = flags.connected
      /\ [flags EXCEPT !.started = TRUE].ip = flags.ip
  BY <1>1 DEF StaTypes, StationFlags
<1>5. CASE txn.kind = "APPLY" /\ txn' = FinishError /\ tag' = 0 /\ abandoned' = TRUE /\ UNCHANGED <<sta, driver>>
  <2>1. StaTypes' /\ FlagsFollow'
    BY <1>1, <1>2, <1>5 DEF StaTypes, driver, FlagsFollow
  <2> QED
    BY <1>2, <1>5, <2>1, GivenUp
<1>6. CASE /\ IF txn.kind = "APPLY" THEN flags' = on.flags ELSE UNCHANGED flags
           /\ radio' = "trying"
           /\ IF txn.kind = "APPLY" THEN on.radio \in {"down", "trying"} ELSE radio \in {"down", "trying"}
           /\ sta' = "CONNECTING"
           /\ txn' = [txn EXCEPT !.state = "CONNECTING", !.staged = FALSE]
           /\ abandoned' = ~flags'.started
           /\ UNCHANGED tag
  <2>1. flags' \in StationFlags /\ flags'.connected = flags.connected /\ flags'.ip = flags.ip
    BY <1>1, <1>3, <1>4, <1>6 DEF StaTypes
  <2>2. ~flags.connected /\ ~flags.ip
    BY <1>1, <1>3, <1>6 DEF FlagsFollow
  <2>3. abandoned' \in BOOLEAN
    BY <1>6
  <2>4. StaTypes'
    BY <1>1, <1>2, <1>6, <2>1, <2>3 DEF StaTypes, StaStates
  <2>5. Transactions'
    BY <1>1, <1>2, <1>6 DEF Transactions
  <2>6. FlagsFollow'
    BY <2>1, <2>2 DEF FlagsFollow
  <2>7. Stilled' /\ ~Halted'
    BY <1>2, <1>6 DEF Stilled, Halted
  <2>8. TagOrder'
    <3>1. ~retry'.armed /\ StaleIn(s_event_queue', tgen)
      BY <1>1 DEF Stilled
    <3>2. ~In(s_event_queue', "IP_TIMEOUT", tgen)
      <4>1. tgen \in Nat
        BY <1>1 DEF StaTypes
      <4> QED
        BY <3>1, <4>1 DEF StaleIn, In, TimerTypes
    <3> QED
      BY <1>1, <1>6, <3>1, <3>2 DEF TagOrder
  <2>9. Quiet'
    BY DEF Quiet, Operational, Service
  <2>10. Alive'
    BY <1>6, <2>2, <2>7 DEF Alive, Sound, FlagsTrue, AddressFollows, Waits
  <2> QED
    BY <2>4, <2>5, <2>6, <2>7, <2>8, <2>9, <2>10 DEF StaInv
<1>7. CASE /\ IF txn.kind = "APPLY" THEN flags' = on.flags ELSE UNCHANGED flags
           /\ IF txn.kind = "APPLY" THEN radio' = on.radio ELSE UNCHANGED radio
           /\ sta' = "IDLE"
           /\ txn' = FinishError /\ tag' = 0
           /\ abandoned' = (abandoned \/ radio' = "online")
  <2>1. /\ flags' \in StationFlags /\ flags'.connected = flags.connected /\ flags'.ip = flags.ip
        /\ (flags.started => flags'.started)
        /\ radio' = radio \/ (radio = "off" /\ radio' = "down" /\ flags'.started)
    BY <1>1, <1>3, <1>4, <1>7 DEF StaTypes
  <2>2. abandoned' \in BOOLEAN
    BY <1>7
  <2>3. StaTypes'
    BY <1>1, <1>2, <1>7, <2>1, <2>2 DEF StaTypes, StaStates
  <2>4. Transactions' /\ FlagsFollow' /\ Stilled' /\ TagOrder' /\ Quiet' /\ ~Halted'
    BY <1>1, <1>2, <1>7, <2>1 DEF Transactions, FlagsFollow, Stilled, Halted, TagOrder, Quiet,
       Operational, Service
  <2>5. Alive'
    <3> SUFFICES ASSUME Sound' PROVE FlagsTrue' /\ AddressFollows' /\ Waits'
      BY DEF Alive
    <3>1. Sound /\ FlagsTrue /\ radio' # "online"
      BY <1>1, <1>7 DEF Sound, Alive
    <3> QED
      BY <1>7, <2>1, <2>4, <3>1 DEF FlagsTrue, AddressFollows, Waits
  <2> QED
    BY <2>3, <2>4, <2>5 DEF StaInv
<1> QED
  BY <1>5, <1>6, <1>7 DEF ConnectStation

\* The rest of wifi_transaction_begin.
LEMMA PreparationEnds == StaInv /\ PrepareEnds => StaInv'
<1> SUFFICES ASSUME StaInv, PrepareEnds PROVE StaInv'
  OBVIOUS
<1>1. /\ StaTypes /\ Transactions /\ FlagsFollow /\ Stilled /\ TagOrder /\ Quiet /\ Alive
  BY DEF StaInv
<1>2. /\ UNCHANGED <<mode, tgen, retry, iptimer, authFailures>> /\ pc.net = "prepare"
      /\ pc' = [pc EXCEPT !.net = "idle"]
  BY DEF PrepareEnds, timers
<1>3. pc' \in Places /\ pc'.net = "idle"
  BY <1>1, <1>2 DEF StaTypes, Places
<1>4. /\ txn.active /\ txn.state = "PREPARING" /\ Halted /\ mode \in Operational /\ tag = txn.gen
      /\ txn.gen = tgen
      /\ ~retry.armed /\ ~iptimer.armed /\ StaleIn(s_event_queue, tgen) /\ txn.gen # 0
  BY <1>1, <1>2 DEF Transactions, Halted, Stilled
<1>5. CASE ~txn.wasUp
  <2>1. ConnectStation /\ UNCHANGED <<s_event_queue, lost>>
    BY <1>5 DEF PrepareEnds
  <2> QED
    BY <1>1, <1>2, <1>3, <1>4, <2>1, Connects DEF StaTypes
<1>6. CASE txn.wasUp /\ txn' = FinishError /\ tag' = 0 /\ abandoned' = TRUE
           /\ UNCHANGED <<sta, driver, s_event_queue, lost>>
  <2>1. txn' \in TransactionRecords /\ ~txn'.active
    BY <1>1, <1>6, TransactionEnds DEF StaTypes
  <2>2. StaTypes' /\ FlagsFollow'
    BY <1>1, <1>2, <1>3, <1>6, <2>1 DEF StaTypes, driver, FlagsFollow
  <2> QED
    BY <1>2, <1>3, <1>4, <1>6, <2>1, <2>2, GivenUp
<1>7. CASE /\ txn.wasUp /\ txn' = [txn EXCEPT !.state = "WAITING_DISCONNECT", !.staged = TRUE]
           /\ IF radio \in {"linked", "online"}
              THEN /\ radio' = "down"
                   /\ flags' = [flags EXCEPT !.connected = FALSE, !.ip = FALSE]
                   /\ Post(<<Disconnected(tag, "NO_AP_FOUND")>>)
              ELSE UNCHANGED <<driver, s_event_queue, lost>>
           /\ UNCHANGED <<sta, tag, abandoned>>
  <2>1. /\ txn' \in TransactionRecords /\ txn'.active /\ txn'.gen = txn.gen
        /\ txn'.state = "WAITING_DISCONNECT"
    BY <1>1, <1>4, <1>7 DEF StaTypes, TransactionRecords, ApplyStates
  <2>2. /\ radio' = "down" /\ flags' \in StationFlags /\ ~flags'.connected /\ ~flags'.ip
        /\ flags'.started = flags.started
    BY <1>1, <1>4, <1>7 DEF StaTypes, StationFlags, Stilled, FlagsFollow, driver
  <2>3. /\ s_event_queue' \in Seq(Events) /\ GensIn(s_event_queue', tgen) /\ (lost => lost')
        /\ StaleIn(s_event_queue', tgen) /\ lost' \in BOOLEAN
        /\ (TagsLast(s_event_queue, tag) => TagsLast(s_event_queue', tag))
        /\ \A t, g : In(s_event_queue, t, g) => In(s_event_queue', t, g)
        /\ (radio \in {"linked", "online"} /\ ~lost' => In(s_event_queue', "DISCONNECTED", tag))
    <3>1. CASE radio \in {"linked", "online"}
      <4> DEFINE e == Disconnected(tag, "NO_AP_FOUND")
      <4>1. e \in Events /\ e.type = "DISCONNECTED" /\ e.gen = tag /\ e.type \notin TimerTypes
        BY <1>1 DEF Disconnected, Events, EventTypes, DriverTypes, TimerTypes, Reasons, StaTypes
      <4>2. /\ Post(<<e>>) /\ s_event_queue \in Seq(Events) /\ GensIn(s_event_queue, tgen)
            /\ tag \in 0 .. tgen
        BY <1>1, <1>7, <3>1 DEF StaTypes
      <4> HIDE DEF e
      <4>3. lost' \in BOOLEAN
        BY <4>2 DEF Post
      <4> QED
        BY <1>4, <4>1, <4>2, <4>3, PostOne
    <3>2. CASE radio \notin {"linked", "online"}
      BY <1>1, <1>4, <1>7, <3>2 DEF StaTypes
    <3> QED
      BY <3>1, <3>2
  <2>4. StaTypes'
    BY <1>1, <1>2, <1>3, <1>7, <2>1, <2>2, <2>3 DEF StaTypes
  <2>5. Transactions' /\ FlagsFollow' /\ Stilled' /\ Quiet' /\ Halted'
    BY <1>1, <1>2, <1>3, <1>4, <1>7, <2>1, <2>2, <2>3 DEF Transactions, FlagsFollow, Stilled,
       Halted, Quiet, Operational, Service
  <2>6. TagOrder'
    <3>1. ~In(s_event_queue', "IP_TIMEOUT", tgen)
      <4>1. tgen \in Nat
        BY <1>1 DEF StaTypes
      <4> QED
        BY <2>3, <4>1 DEF StaleIn, In, TimerTypes
    <3> QED
      BY <1>1, <1>2, <1>4, <1>7, <2>3, <3>1 DEF TagOrder
  <2>7. Alive'
    <3> SUFFICES ASSUME Sound' PROVE FlagsTrue' /\ AddressFollows' /\ Waits'
      BY <1>3 DEF Alive
    <3>1. Sound /\ FlagsTrue /\ Resuming /\ ~lost'
      BY <1>1, <1>2, <1>7, <2>3 DEF Sound, Alive
    <3>2. In(s_event_queue', "DISCONNECTED", tag)
      BY <1>1, <1>4, <1>7, <2>3, <3>1 DEF Resuming, Stilled
    <3>3. Tells'
      BY <1>7, <2>2, <3>2 DEF Tells
    <3>4. radio # "off"
      BY <1>1, <1>4, <1>7 DEF Stilled
    <3> QED
      BY <1>7, <2>2, <2>5, <3>1, <3>2, <3>3, <3>4 DEF FlagsTrue, AddressFollows, Waits
  <2> QED
    BY <2>4, <2>5, <2>6, <2>7 DEF StaInv
<1> QED
  BY <1>5, <1>6, <1>7 DEF PrepareEnds

---------------------------------------------------------------------------
(* The station: events that are processed.                                 *)

\* A processed event is of the current generation, in operation, and plausible.
LEMMA ProcessedFacts ==
    ASSUME NEW type \in {"ASSOCIATED", "IP_ACQUIRED", "DISCONNECTED", "IP_TIMEOUT", "STOPPED"}, NEW gen,
           Decide(type, gen) = "PROCESS"
    PROVE  /\ mode \in Operational /\ gen = (IF type = "IP_TIMEOUT" THEN tgen ELSE tag)
           /\ type = "ASSOCIATED" => flags.started /\ flags.connected
           /\ type = "IP_ACQUIRED" => flags.started /\ flags.connected /\ flags.ip
           /\ type = "DISCONNECTED" => flags.started /\ ~flags.connected /\ ~flags.ip
           /\ type = "IP_TIMEOUT" => flags.started /\ ~flags.ip
           /\ type = "STOPPED" => flags = Absent
<1>1. /\ mode \in Operational /\ gen = (IF type = "IP_TIMEOUT" THEN tgen ELSE tag)
      /\ CASE type = "ASSOCIATED"   -> flags.started /\ flags.connected
           [] type = "IP_ACQUIRED"  -> flags.started /\ flags.connected /\ flags.ip
           [] type = "DISCONNECTED" -> flags.started /\ ~flags.connected /\ ~flags.ip
           [] type = "IP_TIMEOUT"   -> flags.started /\ ~flags.ip
           [] type = "STOPPED"      -> flags = Absent
  BY DEF Decide
<1> QED
  BY <1>1

\* The retry, or a wake-up that is out of date.
LEMMA WakeupHandled == StaInv /\ HandleWakeup => StaInv'
<1> SUFFICES ASSUME StaInv, HandleWakeup PROVE StaInv'
  OBVIOUS
<1> DEFINE h == Head(s_event_queue)
<1>1. /\ StaTypes /\ Transactions /\ FlagsFollow /\ Stilled /\ TagOrder /\ Quiet /\ Alive
  BY DEF StaInv
<1>2. UNCHANGED <<mode, flags, txn, tag, tgen, retry, iptimer, authFailures, pc, lost, abandoned>>
      /\ Taken("WAKEUP")
  BY DEF HandleWakeup, timers, history
<1>3. /\ s_event_queue' \in Seq(Events) /\ pc.net = "idle" /\ h.type = "WAKEUP"
      /\ In(s_event_queue, "WAKEUP", h.gen) /\ GensIn(s_event_queue', tgen)
      /\ \A n : StaleIn(s_event_queue, n) =>
            StaleIn(s_event_queue', n) /\ ("WAKEUP" \in TimerTypes => h.gen < n)
      /\ \A g : Tagged(s_event_queue, g) => Tagged(s_event_queue', g)
      /\ \A g : TagsLast(s_event_queue, g) => TagsLast(s_event_queue', g)
      /\ \A g : AddressAfter(s_event_queue, g) => AddressAfter(s_event_queue', g)
      /\ \A t, g : In(s_event_queue', t, g) => In(s_event_queue, t, g)
  BY <1>2, TakenKeeps
<1>4. CASE ~(h.gen = tgen /\ sta = "RETRY_WAIT")
  <2>1. UNCHANGED <<radio, sta>>
    BY <1>4 DEF HandleWakeup
  <2>2. Spent(h)
    BY <1>3, <1>4 DEF Spent
  <2> QED
    BY <1>2, <2>1, <2>2, EventDropped
<1>5. CASE h.gen = tgen /\ sta = "RETRY_WAIT"
  <2>1. PICK c \in ConnectOutcomes : radio' = c.radio /\ sta' = IF c.ok THEN "CONNECTING" ELSE "IDLE"
    BY <1>5 DEF HandleWakeup
  <2>2. \/ sta' = "IDLE" /\ radio' = radio
        \/ sta' = "CONNECTING" /\ radio' = "trying" /\ radio \in {"down", "trying"}
    BY <2>1 DEF ConnectOutcomes
  <2> HIDE DEF h
  <2>3. mode \in Operational
    BY <1>1, <1>3, <1>5 DEF Quiet, StaTypes
  <2>4. ~Halted
    <3>1. tgen \in Nat /\ "WAKEUP" \in TimerTypes
      BY <1>1 DEF StaTypes, TimerTypes
    <3> QED
      BY <1>1, <1>3, <1>5, <3>1 DEF Stilled
  <2>5. StaTypes'
    BY <1>1, <1>2, <1>3, <2>2 DEF StaTypes, StaStates
  <2>6. Transactions' /\ FlagsFollow' /\ Stilled' /\ TagOrder' /\ Quiet' /\ ~Halted'
    BY <1>1, <1>2, <1>3, <2>2, <2>3, <2>4 DEF Transactions, FlagsFollow, Stilled, Halted,
       TagOrder, Quiet, Operational, Service
  <2>7. Alive'
    <3> SUFFICES ASSUME Sound' PROVE FlagsTrue' /\ AddressFollows' /\ Waits'
      BY <1>2, <1>3 DEF Alive
    <3>1. Sound /\ FlagsTrue /\ AddressFollows
      BY <1>1, <1>2 DEF Sound, Alive
    <3> QED
      BY <1>2, <1>3, <2>2, <2>6, <3>1 DEF FlagsTrue, AddressFollows, Waits
  <2> QED
    BY <2>5, <2>6, <2>7 DEF StaInv
<1> QED
  BY <1>4, <1>5

\* An event that is not processed.
LEMMA IgnoredHandled ==
    ASSUME StaInv, NEW type \in {"ASSOCIATED", "IP_ACQUIRED", "DISCONNECTED", "IP_TIMEOUT"}, Taken(type),
           Decide(type, Head(s_event_queue).gen) # "PROCESS",
           NotProcessed(Decide(type, Head(s_event_queue).gen)),
           UNCHANGED <<mode, radio, txn, tag, tgen, retry, iptimer, authFailures, pc, lost, abandoned>>
    PROVE  StaInv'
<1>1. Sound => Spent(Head(s_event_queue))
  BY IgnoredIsSpent
<1>2. Decide(type, Head(s_event_queue).gen) = "CONFIRM_DISABLED" => mode \in Service
  BY DEF Decide, Service
<1>3. \/ UNCHANGED <<sta, flags>>
      \/ mode \in Service /\ sta' \in {sta, "DISABLED"} /\ flags' \in {flags, Absent}
  BY <1>2 DEF NotProcessed
<1> QED
  BY <1>1, <1>3, EventDropped

\* With the link up and the task free, no transaction waits for it to go down.
LEMMA LinkedIsFree ==
    ASSUME Transactions, Stilled, pc.net = "idle", radio \in {"linked", "online"}
    PROVE  ~Halted
BY DEF Transactions, Stilled, Halted

\* After an association the address, or its timeout, is waited for.
LEMMA AssociatedHandled == StaInv /\ HandleAssociated => StaInv'
<1> SUFFICES ASSUME StaInv, HandleAssociated PROVE StaInv'
  OBVIOUS
<1> DEFINE h == Head(s_event_queue)
<1>1. /\ StaTypes /\ Transactions /\ FlagsFollow /\ Stilled /\ TagOrder /\ Quiet /\ Alive
  BY DEF StaInv
<1>2. UNCHANGED <<mode, radio, txn, tag, tgen, retry, authFailures, pc, lost, abandoned>>
      /\ Taken("ASSOCIATED")
  BY DEF HandleAssociated, history
<1>3. CASE Decide("ASSOCIATED", h.gen) # "PROCESS"
  BY <1>2, <1>3, IgnoredHandled DEF HandleAssociated
<1>4. CASE Decide("ASSOCIATED", h.gen) = "PROCESS"
  <2>1. /\ \/ sta' = "ASSOCIATED_WAITING_IP" /\ iptimer' = [armed |-> TRUE, gen |-> tgen]
           \/ sta' = "IDLE" /\ iptimer' = [iptimer EXCEPT !.gen = tgen]
        /\ UNCHANGED flags
    BY <1>4 DEF HandleAssociated
  <2>2. mode \in Operational /\ h.gen = tag /\ flags.connected
    BY <1>4, ProcessedFacts
  <2>3. /\ s_event_queue' \in Seq(Events) /\ pc.net = "idle" /\ GensIn(s_event_queue', tgen)
        /\ (TagsLast(s_event_queue, tag) => TagsLast(s_event_queue', tag) /\ Tagged(s_event_queue', tag))
        /\ (AddressAfter(s_event_queue, tag) => AddressAfter(s_event_queue', tag) /\ In(s_event_queue', "IP_ACQUIRED", tag))
    <3>1. "ASSOCIATED" \in DriverTypes
      BY DEF DriverTypes
    <3> QED
      BY <1>2, <2>2, <3>1, TakenKeeps
  <2> HIDE DEF h
  <2>4. radio \in {"linked", "online"} /\ ~Halted
    BY <1>1, <2>2, <2>3, LinkedIsFree DEF FlagsFollow
  <2>5. iptimer' \in Timers /\ iptimer'.gen = tgen
    <3>1. iptimer \in Timers /\ tgen \in Nat
      BY <1>1 DEF StaTypes
    <3>2. CASE iptimer' = [armed |-> TRUE, gen |-> tgen]
      BY <3>1, <3>2 DEF Timers
    <3>3. CASE iptimer' = [iptimer EXCEPT !.gen = tgen]
      BY <3>1, <3>3 DEF Timers
    <3> QED
      BY <2>1, <3>2, <3>3
  <2>6. StaTypes'
    <3>1. tgen <= tgen
      BY <1>1 DEF StaTypes
    <3> QED
      BY <1>1, <1>2, <2>1, <2>3, <2>5, <3>1 DEF StaTypes, StaStates
  <2>7. Transactions' /\ FlagsFollow' /\ Stilled' /\ TagOrder' /\ Quiet' /\ ~Halted'
    BY <1>1, <1>2, <2>1, <2>2, <2>3, <2>4 DEF Transactions, FlagsFollow, Stilled, Halted,
       TagOrder, Quiet, Operational, Service
  <2>8. Alive'
    <3> SUFFICES ASSUME Sound' PROVE FlagsTrue' /\ AddressFollows' /\ Waits'
      BY <1>2, <2>3 DEF Alive
    <3>1. Sound /\ FlagsTrue /\ AddressFollows
      BY <1>1, <1>2 DEF Sound, Alive
    <3>2. FlagsTrue' /\ AddressFollows'
      BY <1>2, <2>1, <2>3, <3>1 DEF FlagsTrue, AddressFollows
    <3>3. sta' = "ASSOCIATED_WAITING_IP" => WillTimeOut'
      BY <1>2, <2>1 DEF WillTimeOut
    <3> QED
      BY <1>2, <2>1, <2>3, <2>4, <2>7, <3>1, <3>2, <3>3 DEF AddressFollows, Waits
  <2> QED
    BY <2>6, <2>7, <2>8 DEF StaInv
<1> QED
  BY <1>3, <1>4

\* With an address the transaction is complete: no association is left that
\* could take the station back (those of the transaction's tag are ahead of it,
\* and after it there are no others).
LEMMA AddressHandled == StaInv /\ HandleAddress => StaInv'
<1> SUFFICES ASSUME StaInv, HandleAddress PROVE StaInv'
  OBVIOUS
<1> DEFINE h == Head(s_event_queue)
<1>1. /\ StaTypes /\ Transactions /\ FlagsFollow /\ Stilled /\ TagOrder /\ Quiet /\ Alive
  BY DEF StaInv
<1>2. UNCHANGED <<radio, pc, lost, abandoned>> /\ Taken("IP_ACQUIRED")
  BY DEF HandleAddress, history
<1>3. CASE Decide("IP_ACQUIRED", h.gen) # "PROCESS"
  BY <1>2, <1>3, IgnoredHandled DEF HandleAddress, timers
<1>4. CASE Decide("IP_ACQUIRED", h.gen) = "PROCESS"
  <2>1. /\ tgen' = tgen + 1
        /\ iptimer' \in StopOutcomes(iptimer) /\ retry' \in StopOutcomes(retry)
        /\ txn' = IF Completes(h) THEN Complete
                  ELSE IF ~txn.active /\ txn.state = "FAILED" THEN NoTransaction ELSE txn
        /\ tag' = IF Completes(h) THEN 0 ELSE tag
        /\ sta' = "CONNECTED" /\ authFailures' = 0
        /\ mode' = "AP_DISCOVERABLE"
        /\ UNCHANGED flags
    BY <1>4 DEF HandleAddress
  <2>2. mode \in Operational /\ h.gen = tag /\ flags.ip
    BY <1>4, ProcessedFacts
  <2>3. /\ s_event_queue' \in Seq(Events) /\ pc.net = "idle" /\ GensIn(s_event_queue', tgen)
        /\ (TagsLast(s_event_queue, tag) => Tagged(s_event_queue', tag))
        /\ \A g : AddressAfter(s_event_queue, g) => AddressAfter(s_event_queue', g)
    <3>1. "IP_ACQUIRED" \in DriverTypes
      BY DEF DriverTypes
    <3> QED
      BY <1>2, <2>2, <3>1, TakenKeeps
  <2> HIDE DEF h
  <2>4. radio = "online" /\ ~Halted
    BY <1>1, <2>2, <2>3, LinkedIsFree DEF FlagsFollow
  <2>5. txn.active => Completes(h)
    BY <1>1, <2>2, <2>4 DEF Completes, EventMatches, Transactions, Halted
  <2>6. txn' \in TransactionRecords /\ ~txn'.active /\ tag' = 0
    <3>1. NoTransaction \in TransactionRecords /\ ~NoTransaction.active
      BY DEF NoTransaction, TransactionRecords, ApplyStates
    <3>2. Complete \in TransactionRecords /\ ~Complete.active /\ txn \in TransactionRecords
      BY <1>1, TransactionEnds DEF StaTypes
    <3>3. ~txn.active => tag = 0
      BY <1>1 DEF Transactions
    <3>4. tag' = 0
      BY <2>1, <2>5, <3>3
    <3> QED
      BY <2>1, <2>5, <3>1, <3>2, <3>4
  <2>7. StaTypes'
    <3>1. /\ tgen \in Nat /\ tgen + 1 \in Nat /\ tgen <= tgen + 1 /\ 0 \in 0 .. tgen + 1
          /\ 0 \in 0 .. AuthLimit
      BY <1>1, StaLinkAssumption DEF StaTypes
    <3>2. GensIn(s_event_queue', tgen + 1)
      BY <2>3, <3>1, NewGeneration
    <3>3. /\ retry' \in Timers /\ iptimer' \in Timers /\ retry'.gen <= tgen + 1
          /\ iptimer'.gen <= tgen + 1
      BY <1>1, <2>1, <3>1, StoppedTimers
    <3> QED
      BY <1>1, <1>2, <2>1, <2>3, <2>6, <3>1, <3>2, <3>3 DEF StaTypes, StaStates, Operational
  <2>8. Transactions' /\ FlagsFollow' /\ Stilled' /\ TagOrder' /\ Quiet' /\ ~Halted'
    BY <1>1, <1>2, <2>1, <2>3, <2>6 DEF Transactions, FlagsFollow, Stilled, Halted, TagOrder,
       Quiet, Service
  <2>9. Alive'
    <3> SUFFICES ASSUME Sound' PROVE FlagsTrue' /\ AddressFollows' /\ Waits'
      BY <1>2, <2>3 DEF Alive
    <3>1. Sound /\ FlagsTrue /\ AddressFollows
      BY <1>1, <1>2, <2>2 DEF Sound, Alive
    <3>2. AddressAfter(s_event_queue', 0)
      <4>1. CASE tag = 0
        BY <2>3, <2>4, <3>1, <4>1 DEF AddressFollows
      <4>2. CASE tag # 0
        <5>1. Tagged(s_event_queue', tag)
          BY <1>1, <2>3, <4>2 DEF TagOrder
        <5> QED
          BY <4>2, <5>1, OtherTag
      <4> QED
        BY <4>1, <4>2
    <3> QED
      BY <1>2, <2>1, <2>4, <2>6, <2>8, <3>1, <3>2 DEF FlagsTrue, AddressFollows, Waits
  <2> QED
    BY <2>7, <2>8, <2>9 DEF StaInv
<1> QED
  BY <1>3, <1>4

\* argus_net_failure_evidence_record and what follows: the retry that is announced is scheduled.
LEMMA FailureFacts ==
    ASSUME StaTypes, NEW category, FailureRecorded(category)
    PROVE  /\ tgen' \in {tgen, tgen + 1} /\ retry' \in Timers /\ retry'.gen <= tgen'
           /\ sta' \in {"ACTION_REQUIRED", "RETRY_WAIT", "IDLE"}
           /\ sta' = "RETRY_WAIT" => retry'.armed /\ retry'.gen = tgen'
           /\ authFailures' \in 0 .. AuthLimit
<1>1. retry \in Timers /\ tgen \in Nat /\ tgen + 1 \in Nat /\ tgen <= tgen /\ tgen + 1 <= tgen + 1
      /\ retry.gen <= tgen
  BY DEF StaTypes
<1>2. authFailures' \in 0 .. AuthLimit
  BY StaLinkAssumption DEF FailureRecorded, Evidence, StaTypes
<1>3. \/ sta' = "ACTION_REQUIRED" /\ tgen' = tgen /\ retry' = retry
      \/ sta' = "RETRY_WAIT" /\ tgen' = tgen + 1 /\ retry' = [armed |-> TRUE, gen |-> tgen + 1]
      \/ sta' = "IDLE" /\ tgen' = tgen + 1 /\ retry' = [retry EXCEPT !.gen = tgen + 1]
  BY DEF FailureRecorded
<1>4. CASE sta' = "ACTION_REQUIRED" /\ tgen' = tgen /\ retry' = retry
  BY <1>1, <1>2, <1>4
<1>5. CASE sta' = "RETRY_WAIT" /\ tgen' = tgen + 1 /\ retry' = [armed |-> TRUE, gen |-> tgen + 1]
  <2>1. retry' \in Timers /\ retry'.armed /\ retry'.gen = tgen + 1
    BY <1>1, <1>5 DEF Timers
  <2> QED
    BY <1>1, <1>2, <1>5, <2>1
<1>6. CASE sta' = "IDLE" /\ tgen' = tgen + 1 /\ retry' = [retry EXCEPT !.gen = tgen + 1]
  <2>1. retry' \in Timers /\ retry'.gen = tgen + 1
    BY <1>1, <1>6 DEF Timers
  <2> QED
    BY <1>1, <1>2, <1>6, <2>1
<1> QED
  BY <1>3, <1>4, <1>5, <1>6

\* A disconnection resumes the transaction that asked for it; any other is a
\* failure, after which the transaction is over.
LEMMA DisconnectedHandled == StaInv /\ HandleDisconnected => StaInv'
<1> SUFFICES ASSUME StaInv, HandleDisconnected PROVE StaInv'
  OBVIOUS
<1> DEFINE h == Head(s_event_queue)
<1>1. /\ StaTypes /\ Transactions /\ FlagsFollow /\ Stilled /\ TagOrder /\ Quiet /\ Alive
  BY DEF StaInv
<1>2. UNCHANGED <<mode, pc, lost>> /\ Taken("DISCONNECTED")
  BY DEF HandleDisconnected
<1>3. CASE Decide("DISCONNECTED", h.gen) # "PROCESS"
  BY <1>2, <1>3, IgnoredHandled DEF HandleDisconnected, timers
<1>4. CASE Decide("DISCONNECTED", h.gen) = "PROCESS"
  <2>1. /\ iptimer' \in StopOutcomes(iptimer)
        /\ IF Resumes(h)
           THEN ConnectStation /\ UNCHANGED <<tgen, retry, authFailures>>
           ELSE /\ txn' = IF Fails(h) THEN FinishError ELSE txn
                /\ tag' = IF Fails(h) THEN 0 ELSE tag
                /\ FailureRecorded(ClassifyDisconnect(h.reason))
                /\ UNCHANGED <<radio, flags, abandoned>>
    BY <1>4 DEF HandleDisconnected, driver
  <2>2. mode \in Operational /\ h.gen = tag /\ ~flags.ip
    BY <1>4, ProcessedFacts
  <2>3. /\ s_event_queue' \in Seq(Events) /\ pc.net = "idle" /\ GensIn(s_event_queue', tgen)
        /\ (TagsLast(s_event_queue, tag) => TagsLast(s_event_queue', tag))
        /\ (StaleIn(s_event_queue, tgen) => StaleIn(s_event_queue', tgen))
    BY <1>2, TakenKeeps
  <2> HIDE DEF h
  <2>4. iptimer' \in Timers /\ iptimer'.gen = iptimer.gen /\ (iptimer'.armed => iptimer.armed)
    BY <1>1, <2>1, StopKeeps DEF StaTypes
  <2>5. CASE Resumes(h)
    <3>1. Halted /\ txn.active
      BY <2>5 DEF Resumes, EventMatches, Halted
    <3>2. ~iptimer'.armed /\ iptimer'.gen <= tgen
      BY <1>1, <2>4, <3>1 DEF Stilled, StaTypes
    <3>3. ConnectStation /\ UNCHANGED <<tgen, retry, authFailures>>
      BY <2>1, <2>5
    <3>4. pc' \in Places /\ pc'.net = "idle"
      BY <1>1, <1>2, <2>3 DEF StaTypes
    <3> QED
      BY <1>2, <2>2, <2>3, <2>4, <3>1, <3>2, <3>3, <3>4, Connects
  <2>6. CASE ~Resumes(h)
    <3>1. txn.active => Fails(h)
      BY <1>1, <2>2, <2>3, <2>6 DEF Resumes, Fails, EventMatches, Transactions
    <3>2. txn' \in TransactionRecords /\ ~txn'.active /\ tag' = 0
      <4>1. /\ FinishError \in TransactionRecords /\ ~FinishError.active
            /\ txn \in TransactionRecords
        BY <1>1, TransactionEnds DEF StaTypes
      <4>2. ~txn.active => tag = 0
        BY <1>1 DEF Transactions
      <4>3. tag' = 0
        BY <2>1, <2>6, <3>1, <4>2
      <4> QED
        BY <2>1, <2>6, <3>1, <4>1, <4>3
    <3>3. /\ tgen' \in {tgen, tgen + 1} /\ retry' \in Timers /\ retry'.gen <= tgen'
          /\ sta' \in {"ACTION_REQUIRED", "RETRY_WAIT", "IDLE"}
          /\ sta' = "RETRY_WAIT" => retry'.armed /\ retry'.gen = tgen'
          /\ authFailures' \in 0 .. AuthLimit
      BY <1>1, <2>1, <2>6, FailureFacts
    <3>4. UNCHANGED <<radio, flags, abandoned>>
      BY <2>1, <2>6
    <3>5. StaTypes'
      <4>1. tgen \in Nat /\ tgen' \in Nat /\ 0 \in 0 .. tgen' /\ iptimer'.gen <= tgen'
        BY <1>1, <2>4, <3>3 DEF StaTypes, Timers
      <4>2. GensIn(s_event_queue', tgen')
        BY <2>3, <3>3, <4>1, NewGeneration
      <4> QED
        BY <1>1, <1>2, <2>3, <2>4, <3>2, <3>3, <3>4, <4>1, <4>2 DEF StaTypes, StaStates
    <3>6. Transactions' /\ FlagsFollow' /\ Stilled' /\ TagOrder' /\ Quiet' /\ ~Halted'
      BY <1>1, <1>2, <2>2, <2>3, <3>2, <3>4 DEF Transactions, FlagsFollow, Stilled, Halted,
         TagOrder, Quiet, Operational, Service
    <3>7. Alive'
      <4> SUFFICES ASSUME Sound' PROVE FlagsTrue' /\ AddressFollows' /\ Waits'
        BY <1>2, <2>3 DEF Alive
      <4>1. Sound /\ FlagsTrue
        BY <1>1, <1>2, <3>4 DEF Sound, Alive
      <4>2. FlagsTrue' /\ AddressFollows'
        BY <2>2, <3>4, <4>1 DEF FlagsTrue, AddressFollows
      <4>3. sta' = "RETRY_WAIT" => WillRetry'
        BY <3>3 DEF WillRetry
      <4> QED
        BY <3>3, <3>6, <4>2, <4>3 DEF Waits
    <3> QED
      BY <3>5, <3>6, <3>7 DEF StaInv
  <2> QED
    BY <2>5, <2>6
<1> QED
  BY <1>3, <1>4

\* No address in time.
LEMMA IpTimeoutHandled == StaInv /\ HandleIpTimeout => StaInv'
<1> SUFFICES ASSUME StaInv, HandleIpTimeout PROVE StaInv'
  OBVIOUS
<1> DEFINE h == Head(s_event_queue)
<1>1. /\ StaTypes /\ Transactions /\ FlagsFollow /\ Stilled /\ TagOrder /\ Quiet /\ Alive
  BY DEF StaInv
<1>2. UNCHANGED <<mode, radio, txn, tag, pc, lost, abandoned>> /\ Taken("IP_TIMEOUT")
  BY DEF HandleIpTimeout, history
<1>3. CASE Decide("IP_TIMEOUT", h.gen) # "PROCESS"
  BY <1>2, <1>3, IgnoredHandled DEF HandleIpTimeout, timers
<1>4. CASE Decide("IP_TIMEOUT", h.gen) = "PROCESS"
  <2>1. iptimer' \in StopOutcomes(iptimer) /\ FailureRecorded("IP_TIMEOUT") /\ UNCHANGED flags
    BY <1>4 DEF HandleIpTimeout
  <2>2. mode \in Operational /\ h.gen = tgen /\ ~flags.ip
    BY <1>4, ProcessedFacts
  <2>3. /\ s_event_queue' \in Seq(Events) /\ pc.net = "idle" /\ GensIn(s_event_queue', tgen)
        /\ In(s_event_queue, "IP_TIMEOUT", tgen)
        /\ (Tagged(s_event_queue, tag) => Tagged(s_event_queue', tag))
        /\ (TagsLast(s_event_queue, tag) => TagsLast(s_event_queue', tag))
        /\ (StaleIn(s_event_queue, tgen) => tgen < tgen)
    <3>1. "IP_TIMEOUT" \in TimerTypes
      BY DEF TimerTypes
    <3> QED
      BY <1>2, <2>2, <3>1, TakenKeeps
  <2> HIDE DEF h
  <2>4. iptimer' \in Timers /\ iptimer'.gen = iptimer.gen /\ (iptimer'.armed => iptimer.armed)
    BY <1>1, <2>1, StopKeeps DEF StaTypes
  <2>5. /\ tgen' \in {tgen, tgen + 1} /\ retry' \in Timers /\ retry'.gen <= tgen'
        /\ sta' \in {"ACTION_REQUIRED", "RETRY_WAIT", "IDLE"}
        /\ sta' = "RETRY_WAIT" => retry'.armed /\ retry'.gen = tgen'
        /\ authFailures' \in 0 .. AuthLimit
    BY <1>1, <2>1, FailureFacts
  <2>6. ~Halted
    <3>1. ~(tgen < tgen)
      BY <1>1 DEF StaTypes
    <3> QED
      BY <1>1, <2>3, <3>1 DEF Stilled
  <2>7. StaTypes'
    <3>1. tgen \in Nat /\ tgen' \in Nat /\ tag \in 0 .. tgen' /\ iptimer'.gen <= tgen'
      BY <1>1, <2>4, <2>5 DEF StaTypes, Timers
    <3>2. GensIn(s_event_queue', tgen')
      BY <2>3, <2>5, <3>1, NewGeneration
    <3> QED
      BY <1>1, <1>2, <2>1, <2>3, <2>4, <2>5, <3>1, <3>2 DEF StaTypes, StaStates
  <2>8. Transactions' /\ FlagsFollow' /\ Stilled' /\ TagOrder' /\ Quiet' /\ ~Halted'
    BY <1>1, <1>2, <2>1, <2>2, <2>3, <2>6 DEF Transactions, FlagsFollow, Stilled, Halted,
       TagOrder, Quiet, Operational, Service
  <2>9. Alive'
    <3> SUFFICES ASSUME Sound' PROVE FlagsTrue' /\ AddressFollows' /\ Waits'
      BY <1>2, <2>3 DEF Alive
    <3>1. Sound /\ FlagsTrue
      BY <1>1, <1>2 DEF Sound, Alive
    <3>2. FlagsTrue' /\ AddressFollows'
      BY <1>2, <2>1, <2>2, <3>1 DEF FlagsTrue, AddressFollows
    <3>3. sta' = "RETRY_WAIT" => WillRetry'
      BY <2>5 DEF WillRetry
    <3> QED
      BY <2>5, <2>8, <3>2, <3>3 DEF Waits
  <2> QED
    BY <2>7, <2>8, <2>9 DEF StaInv
<1> QED
  BY <1>3, <1>4

\* The driver stopped.
LEMMA StoppedHandled == StaInv /\ HandleStopped => StaInv'
<1> SUFFICES ASSUME StaInv, HandleStopped PROVE StaInv'
  OBVIOUS
<1> DEFINE h == Head(s_event_queue)
           action == Decide("STOPPED", h.gen)
<1>1. /\ StaTypes /\ Transactions /\ FlagsFollow /\ Stilled /\ TagOrder /\ Quiet /\ Alive
  BY DEF StaInv
<1>2. /\ UNCHANGED <<radio, txn, tag, tgen, retry, iptimer, authFailures, pc, lost, abandoned>>
      /\ Taken("STOPPED")
  BY DEF HandleStopped, timers, history
<1>3. action \in {"CONFIRM_DISABLED", "PROCESS", "IGNORE"}
      /\ (action = "CONFIRM_DISABLED" => mode \in Service)
  BY DEF Decide, Service
<1>4. /\ action = "CONFIRM_DISABLED" => NotProcessed(action) /\ UNCHANGED mode
      /\ action = "PROCESS" => sta' = "DISABLED" /\ mode' = "NETWORK_FAULT" /\ UNCHANGED flags
      /\ action = "IGNORE" => UNCHANGED <<sta, flags, mode>>
  BY DEF HandleStopped
<1>5. /\ s_event_queue' \in Seq(Events) /\ pc.net = "idle" /\ GensIn(s_event_queue', tgen)
      /\ h.type = "STOPPED"
      /\ \A n : StaleIn(s_event_queue, n) => StaleIn(s_event_queue', n)
      /\ \A g : Tagged(s_event_queue, g) => Tagged(s_event_queue', g)
      /\ \A g : TagsLast(s_event_queue, g) => TagsLast(s_event_queue', g)
      /\ \A g : AddressAfter(s_event_queue, g) => AddressAfter(s_event_queue', g)
      /\ \A t, g : In(s_event_queue', t, g) => In(s_event_queue, t, g)
      /\ In(s_event_queue, "DISCONNECTED", tag) => In(s_event_queue', "DISCONNECTED", tag)
  BY <1>2, TakenKeeps
<1>6. CASE action # "PROCESS"
  <2>1. Spent(h)
    BY <1>5 DEF Spent
  <2>2. \/ UNCHANGED <<sta, flags>>
        \/ mode \in Service /\ sta' \in {sta, "DISABLED"} /\ flags' \in {flags, Absent}
    BY <1>3, <1>4, <1>6 DEF NotProcessed
  <2>3. UNCHANGED mode
    BY <1>3, <1>4, <1>6
  <2> QED
    BY <1>2, <2>1, <2>2, <2>3, EventDropped
<1>7. CASE action = "PROCESS"
  <2>1. mode \in Operational /\ flags = Absent /\ ~flags.started
    BY <1>7, ProcessedFacts DEF Absent
  <2>2. sta' = "DISABLED" /\ mode' = "NETWORK_FAULT" /\ flags' = flags
    BY <1>4, <1>7
  <2>3. StaTypes'
    BY <1>1, <1>2, <1>5, <2>2 DEF StaTypes, StaStates, Operational
  <2>4. Transactions' /\ FlagsFollow' /\ Stilled' /\ TagOrder' /\ Quiet'
    BY <1>1, <1>2, <1>5, <2>2 DEF Transactions, FlagsFollow, Stilled, Halted, TagOrder, Quiet,
       Service
  <2>5. Alive'
    <3> SUFFICES ASSUME Sound' PROVE FlagsTrue' /\ AddressFollows' /\ Waits'
      BY <1>2, <1>5 DEF Alive
    <3>1. Sound /\ FlagsTrue /\ AddressFollows /\ Waits
      BY <1>1, <1>2, <1>5, <2>1 DEF Sound, Alive
    <3> QED
      BY <1>2, <1>5, <2>2, <3>1 DEF FlagsTrue, AddressFollows, Waits, Halted
  <2> QED
    BY <2>3, <2>4, <2>5 DEF StaInv
<1> QED
  BY <1>6, <1>7

---------------------------------------------------------------------------
(* The station: local service and security recovery.                       *)

\* Entering and leaving local service are not preparing a transaction.
LEMMA PlacesMove ==
    ASSUME NEW p \in Places, NEW actor \in {"net", "cli"}, NEW place \in {"idle", "service"}
    PROVE  /\ [p EXCEPT ![actor] = place] \in Places
           /\ p.net # "prepare" => [p EXCEPT ![actor] = place].net # "prepare"
<1>1. CASE actor = "net"
  BY <1>1 DEF Places
<1>2. CASE actor = "cli"
  BY <1>2 DEF Places
<1> QED
  BY <1>1, <1>2

\* argus_net_cancel_recovery_for_service.
LEMMA ServiceEntered ==
    ASSUME StaInv, NEW actor \in {"net", "cli"}, EnterService(actor)
    PROVE  StaInv'
<1>1. /\ StaTypes /\ Transactions /\ FlagsFollow /\ Stilled /\ TagOrder /\ Quiet /\ Alive
  BY DEF StaInv
<1>2. /\ UNCHANGED <<radio, flags, authFailures, s_event_queue, lost, abandoned>>
      /\ tgen' = tgen + 1 /\ tag' = 0 /\ txn' = Cancelled /\ mode \in Operational
      /\ pc.net # "prepare"
      /\ tgen \in Nat
  BY <1>1 DEF EnterService, CancelRecovery, driver, history, Operational, StaTypes
<1>3. txn' \in TransactionRecords /\ ~txn'.active
  BY <1>1, <1>2, TransactionEnds DEF StaTypes
<1>4. /\ retry' \in Timers /\ iptimer' \in Timers /\ retry'.gen = 0 /\ iptimer'.gen = 0
      /\ (retry'.armed => retry.armed) /\ (iptimer'.armed => iptimer.armed)
  <2>1. PICK r \in StopOutcomes(retry) : retry' = [r EXCEPT !.gen = 0]
    BY DEF EnterService, CancelRecovery
  <2>2. PICK t \in StopOutcomes(iptimer) : iptimer' = [t EXCEPT !.gen = 0]
    BY DEF EnterService, CancelRecovery
  <2>3. r \in Timers /\ (r.armed => retry.armed) /\ t \in Timers /\ (t.armed => iptimer.armed)
    BY <1>1, StopKeeps DEF StaTypes
  <2>4. retry' \in Timers /\ retry'.gen = 0 /\ (retry'.armed => r.armed)
    BY <2>1, <2>3 DEF Timers
  <2>5. iptimer' \in Timers /\ iptimer'.gen = 0 /\ (iptimer'.armed => t.armed)
    BY <2>2, <2>3 DEF Timers
  <2> QED
    BY <2>3, <2>4, <2>5
<1>5. GensIn(s_event_queue', tgen + 1) /\ \A type : ~In(s_event_queue', type, tgen + 1)
  BY <1>1, <1>2, NewGeneration DEF StaTypes
<1>6. /\ pc' \in Places /\ pc'.net # "prepare" /\ mode' \in Operational \cup Service
      /\ sta' \in StaStates
  <2>1. pc \in Places
    BY <1>1 DEF StaTypes, Places
  <2>2. CASE TimersStopped
    <3>1. mode' = "SERVICE_TRANSITION" /\ pc' = [pc EXCEPT ![actor] = "service"] /\ sta' = sta
      BY <2>2 DEF EnterService
    <3> QED
      BY <1>1, <1>2, <2>1, <3>1, PlacesMove DEF Service, StaTypes
  <2>3. CASE ~TimersStopped
    <3>1. sta' = "ACTION_REQUIRED" /\ mode' = mode /\ pc' = pc
      BY <2>3 DEF EnterService
    <3> QED
      BY <1>1, <1>2, <2>1, <3>1 DEF StaTypes, StaStates
  <2> QED
    BY <2>2, <2>3
<1>7. StaTypes'
  <2>1. 0 \in 0 .. tgen + 1 /\ tgen + 1 \in Nat /\ 0 <= tgen + 1
    BY <1>2
  <2> QED
    BY <1>1, <1>2, <1>3, <1>4, <1>5, <1>6, <2>1 DEF StaTypes, Places
<1>8. Transactions' /\ FlagsFollow' /\ Stilled' /\ TagOrder' /\ ~Halted'
  BY <1>1, <1>2, <1>3, <1>6 DEF Transactions, FlagsFollow, Stilled, Halted, TagOrder
<1>9. CASE TimersStopped
  <2>1. mode' = "SERVICE_TRANSITION" /\ ~retry'.armed
    BY <1>9 DEF EnterService, TimersStopped
  <2>2. Quiet' /\ Alive'
    BY <1>2, <1>5, <2>1 DEF Quiet, Alive, Sound, Operational
  <2> QED
    BY <1>7, <1>8, <2>2 DEF StaInv
<1>10. CASE ~TimersStopped
  <2>1. sta' = "ACTION_REQUIRED" /\ mode' = mode /\ (retry.armed \/ iptimer.armed)
    BY <1>4, <1>10 DEF EnterService, TimersStopped
  <2>2. Quiet'
    BY <2>1 DEF Quiet
  <2>3. Alive'
    <3> SUFFICES ASSUME Sound' PROVE FlagsTrue' /\ AddressFollows' /\ Waits'
      BY <1>6 DEF Alive
    <3>1. Sound /\ FlagsTrue /\ AddressFollows
      BY <1>1, <1>2, <2>1 DEF Sound, Alive
    <3>2. radio = "online" => AddressAfter(s_event_queue, 0)
      <4>1. CASE tag = 0
        BY <3>1, <4>1 DEF AddressFollows
      <4>2. CASE tag # 0
        <5>1. Tagged(s_event_queue, tag)
          BY <1>1, <2>1, <4>2 DEF TagOrder
        <5> QED
          BY <4>2, <5>1, OtherTag
      <4> QED
        BY <4>1, <4>2
    <3> QED
      BY <1>2, <1>8, <2>1, <3>1, <3>2 DEF FlagsTrue, AddressFollows, Waits
  <2> QED
    BY <1>7, <1>8, <2>2, <2>3 DEF StaInv
<1> QED
  BY <1>9, <1>10

\* esp_wifi_disconnect and esp_wifi_set_mode, as far as they get.
LEMMA ShutdownFacts ==
    ASSUME StaInv, NEW s \in Shutdown, radio' = s.radio, flags' = s.flags, Post(s.events)
    PROVE  /\ radio' \in {radio, "off", "down"} /\ (radio = "off" => radio' = "off")
           /\ radio' \in {"off", "down", "trying", "linked", "online"}
           /\ flags' \in StationFlags /\ FlagsFollow'
           /\ s_event_queue' \in Seq(Events) /\ GensIn(s_event_queue', tgen) /\ lost' \in BOOLEAN
           /\ (StaleIn(s_event_queue, tgen) => StaleIn(s_event_queue', tgen))
           /\ (Tagged(s_event_queue, tag) => Tagged(s_event_queue', tag))
           /\ (TagsLast(s_event_queue, tag) => TagsLast(s_event_queue', tag))
           /\ (In(s_event_queue', "IP_TIMEOUT", tgen) => In(s_event_queue, "IP_TIMEOUT", tgen))
<1>1. StaTypes /\ FlagsFollow
  BY DEF StaInv
<1> DEFINE d == Disconnected(tag, "NO_AP_FOUND")
           e == Event("STOPPED", tag)
<1>2. /\ d \in Events /\ e \in Events /\ d.gen = tag /\ e.gen = tag /\ d.type \notin TimerTypes
      /\ e.type \notin TimerTypes
  BY <1>1 DEF Disconnected, Event, Events, EventTypes, DriverTypes, TimerTypes, Reasons, StaTypes
<1> DEFINE Harmless(x) == /\ x \in Seq(Events)
                          /\ \A k \in DOMAIN x : x[k].gen = tag /\ x[k].type \notin TimerTypes
           leaves == IF radio \in {"trying", "linked", "online"} THEN <<d>> ELSE <<>>
           stops == IF radio # "off" THEN <<e>> ELSE <<>>
<1>3. s.events \in {<<>>, leaves, leaves \o stops}
  BY DEF Shutdown
<1>4. Harmless(s.events)
  <2> HIDE DEF d, e
  <2>1. Harmless(<<>>)
    OBVIOUS
  <2>2. Harmless(<<d>>) /\ Harmless(<<e>>)
    <3>1. DOMAIN <<d>> = {1} /\ <<d>>[1] = d /\ DOMAIN <<e>> = {1} /\ <<e>>[1] = e
      OBVIOUS
    <3> QED
      BY <1>2, <3>1
  <2>3. Harmless(leaves) /\ Harmless(stops)
    BY <2>1, <2>2
  <2> HIDE DEF leaves, stops
  <2>4. Harmless(leaves \o stops)
    <3> DEFINE x == leaves \o stops
    <3>1. /\ x \in Seq(Events) /\ Len(x) = Len(leaves) + Len(stops)
          /\ \A i \in 1 .. Len(leaves) + Len(stops) :
                x[i] = IF i <= Len(leaves) THEN leaves[i] ELSE stops[i - Len(leaves)]
      BY <2>3, ConcatProperties
    <3>2. /\ Len(leaves) \in Nat /\ Len(stops) \in Nat /\ DOMAIN leaves = 1 .. Len(leaves)
          /\ DOMAIN stops = 1 .. Len(stops) /\ DOMAIN x = 1 .. Len(leaves) + Len(stops)
      BY <2>3, <3>1
    <3> HIDE DEF x
    <3>3. ASSUME NEW i \in DOMAIN x PROVE x[i].gen = tag /\ x[i].type \notin TimerTypes
      <4>1. CASE i <= Len(leaves)
        <5>1. i \in DOMAIN leaves /\ x[i] = leaves[i]
          BY <3>1, <3>2, <4>1
        <5> QED
          BY <2>3, <5>1
      <4>2. CASE ~(i <= Len(leaves))
        <5>1. i - Len(leaves) \in DOMAIN stops /\ x[i] = stops[i - Len(leaves)]
          BY <3>1, <3>2, <4>2
        <5> QED
          BY <2>3, <5>1
      <4> QED
        BY <4>1, <4>2
    <3> QED
      BY <3>1, <3>3 DEF x
  <2> HIDE DEF Harmless
  <2> QED
    BY <1>3, <2>1, <2>3, <2>4
<1>5. /\ s_event_queue \in Seq(Events) /\ GensIn(s_event_queue, tgen) /\ tag \in 0 .. tgen
      /\ "IP_TIMEOUT" \in TimerTypes
  BY <1>1 DEF StaTypes, TimerTypes
<1> DEFINE ev == s.events
<1>6. ev \in Seq(Events) /\ (\A k \in DOMAIN ev : ev[k].gen = tag /\ ev[k].type \notin TimerTypes) /\ Post(ev)
  BY <1>4
<1> HIDE DEF d, e, ev, leaves, stops, Harmless
<1>7. /\ s_event_queue' \in Seq(Events) /\ GensIn(s_event_queue', tgen)
      /\ (StaleIn(s_event_queue, tgen) => StaleIn(s_event_queue', tgen))
      /\ (Tagged(s_event_queue, tag) => Tagged(s_event_queue', tag))
      /\ (TagsLast(s_event_queue, tag) => TagsLast(s_event_queue', tag))
      /\ (In(s_event_queue', "IP_TIMEOUT", tgen) => In(s_event_queue, "IP_TIMEOUT", tgen))
  BY <1>5, <1>6, PostTagged
<1>8. lost' \in BOOLEAN
  BY DEF Post
<1>9. \/ radio' = radio /\ flags' = flags
      \/ radio' = (IF radio = "off" THEN "off" ELSE "down") /\ flags' = [flags EXCEPT !.connected = FALSE, !.ip = FALSE]
      \/ radio' = "off" /\ flags' = Absent
  BY DEF Shutdown
<1>10. /\ radio' \in {radio, "off", "down"} /\ (radio = "off" => radio' = "off")
       /\ radio' \in {"off", "down", "trying", "linked", "online"}
  BY <1>1, <1>9 DEF StaTypes
<1>11. flags' \in StationFlags /\ FlagsFollow'
  <2>1. /\ [flags EXCEPT !.connected = FALSE, !.ip = FALSE] \in StationFlags
        /\ ~[flags EXCEPT !.connected = FALSE, !.ip = FALSE].connected
        /\ ~[flags EXCEPT !.connected = FALSE, !.ip = FALSE].ip
        /\ Absent \in StationFlags /\ ~Absent.connected /\ ~Absent.ip /\ flags \in StationFlags
    BY <1>1 DEF StaTypes, StationFlags, Absent
  <2>2. flags' \in StationFlags /\ (flags'.connected \/ flags'.ip => flags' = flags /\ radio' = radio)
    BY <1>9, <2>1
  <2> QED
    BY <1>1, <2>2 DEF FlagsFollow
<1> QED
  BY <1>7, <1>8, <1>10, <1>11

\* Service entry, completed or aborted.
LEMMA ServiceEnded ==
    ASSUME StaInv, NEW actor \in {"net", "cli"}, ServiceEnds(actor)
    PROVE  StaInv'
<1>1. /\ StaTypes /\ Transactions /\ FlagsFollow /\ Stilled /\ TagOrder /\ Quiet /\ Alive
  BY DEF StaInv
<1>2. /\ UNCHANGED <<txn, tag, tgen, retry, iptimer, authFailures>> /\ pc.net # "prepare"
      /\ pc' = [pc EXCEPT ![actor] = "idle"]
  BY DEF ServiceEnds, timers, NetFree
<1>3. PICK s \in Shutdown :
         /\ radio' = s.radio /\ flags' = s.flags /\ Post(s.events)
         /\ \/ sta' = "DISABLED" /\ mode' = "SERVICE_AP_ONLY" /\ UNCHANGED abandoned
            \/ mode' = "NETWORK_FAULT" /\ abandoned' = TRUE /\ sta' \in {sta, "DISABLED"}
  BY DEF ServiceEnds
<1>4. /\ radio' \in {radio, "off", "down"}
      /\ radio' \in {"off", "down", "trying", "linked", "online"}
      /\ flags' \in StationFlags /\ FlagsFollow'
      /\ s_event_queue' \in Seq(Events) /\ GensIn(s_event_queue', tgen) /\ lost' \in BOOLEAN
      /\ (StaleIn(s_event_queue, tgen) => StaleIn(s_event_queue', tgen))
      /\ (Tagged(s_event_queue, tag) => Tagged(s_event_queue', tag))
      /\ (TagsLast(s_event_queue, tag) => TagsLast(s_event_queue', tag))
      /\ (In(s_event_queue', "IP_TIMEOUT", tgen) => In(s_event_queue, "IP_TIMEOUT", tgen))
  BY <1>3, ShutdownFacts
<1>5. pc' \in Places /\ pc'.net # "prepare"
  <2>1. pc \in Places
    BY <1>1 DEF StaTypes, Places
  <2> QED
    BY <1>2, <2>1, PlacesMove
<1>6. mode' \in Operational \cup Service /\ sta' \in StaStates /\ abandoned' \in BOOLEAN
      /\ (mode' \in Service => sta' = "DISABLED") /\ (abandoned' \/ mode' \notin Operational)
  BY <1>1, <1>3 DEF StaTypes, StaStates, Operational, Service
<1>7. StaTypes'
  BY <1>1, <1>2, <1>4, <1>5, <1>6 DEF StaTypes, Places
<1>8. Transactions' /\ Stilled' /\ TagOrder' /\ Quiet' /\ Alive'
  <2>1. Transactions'
    BY <1>1, <1>2, <1>5 DEF Transactions
  <2>2. Stilled'
    BY <1>1, <1>2, <1>4 DEF Transactions, Stilled, Halted
  <2>3. TagOrder'
    BY <1>1, <1>2, <1>4 DEF TagOrder
  <2> QED
    BY <1>6, <2>1, <2>2, <2>3 DEF Quiet, Alive, Sound
<1> QED
  BY <1>4, <1>7, <1>8 DEF StaInv

\* set_net_mode and enter_security_recovery_network.
LEMMA RecoveryBegun == StaInv /\ RecoveryBegins => StaInv'
<1> SUFFICES ASSUME StaInv, RecoveryBegins PROVE StaInv'
  OBVIOUS
<1>1. StaTypes /\ FlagsFollow /\ Taken("RECOVERY")
  BY DEF StaInv, RecoveryBegins
<1>2. CASE mode = "SECURITY_RECOVERY_AP_ONLY"
  BY <1>1, <1>2, SkipSpent DEF RecoveryBegins
<1>3. CASE mode # "SECURITY_RECOVERY_AP_ONLY"
  <2>1. /\ mode' = "SECURITY_RECOVERY_TRANSITION" /\ tgen' = tgen + 1 /\ tag' = 0
        /\ txn' = Cancelled
        /\ retry' \in StopOutcomes(retry) /\ iptimer' \in StopOutcomes(iptimer)
        /\ sta' = "DISABLED" /\ authFailures' = 0 /\ pc' = [pc EXCEPT !.net = "recovery"]
        /\ UNCHANGED <<radio, flags, lost, abandoned>>
    BY <1>3 DEF RecoveryBegins, LeaveOperation, driver, history
  <2>2. txn' \in TransactionRecords /\ ~txn'.active
    BY <1>1, <2>1, TransactionEnds DEF StaTypes
  <2>3. s_event_queue' \in Seq(Events) /\ GensIn(s_event_queue', tgen)
    BY <1>1, TakenKeeps
  <2>4. /\ tgen \in Nat /\ tgen + 1 \in Nat /\ tgen <= tgen + 1 /\ 0 \in 0 .. tgen + 1
        /\ 0 \in 0 .. AuthLimit
    BY <1>1, StaLinkAssumption DEF StaTypes
  <2>5. GensIn(s_event_queue', tgen + 1)
    BY <2>3, <2>4, NewGeneration
  <2>6. /\ retry' \in Timers /\ iptimer' \in Timers /\ retry'.gen <= tgen + 1
        /\ iptimer'.gen <= tgen + 1
    BY <1>1, <2>1, <2>4, StoppedTimers
  <2>7. pc' \in Places /\ pc'.net = "recovery"
    BY <1>1, <2>1 DEF StaTypes, Places
  <2>8. StaTypes'
    BY <1>1, <2>1, <2>2, <2>3, <2>4, <2>5, <2>6, <2>7 DEF StaTypes, Places, StaStates, Service
  <2>9. Transactions' /\ FlagsFollow' /\ Stilled' /\ TagOrder' /\ Quiet' /\ Alive'
    BY <1>1, <2>1, <2>2, <2>7 DEF Transactions, FlagsFollow, Stilled, Halted, TagOrder, Quiet,
       Alive, Sound, Operational
  <2> QED
    BY <2>8, <2>9 DEF StaInv
<1> QED
  BY <1>2, <1>3

\* Recovery entry, completed or aborted.
LEMMA RecoveryEnded == StaInv /\ RecoveryEnds => StaInv'
<1> SUFFICES ASSUME StaInv, RecoveryEnds PROVE StaInv'
  OBVIOUS
<1>1. /\ StaTypes /\ Transactions /\ FlagsFollow /\ Stilled /\ TagOrder /\ Quiet /\ Alive
  BY DEF StaInv
<1>2. UNCHANGED <<sta, authFailures>> /\ pc.net = "recovery" /\ pc' = [pc EXCEPT !.net = "idle"]
  BY DEF RecoveryEnds
<1>3. PICK s \in Shutdown :
         /\ radio' = s.radio /\ flags' = s.flags /\ Post(s.events)
         /\ \/ LeaveOperation("SECURITY_RECOVERY_AP_ONLY") /\ UNCHANGED abandoned
            \/ mode' = "NETWORK_FAULT" /\ abandoned' = TRUE /\ UNCHANGED <<txn, tag, tgen, retry, iptimer>>
  BY DEF RecoveryEnds, timers
<1>4. /\ radio' \in {radio, "off", "down"}
      /\ radio' \in {"off", "down", "trying", "linked", "online"}
      /\ flags' \in StationFlags /\ FlagsFollow'
      /\ s_event_queue' \in Seq(Events) /\ GensIn(s_event_queue', tgen) /\ lost' \in BOOLEAN
      /\ (StaleIn(s_event_queue, tgen) => StaleIn(s_event_queue', tgen))
      /\ (Tagged(s_event_queue, tag) => Tagged(s_event_queue', tag))
      /\ (TagsLast(s_event_queue, tag) => TagsLast(s_event_queue', tag))
      /\ (In(s_event_queue', "IP_TIMEOUT", tgen) => In(s_event_queue, "IP_TIMEOUT", tgen))
  BY <1>3, ShutdownFacts
<1>5. pc' \in Places /\ pc'.net = "idle"
  BY <1>1, <1>2 DEF StaTypes, Places
<1>6. CASE LeaveOperation("SECURITY_RECOVERY_AP_ONLY") /\ UNCHANGED abandoned
  <2>1. /\ mode' = "SECURITY_RECOVERY_AP_ONLY" /\ tgen' = tgen + 1 /\ tag' = 0 /\ txn' = Cancelled
        /\ retry' \in StopOutcomes(retry) /\ iptimer' \in StopOutcomes(iptimer)
        /\ abandoned' = abandoned
    BY <1>6 DEF LeaveOperation
  <2>2. txn' \in TransactionRecords /\ ~txn'.active
    BY <1>1, <2>1, TransactionEnds DEF StaTypes
  <2>3. tgen \in Nat /\ tgen + 1 \in Nat /\ tgen <= tgen + 1 /\ 0 \in 0 .. tgen + 1
    BY <1>1 DEF StaTypes
  <2>4. GensIn(s_event_queue', tgen + 1) /\ \A t : ~In(s_event_queue', t, tgen + 1)
    BY <1>4, <2>3, NewGeneration
  <2>5. /\ retry' \in Timers /\ iptimer' \in Timers /\ retry'.gen <= tgen + 1
        /\ iptimer'.gen <= tgen + 1
        /\ retry'.gen < tgen + 1
    BY <1>1, <2>1, <2>3, StoppedTimers
  <2>6. StaTypes'
    BY <1>1, <1>2, <1>4, <1>5, <2>1, <2>2, <2>3, <2>4, <2>5 DEF StaTypes, Places, Service
  <2>7. Transactions' /\ Stilled' /\ TagOrder' /\ Quiet' /\ Alive'
    BY <1>5, <2>1, <2>2, <2>4, <2>5 DEF Transactions, Stilled, Halted, TagOrder, Quiet, Alive,
       Sound, Operational
  <2> QED
    BY <1>4, <2>6, <2>7 DEF StaInv
<1>7. CASE mode' = "NETWORK_FAULT" /\ abandoned' = TRUE /\ UNCHANGED <<txn, tag, tgen, retry, iptimer>>
  <2>1. StaTypes'
    BY <1>1, <1>2, <1>4, <1>5, <1>7 DEF StaTypes, Places, Operational
  <2>2. Transactions' /\ Quiet' /\ Alive'
    BY <1>1, <1>2, <1>5, <1>7 DEF Transactions, Quiet, Alive, Sound, Service
  <2>3. Stilled' /\ TagOrder'
    BY <1>1, <1>2, <1>4, <1>7 DEF Transactions, Stilled, Halted, TagOrder
  <2> QED
    BY <1>4, <2>1, <2>2, <2>3 DEF StaInv
<1> QED
  BY <1>3, <1>6, <1>7

---------------------------------------------------------------------------
(* The station: the theorems.                                              *)

\* Every step preserves the invariant.
LEMMA StaInvStep == StaInv /\ [StaNext]_staVars => StaInv'
<1> SUFFICES ASSUME StaInv, [StaNext]_staVars PROVE StaInv'
  OBVIOUS
<1>0. tag \in Nat /\ s_event_queue \in Seq(Events) /\ retry.gen \in Nat /\ iptimer.gen \in Nat
  BY DEF StaInv, StaTypes, Timers
<1>1. CASE Associates
  <2> DEFINE e == Event("ASSOCIATED", tag)
  <2>1. e \in Events /\ e.gen = tag /\ e.type = "ASSOCIATED"
    BY <1>0 DEF Event, Events, EventTypes, DriverTypes
  <2> QED
    BY <1>1, <2>1, RadioMoves DEF Associates
<1>2. CASE GetsAddress
  <2> DEFINE e == Event("IP_ACQUIRED", tag)
  <2>1. e \in Events /\ e.gen = tag /\ e.type = "IP_ACQUIRED"
    BY <1>0 DEF Event, Events, EventTypes, DriverTypes
  <2> QED
    BY <1>2, <2>1, RadioMoves DEF GetsAddress
<1>3. CASE LinkFails
  <2>1. PICK reason \in Reasons : Post(<<Disconnected(tag, reason)>>)
    BY <1>3 DEF LinkFails
  <2> DEFINE e == Disconnected(tag, reason)
  <2>2. e \in Events /\ e.gen = tag /\ e.type = "DISCONNECTED"
    BY <1>0 DEF Disconnected, Events, EventTypes, DriverTypes
  <2> QED
    BY <1>3, <2>1, <2>2, RadioMoves DEF LinkFails
<1>4. CASE RetryExpires
  <2> DEFINE e == Event("WAKEUP", retry.gen)
  <2>1. e \in Events /\ e.gen = retry.gen /\ e.type = "WAKEUP"
    BY <1>0 DEF Event, Events, EventTypes, TimerTypes
  <2> QED
    BY <1>4, <2>1, TimerFires DEF RetryExpires, driver
<1>5. CASE IpTimeoutExpires
  <2> DEFINE e == Event("IP_TIMEOUT", iptimer.gen)
  <2>1. e \in Events /\ e.gen = iptimer.gen /\ e.type = "IP_TIMEOUT"
    BY <1>0 DEF Event, Events, EventTypes, TimerTypes
  <2> QED
    BY <1>5, <2>1, TimerFires DEF IpTimeoutExpires, driver
<1>6. CASE Request
  BY <1>6, RequestPosted
<1>7. CASE Handle /\ NetFree
  BY <1>7, ReconnectHandled, ApplyHandled, WakeupHandled, AssociatedHandled, AddressHandled,
     DisconnectedHandled, IpTimeoutHandled, StoppedHandled, RecoveryBegun DEF Handle
<1>8. CASE PrepareFails
  BY <1>8, PreparationFails
<1>9. CASE PrepareEnds
  BY <1>9, PreparationEnds
<1>10. CASE \E actor \in {"net", "cli"} : EnterService(actor) \/ ServiceEnds(actor)
  BY <1>10, ServiceEntered, ServiceEnded
<1>11. CASE RecoveryEnds
  BY <1>11, RecoveryEnded
<1>12. CASE UNCHANGED staVars
  <2>1. UNCHANGED <<mode, sta, radio, flags, txn, tag, tgen, retry, iptimer, authFailures, s_event_queue, pc,
                    lost, abandoned>>
    BY <1>12 DEF staVars, driver, timers, history
  <2> QED
    BY <2>1 DEF StaInv, StaTypes, Transactions, FlagsFollow, Stilled, Halted, TagOrder, Quiet,
       Alive, Sound, FlagsTrue, AddressFollows, Waits, Tells, WillRetry, WillTimeOut, Resuming
<1> QED
  BY <1>1, <1>2, <1>3, <1>4, <1>5, <1>6, <1>7, <1>8, <1>9, <1>10, <1>11, <1>12 DEF StaNext

\* What the station waits for, in every reachable state.
THEOREM StaInvHolds == StaSpec => []StaInv
<1>1. StaInit => StaInv
  BY StaInvInit
<1>2. StaInv /\ [StaNext]_staVars => StaInv'
  BY StaInvStep
<1> QED
  BY <1>1, <1>2, PTL DEF StaSpec

\* A station in use is never stuck: it waits for its timer, for the driver or
\* for an event that is queued and will be processed, whatever order driver,
\* timers, requests and the network manager's task take their steps in.
THEOREM StationNeverStuck == StaSpec => []NeverStuck
<1>1. StaInv => NeverStuck
  BY StaAliveInv
<1> QED
  BY <1>1, StaInvHolds, PTL

\* In service, an event that is handled leaves the station as it is or disabled.
LEMMA QuietStep ==
    ASSUME StaInv, [StaNext]_staVars
    PROVE  StaysQuiet
<1> SUFFICES ASSUME mode \in Service, mode' \in Service
             PROVE  (radio' = "trying" => radio = "trying") /\ sta' \in {sta, "DISABLED"}
  BY DEF StaysQuiet
<1>0. mode \notin Operational /\ Quiet /\ Transactions /\ StaTypes
  BY DEF StaInv, Service, Operational
<1>1. ASSUME NEW type \in {"ASSOCIATED", "IP_ACQUIRED", "DISCONNECTED", "IP_TIMEOUT", "STOPPED"}, NEW gen
      PROVE  Decide(type, gen) # "PROCESS" 
  BY <1>0 DEF Decide
<1>2. ASSUME NEW action, NotProcessed(action) PROVE sta' \in {sta, "DISABLED"}
  BY <1>2 DEF NotProcessed
<1>3. ASSUME Skip PROVE radio' = radio /\ sta' = sta
  BY <1>3 DEF Skip, driver
<1>4. ASSUME NEW s \in Shutdown, radio' = s.radio
      PROVE  radio' = "trying" => radio = "trying"
  <2>1. \/ s.radio = radio
        \/ s.radio = (IF radio = "off" THEN "off" ELSE "down")
        \/ s.radio = "off"
    BY DEF Shutdown
  <2> QED
    BY <1>4, <2>1
<1>5. CASE Associates \/ GetsAddress \/ LinkFails
  BY <1>5 DEF Associates, GetsAddress, LinkFails, RadioStep
<1>6. CASE RetryExpires \/ IpTimeoutExpires \/ Request
  BY <1>6 DEF RetryExpires, IpTimeoutExpires, Request, driver
<1>7. CASE HandleReconnect
  BY <1>0, <1>3, <1>7 DEF HandleReconnect, CanReconnect, Operational
<1>8. CASE HandleApply
  BY <1>0, <1>3, <1>8 DEF HandleApply, driver
<1>9. CASE HandleWakeup
  <2>1. Taken("WAKEUP")
    BY <1>9 DEF HandleWakeup
  <2>2. In(s_event_queue, "WAKEUP", Head(s_event_queue).gen)
    BY <2>1, TakenKeeps
  <2>3. ~(Head(s_event_queue).gen = tgen /\ sta = "RETRY_WAIT")
    BY <1>0, <2>2 DEF Quiet
  <2> QED
    BY <1>9, <2>3 DEF HandleWakeup
<1>10. CASE HandleAssociated
  BY <1>1, <1>2, <1>10 DEF HandleAssociated
<1>11. CASE HandleAddress
  BY <1>1, <1>2, <1>11 DEF HandleAddress
<1>12. CASE HandleDisconnected
  BY <1>1, <1>2, <1>12 DEF HandleDisconnected
<1>13. CASE HandleIpTimeout
  BY <1>1, <1>2, <1>13 DEF HandleIpTimeout
<1>14. CASE HandleStopped
  BY <1>1, <1>2, <1>14 DEF HandleStopped
<1>15. CASE RecoveryBegins
  BY <1>3, <1>15 DEF RecoveryBegins, driver
<1>16. CASE PrepareFails \/ PrepareEnds
  BY <1>0, <1>16 DEF PrepareFails, PrepareEnds, Transactions
<1>17. ASSUME NEW actor \in {"net", "cli"}, EnterService(actor) \/ ServiceEnds(actor)
       PROVE  (radio' = "trying" => radio = "trying") /\ sta' \in {sta, "DISABLED"}
  <2>1. CASE EnterService(actor)
    BY <1>0, <2>1 DEF EnterService, Operational
  <2>2. CASE ServiceEnds(actor)
    BY <1>4, <2>2 DEF ServiceEnds
  <2> QED
    BY <1>17, <2>1, <2>2
<1>18. CASE RecoveryEnds
  BY <1>4, <1>18 DEF RecoveryEnds
<1>19. CASE UNCHANGED staVars
  BY <1>19 DEF staVars, driver
<1> QED
  BY <1>5, <1>6, <1>7, <1>8, <1>9, <1>10, <1>11, <1>12, <1>13, <1>14, <1>15, <1>16, <1>17, <1>18,
     <1>19 DEF StaNext, Handle

\* In local service and security recovery no event, timer or request starts the
\* station, however late it comes (argus_net_cancel_recovery_for_service,
\* argus_net_decide_sta_event).
THEOREM ServiceStaysQuiet == StaSpec => QuietInService
<1>1. StaInv /\ [StaNext]_staVars => [StaysQuiet]_staVars
  BY QuietStep
<1> QED
  BY <1>1, StaInvHolds, PTL DEF StaSpec, QuietInService

\* Outside a step the tag of the driver's events names the active transaction,
\* whichever way the last one ended, so that its own events are not taken for
\* those of another (s_active_transaction_generation).
THEOREM TagIsTheTransactions == StaSpec => []TagNamesTransaction
<1>1. StaInv => TagNamesTransaction
  BY DEF StaInv, Transactions, TagNamesTransaction
<1> QED
  BY <1>1, StaInvHolds, PTL

\* A step keeps the transaction, erases its copy of the password, or begins the
\* wait for its disconnection.
LEMMA TransactionMoves ==
    ASSUME StaInv, [StaNext]_staVars
    PROVE  \/ txn' = txn
           \/ ~txn'.staged
           \/ txn'.active /\ txn'.state = "WAITING_DISCONNECT"
<1>0. Transactions /\ txn \in TransactionRecords
  BY DEF StaInv, StaTypes
<1>1. /\ ~FinishError.staged /\ ~Cancelled.staged /\ ~Complete.staged /\ ~NoTransaction.staged
  BY <1>0 DEF FinishError, Cancelled, Complete, NoTransaction, TransactionRecords
<1>2. ASSUME NEW kind, Begin(kind) PROVE ~txn'.staged
  <2> DEFINE begun == [active |-> TRUE, kind |-> kind, gen |-> tgen + 1, state |-> "PREPARING",
                       staged |-> FALSE, wasUp |-> flags.connected]
  <2>1. txn' = begun \/ txn' = [begun EXCEPT !.active = FALSE, !.state = "FAILED"]
    BY <1>2 DEF Begin
  <2>2. ~begun.staged /\ ~[begun EXCEPT !.active = FALSE, !.state = "FAILED"].staged
    OBVIOUS
  <2> HIDE DEF begun
  <2> QED
    BY <2>1, <2>2
<1>3. ASSUME ConnectStation PROVE ~txn'.staged
  <2>1. ~[txn EXCEPT !.state = "CONNECTING", !.staged = FALSE].staged
    BY <1>0 DEF TransactionRecords
  <2>2. txn' = FinishError \/ txn' = [txn EXCEPT !.state = "CONNECTING", !.staged = FALSE]
    BY <1>3 DEF ConnectStation
  <2> QED
    BY <1>1, <2>1, <2>2
<1>4. CASE Associates \/ GetsAddress \/ LinkFails
  BY <1>4 DEF Associates, GetsAddress, LinkFails, RadioStep
<1>5. CASE RetryExpires \/ IpTimeoutExpires \/ Request
  BY <1>5 DEF RetryExpires, IpTimeoutExpires, Request
<1>6. CASE HandleReconnect \/ HandleApply
  BY <1>2, <1>6 DEF HandleReconnect, HandleApply, Skip
<1>7. CASE HandleWakeup \/ HandleAssociated \/ HandleIpTimeout \/ HandleStopped
  BY <1>7 DEF HandleWakeup, HandleAssociated, HandleIpTimeout, HandleStopped
<1>8. CASE HandleAddress
  BY <1>1, <1>8 DEF HandleAddress
<1>9. CASE HandleDisconnected
  BY <1>1, <1>3, <1>9 DEF HandleDisconnected
<1>10. CASE PrepareFails
  BY <1>1, <1>10 DEF PrepareFails
<1>11. CASE PrepareEnds
  <2>1. CASE txn.wasUp
    <3>1. \/ txn' = [txn EXCEPT !.state = "WAITING_DISCONNECT", !.staged = TRUE]
          \/ txn' = FinishError
      BY <1>11, <2>1 DEF PrepareEnds
    <3>2. txn.active
      BY <1>0, <1>11 DEF PrepareEnds, Transactions
    <3> QED
      BY <1>0, <1>1, <3>1, <3>2 DEF TransactionRecords
  <2>2. CASE ~txn.wasUp
    BY <1>3, <1>11, <2>2 DEF PrepareEnds
  <2> QED
    BY <2>1, <2>2
<1>12. ASSUME NEW actor \in {"net", "cli"}, EnterService(actor) \/ ServiceEnds(actor)
       PROVE  txn' = Cancelled \/ txn' = txn
  BY <1>12 DEF EnterService, CancelRecovery, ServiceEnds
<1>13. CASE RecoveryBegins \/ RecoveryEnds
  BY <1>1, <1>13 DEF RecoveryBegins, RecoveryEnds, LeaveOperation, Skip
<1>14. CASE UNCHANGED staVars
  BY <1>14 DEF staVars
<1> QED
  BY <1>1, <1>4, <1>5, <1>6, <1>7, <1>8, <1>9, <1>10, <1>11, <1>12, <1>13, <1>14 DEF StaNext, Handle

\* The staged password is gone as soon as the transaction no longer waits for
\* its disconnection, on every path of success, failure and cancellation
\* (wifi_transaction_scrub_config).
THEOREM StagedPasswordIsScrubbed == StaSpec => []SecretsScrubbed
<1>1. StaInit => SecretsScrubbed
  BY DEF StaInit, NoTransaction, SecretsScrubbed
<1>2. StaInv /\ SecretsScrubbed /\ [StaNext]_staVars => SecretsScrubbed'
  BY TransactionMoves DEF SecretsScrubbed
<1> QED
  BY <1>1, <1>2, StaInvHolds, PTL DEF StaSpec

\* s_event_queue takes no more than it has places for.
Fits == Len(s_event_queue) <= EventQueueLength

\* argus_net_mgr_post_event respects the depth of the queue, however many
\* events come at once.
LEMMA PostFits ==
    ASSUME s_event_queue \in Seq(Events), Fits, NEW s \in Seq(Events), Post(s)
    PROVE  Fits'
<1> DEFINE room == EventQueueLength - Len(s_event_queue)
           fit == IF Len(s) <= room THEN Len(s) ELSE room
           r == SubSeq(s, 1, fit)
<1>1. /\ Len(s_event_queue) \in Nat /\ Len(s) \in Nat /\ EventQueueLength \in Nat
  BY StaLinkAssumption
<1>2. fit \in 0 .. Len(s) /\ fit <= room
  BY <1>1 DEF Fits
<1>3. r \in Seq(Events) /\ Len(r) = fit
  <2> HIDE DEF fit
  <2> QED
    BY <1>1, <1>2
<1>4. s_event_queue' = s_event_queue \o r
  BY DEF Post
<1> HIDE DEF r
<1>5. Len(s_event_queue') = Len(s_event_queue) + Len(r)
  <2>1. Len(s_event_queue \o r) = Len(s_event_queue) + Len(r)
    BY <1>3, ConcatProperties
  <2> QED
    BY <1>4, <2>1
<1> HIDE DEF fit
<1> QED
  BY <1>1, <1>2, <1>3, <1>5 DEF Fits

\* Every step respects it.
LEMMA FitsStep ==
    ASSUME StaInv, Fits, [StaNext]_staVars
    PROVE  Fits'
<1>0. s_event_queue \in Seq(Events) /\ tag \in Nat /\ StaTypes
  BY DEF StaInv, StaTypes
<1>1. ASSUME NEW type, Taken(type) PROVE Fits'
  <2>1. s_event_queue # <<>> /\ s_event_queue' = Tail(s_event_queue)
    BY <1>1 DEF Taken
  <2>2. Len(Tail(s_event_queue)) = Len(s_event_queue) - 1 /\ Len(s_event_queue) \in Nat
    BY <1>0, <2>1
  <2> QED
    BY <2>1, <2>2, StaLinkAssumption DEF Fits
<1>2. ASSUME NEW e \in Events, Post(<<e>>) PROVE Fits'
  <2>1. <<e>> \in Seq(Events)
    OBVIOUS
  <2> QED
    BY <1>0, <1>2, <2>1, PostFits
<1>3. ASSUME NEW s \in Shutdown, Post(s.events) PROVE Fits'
  <2> DEFINE d == Disconnected(tag, "NO_AP_FOUND")
             e == Event("STOPPED", tag)
             leaves == IF radio \in {"trying", "linked", "online"} THEN <<d>> ELSE <<>>
             stops == IF radio # "off" THEN <<e>> ELSE <<>>
  <2>1. s.events \in Seq(Events)
    <3>1. s.events \in {<<>>, leaves, leaves \o stops}
      BY DEF Shutdown
    <3>2. d \in Events /\ e \in Events
      BY <1>0 DEF Disconnected, Event, Events, EventTypes, DriverTypes, TimerTypes, Reasons
    <3> HIDE DEF d, e
    <3>3. <<>> \in Seq(Events) /\ leaves \in Seq(Events) /\ stops \in Seq(Events)
      BY <3>2
    <3> HIDE DEF leaves, stops
    <3>4. leaves \o stops \in Seq(Events)
      BY <3>3
    <3> QED
      BY <3>1, <3>3, <3>4
  <2> QED
    BY <1>0, <1>3, <2>1, PostFits
<1>4. CASE Associates \/ GetsAddress \/ LinkFails
  <2>1. /\ Event("ASSOCIATED", tag) \in Events /\ Event("IP_ACQUIRED", tag) \in Events
        /\ \A reason \in Reasons : Disconnected(tag, reason) \in Events
    BY <1>0 DEF Event, Disconnected, Events, Reasons, EventTypes, DriverTypes, TimerTypes
  <2> QED
    BY <1>2, <1>4, <2>1 DEF Associates, GetsAddress, LinkFails
<1>5. CASE RetryExpires \/ IpTimeoutExpires
  <2>1. Event("WAKEUP", retry.gen) \in Events /\ Event("IP_TIMEOUT", iptimer.gen) \in Events
    BY <1>0 DEF Event, Events, StaTypes, Timers, EventTypes, DriverTypes, TimerTypes
  <2> QED
    BY <1>2, <1>5, <2>1 DEF RetryExpires, IpTimeoutExpires
<1>6. CASE Request
  <2>1. PICK type \in {"RECONNECT", "APPLY", "RECOVERY"} :
           /\ Len(s_event_queue) < EventQueueLength
           /\ s_event_queue' = Append(s_event_queue, Event(type, 0))
    BY <1>6 DEF Request
  <2>2. Event(type, 0) \in Events
    BY DEF Event, Events, EventTypes, DriverTypes, TimerTypes
  <2>3. Len(s_event_queue') = Len(s_event_queue) + 1 /\ Len(s_event_queue) \in Nat
    BY <1>0, <2>1, <2>2
  <2> QED
    BY <2>1, <2>3, StaLinkAssumption DEF Fits
<1>7. CASE Handle
  BY <1>1, <1>7 DEF Handle, HandleReconnect, HandleApply, HandleWakeup, HandleAssociated,
     HandleAddress, HandleDisconnected, HandleIpTimeout, HandleStopped, RecoveryBegins
<1>8. CASE PrepareFails
  BY <1>8 DEF PrepareFails, Fits
<1>9. CASE PrepareEnds
  <2>1. Disconnected(tag, "NO_AP_FOUND") \in Events
    BY <1>0 DEF Disconnected, Events, EventTypes, DriverTypes, TimerTypes, Reasons
  <2>2. s_event_queue' = s_event_queue \/ Post(<<Disconnected(tag, "NO_AP_FOUND")>>)
    BY <1>9 DEF PrepareEnds
  <2> QED
    BY <1>2, <2>1, <2>2 DEF Fits
<1>10. ASSUME NEW actor \in {"net", "cli"}, EnterService(actor) \/ ServiceEnds(actor)
       PROVE  Fits'
  <2>1. CASE EnterService(actor)
    BY <2>1 DEF EnterService, Fits
  <2>2. CASE ServiceEnds(actor)
    BY <1>3, <2>2 DEF ServiceEnds
  <2> QED
    BY <1>10, <2>1, <2>2
<1>11. CASE RecoveryEnds
  BY <1>3, <1>11 DEF RecoveryEnds
<1>12. CASE UNCHANGED staVars
  BY <1>12 DEF staVars, Fits
<1> QED
  BY <1>4, <1>5, <1>6, <1>7, <1>8, <1>9, <1>10, <1>11, <1>12 DEF StaNext

\* The station's variables have their types, the queue its depth and the count
\* of authentication failures its limit.
THEOREM StaTypesHold == StaSpec => []StaTypeOK
<1>1. StaInit => Fits
  BY StaLinkAssumption DEF StaInit, Fits
<1>2. StaInv /\ Fits /\ [StaNext]_staVars => Fits'
  BY FitsStep
<1>3. StaInv /\ Fits => StaTypeOK
  BY DEF StaInv, StaTypes, StaTypeOK, Fits, TransactionRecords
<1> QED
  BY <1>1, <1>2, <1>3, StaInvHolds, PTL DEF StaSpec

=============================================================================
