------------------------- MODULE PublicationsProofs -------------------------
(***************************************************************************)
(* What Publications promises, for any number of clients, filters and      *)
(* events: nothing that is retained passes a subscriber by, the condition  *)
(* that is published on change survives a restart, and what every cycle    *)
(* publishes comes right.                                                  *)
(***************************************************************************)
EXTENDS Publications, FiniteSetTheorems, SequenceTheorems, TLAPS

---------------------------------------------------------------------------
(* The inductive invariant.                                                *)

Messages == [topic : RetainedTopics, value : Nat] \cup {NoMessage}
Filters == UNION SubscribeRequests
ClientState ==
    [up : BOOLEAN, subs : SUBSET Filters, replay : SUBSET RetainedTopics,
     copy : Messages, mode : Nat]
TaskState ==
    [at : {"idle", "snapshot", "conditions", "write", "done"},
     fault : {None, Clear, Conflict}, todo : Messages, message : Messages,
     to : SUBSET Clients]

Types ==
    /\ world \in [mode : Nat \ {0}, conflict : BOOLEAN]
    /\ running \in BOOLEAN /\ started \in BOOLEAN
    /\ retained \in [RetainedTopics -> Nat]
    /\ client \in [Clients -> ClientState]
    /\ queue \in Seq({"baseline", "command"})
    /\ task \in [Tasks -> TaskState]
    /\ left \in [events : Nat, connects : Nat, starts : Nat]
    /\ got \in [Clients -> SUBSET RetainedTopics]

\* What is being sent is a message; the condition about to be published is one.
TasksAgree ==
    \A k \in Tasks :
        /\ task[k].to # {} => task[k].message # NoMessage
        /\ task[k].todo.topic = "fault" => task[k].todo.value # None
        /\ task[k].at = "write" => task[k].fault # None

\* Clients are those of a running broker.
ClientsNeedBroker == ~running => \A c \in Clients : ~client[c].up

\* The current value of a topic is on its way to a client.
UnderWay(c, t) ==
    \E k \in Tasks : /\ c \in task[k].to
                     /\ task[k].message.topic = t /\ task[k].message.value = retained[t]

\* Where NothingMissed is content with any message of the topic, the invariant
\* asks for the current one, and takes an outdated copy for nothing.
Served ==
    \A c \in Clients, t \in RetainedTopics :
        /\ Subscribed(c, t) /\ t \notin client[c].replay /\ retained[t] # None
        /\ ~(client[c].copy.topic = t /\ client[c].copy.value = retained[t])
        => t \in got[c] \/ UnderWay(c, t)

\* Why the condition is retained in the end: a session starts with nothing
\* queued and nobody connected; the first event is then a baseline; and a
\* baseline leaves an empty cache and a task about to compare with it.
Untouched == queue = <<>> /\ ~started /\ \A c \in Clients : ~client[c].up
BaselineQueued == \E i \in DOMAIN queue : queue[i] = "baseline"
FaultComing ==
    \/ retained["fault"] # None
    \/ \E k \in Tasks : task[k].todo.topic = "fault" \/ task[k].at = "write"
    \/ cache = None /\ \E k \in Tasks : task[k].at \in {"snapshot", "conditions"}
FaultKept == running => Untouched \/ BaselineQueued \/ FaultComing

\* What is said of the mode after its last change is its value now: by the
\* publishers once they have been idle, by the replays once a cycle has begun,
\* and to every client once that cycle has been sent.
Current(m) == m.topic = "mode" => m.value = world.mode
TasksCurrent == \A k \in Tasks : Current(task[k].todo) /\ Current(task[k].message)
CopiesCurrent == \A c \in Clients : Current(client[c].copy)
Told(c) ==
    Subscribed(c, "mode") /\ "mode" \notin client[c].replay /\ client[c].copy.topic # "mode"
        => client[c].mode = world.mode
Telling(c) == c \in task["status"].to /\ task["status"].message.topic = "mode"
CycleSent ==
    running => retained["mode"] = world.mode /\ \A c \in Clients : Told(c) \/ Telling(c)
ModeTold ==
    running => /\ retained["mode"] = world.mode
               /\ \A c \in Clients : Current(client[c].copy) /\ Told(c)

ModeSettles ==
    /\ settled \in {"no", "clean", "cycle", "yes"}
    /\ settled # "no" => TasksCurrent
    /\ settled = "cycle" => /\ CopiesCurrent
                            /\ \/ task["status"].todo.topic = "mode"
                               \/ /\ task["status"].todo = NoMessage
                                  /\ task["status"].to # {} /\ CycleSent
    /\ settled = "yes" => ModeTold

Inv == Types /\ TasksAgree /\ ClientsNeedBroker /\ Served /\ FaultKept /\ ModeSettles

---------------------------------------------------------------------------
(* Facts about the operators.                                              *)

LEMMA MessageFacts ==
    /\ NoMessage \in Messages /\ NoMessage.topic = "none"
    /\ \A m \in Messages : m # NoMessage => m.topic \in RetainedTopics /\ m.value \in Nat
    /\ \A m \in Messages : m.topic \in RetainedTopics => m # NoMessage
    /\ \A t \in RetainedTopics, v \in Nat :
          /\ Say(t, v) \in Messages /\ Say(t, v) # NoMessage
          /\ Say(t, v).topic = t /\ Say(t, v).value = v
BY DEF Messages, NoMessage, None, Say, RetainedTopics

LEMMA IdleFacts ==
    /\ IdleTask \in TaskState
    /\ IdleTask.at = "idle" /\ IdleTask.todo = NoMessage /\ IdleTask.message = NoMessage
    /\ IdleTask.to = {}
BY MessageFacts DEF IdleTask, TaskState, None

LEMMA UnconnectedFacts ==
    /\ Unconnected \in ClientState /\ [Unconnected EXCEPT !.up = TRUE] \in ClientState
    /\ ~Unconnected.up /\ Unconnected.copy = NoMessage /\ Unconnected.subs = {}
    /\ [Unconnected EXCEPT !.up = TRUE].copy = NoMessage
    /\ [Unconnected EXCEPT !.up = TRUE].subs = {}
<1>1. NoMessage \in Messages /\ None \in Nat
  BY MessageFacts DEF None
<1> QED
  BY <1>1 DEF Unconnected, ClientState

\* What a task does next is what it was given, or nothing when it has finished.
LEMMA Continues ==
    ASSUME NEW k \in Tasks, NEW next \in TaskState, task \in [Tasks -> TaskState],
           Continue(k, next)
    PROVE  /\ task' \in [Tasks -> TaskState]
           /\ \A j \in Tasks : j # k => task'[j] = task[j]
           /\ \/ task'[k] = next
              \/ /\ next.at = "done" /\ next.todo = NoMessage /\ next.to = {}
                 /\ task'[k] = IdleTask
BY IdleFacts DEF Continue

\* argus_mqtt_store_retained_locked never fails: there is a slot for every topic.
LEMMA EveryTopicHasSlot ==
    ASSUME NEW t \in RetainedTopics, retained \in [RetainedTopics -> Nat]
    PROVE  HasSlot(t)
<1>1. SUFFICES ASSUME retained[t] = None
               PROVE  Cardinality({u \in RetainedTopics : retained[u] # None}) < RetainedCapacity
  BY DEF HasSlot
<1>2. {u \in RetainedTopics : retained[u] # None} \subseteq RetainedTopics \ {t}
  BY <1>1
<1>3. IsFiniteSet(RetainedTopics)
  <2>1. IsFiniteSet({"mode"}) /\ RetainedTopics = {"mode"} \cup {"fault"}
    BY FS_Singleton DEF RetainedTopics
  <2> QED
    BY <2>1, FS_AddElement
<1>4. /\ IsFiniteSet(RetainedTopics \ {t})
      /\ Cardinality(RetainedTopics \ {t}) = Cardinality(RetainedTopics) - 1
      /\ Cardinality(RetainedTopics) \in Nat
  BY <1>3, FS_RemoveElement, FS_CardinalityType
<1>5. /\ Cardinality({u \in RetainedTopics : retained[u] # None}) <= Cardinality(RetainedTopics \ {t})
      /\ Cardinality({u \in RetainedTopics : retained[u] # None}) \in Nat
  BY <1>2, <1>4, FS_Subset, FS_CardinalityType
<1>6. RetainedCapacity \in Nat /\ RetainedCapacity >= Cardinality(RetainedTopics)
  BY PublicationsAssumption
<1> QED
  BY <1>4, <1>5, <1>6

\* The queue after an event: it may have been dropped, but not from an empty one.
LEMMA Enqueues ==
    ASSUME NEW e \in {"baseline", "command"}, queue \in Seq({"baseline", "command"}),
           Enqueue(e)
    PROVE  /\ queue' \in Seq({"baseline", "command"})
           /\ BaselineQueued => BaselineQueued'
           /\ queue = <<>> /\ e = "baseline" => BaselineQueued'
<1>1. QueueLength \in Nat \ {0}
  BY PublicationsAssumption
<1>2. CASE queue' = queue /\ ~(Len(queue) < QueueLength)
  <2>1. queue = <<>> => Len(queue) = 0
    OBVIOUS
  <2> QED
    BY <1>1, <1>2, <2>1 DEF BaselineQueued
<1>3. CASE queue' = Append(queue, e)
  <2>1. /\ queue' \in Seq({"baseline", "command"}) /\ Len(queue') = Len(queue) + 1
        /\ \A i \in 1 .. Len(queue) : queue'[i] = queue[i]
        /\ queue'[Len(queue) + 1] = e
    BY <1>3, AppendProperties
  <2>2. DOMAIN queue = 1 .. Len(queue) /\ DOMAIN queue' = 1 .. Len(queue') /\ Len(queue) \in Nat
    BY <2>1
  <2> QED
    BY <2>1, <2>2 DEF BaselineQueued
<1> QED
  BY <1>2, <1>3 DEF Enqueue

---------------------------------------------------------------------------
(* Every step keeps the parts that do not speak of settled, and does with  *)
(* the parts that do what ModeSettles needs of it.                         *)

Steady == Types /\ TasksAgree /\ ClientsNeedBroker /\ Served /\ FaultKept

StatusUntold == task["status"].todo.topic = "mode"
ModeStep ==
    /\ TasksCurrent => TasksCurrent'
    /\ TasksCurrent /\ CopiesCurrent /\ CycleSent => CycleSent'
    /\ TasksCurrent /\ ModeTold => ModeTold'
    /\ TasksCurrent /\ StatusUntold
          => StatusUntold' \/ (task'["status"].todo = NoMessage /\ CycleSent')
    /\ task["status"].at = "snapshot" /\ task'["status"].at = "conditions" => StatusUntold'
    /\ task["status"].todo = NoMessage /\ task["status"].to # {} => task'["status"].todo = NoMessage

\* A task that is sending nothing thinks of something to say: nobody is affected.
LEMMA TalkKeeps ==
    ASSUME Steady, NEW k \in Tasks, UNCHANGED brokerVars, UNCHANGED <<world, left>>,
           queue' \in Seq({"baseline", "command"}),
           task' \in [Tasks -> TaskState], \A j \in Tasks : j # k => task'[j] = task[j],
           task[k].to = {}, task'[k].to = {},
           task[k].todo = NoMessage,
           \/ task'[k].todo = NoMessage
           \/ task'[k].todo = Say("mode", world.mode)
           \/ task'[k].todo.topic = "fault" /\ task'[k].todo.value # None,
           task'[k].at = "write" => task'[k].fault # None,
           task'[k].message = task[k].message \/ task'[k].message = NoMessage,
           task[k].at = "snapshot" /\ task'[k].at = "conditions" => task'[k].todo = Say("mode", world.mode)
    PROVE  Types' /\ TasksAgree' /\ ClientsNeedBroker' /\ Served' /\ ModeStep
<1>0. world.mode \in Nat
  BY DEF Steady, Types
<1>1. Types'
  BY DEF Steady, Types, brokerVars
<1>2. TasksAgree'
  BY <1>0, MessageFacts DEF Steady, TasksAgree, Types, RetainedTopics
<1>3. ClientsNeedBroker'
  BY DEF Steady, ClientsNeedBroker, brokerVars
<1>4. Served'
  BY DEF Steady, Served, UnderWay, Subscribed, brokerVars
<1>5. TasksCurrent => TasksCurrent'
  BY <1>0, MessageFacts DEF TasksCurrent, Current, RetainedTopics
<1>6. CycleSent => CycleSent'
  BY DEF CycleSent, Told, Telling, Subscribed, brokerVars, Tasks
<1>7. ModeTold => ModeTold'
  BY DEF ModeTold, Told, Current, Subscribed, brokerVars
<1>8. StatusUntold => k # "status"
  BY MessageFacts DEF StatusUntold
<1>9. "status" \in Tasks
  BY DEF Tasks
<1>10. task["status"].at = "snapshot" /\ task'["status"].at = "conditions" => StatusUntold'
  BY <1>0, <1>9, MessageFacts DEF StatusUntold, RetainedTopics
<1>11. StatusUntold => StatusUntold'
  BY <1>8, <1>9 DEF StatusUntold
<1>12. /\ task["status"].todo = NoMessage /\ task["status"].to # {}
       => task'["status"].todo = NoMessage
  BY <1>9
<1>13. ModeStep
  BY <1>5, <1>6, <1>7, <1>10, <1>11, <1>12 DEF ModeStep
<1> QED
  BY <1>1, <1>2, <1>3, <1>4, <1>13

LEMMA OperationalSnapshotKeeps ==
    ASSUME Steady, NEW k \in Tasks, PublishOperationalSnapshot(k)
    PROVE  Steady' /\ ModeStep
<1> DEFINE next == [task[k] EXCEPT !.at = "conditions", !.todo = Say("mode", world.mode)]
<1>1. /\ task[k] \in TaskState /\ task \in [Tasks -> TaskState] /\ world.mode \in Nat
      /\ queue \in Seq({"baseline", "command"})
  BY DEF Steady, Types
<1>2. Say("mode", world.mode) \in Messages
  BY <1>1, MessageFacts DEF RetainedTopics
<1>3. /\ next \in TaskState /\ next.at = "conditions" /\ next.todo = Say("mode", world.mode)
      /\ next.to = task[k].to /\ next.message = task[k].message
  BY <1>1, <1>2 DEF TaskState
<1>4. /\ Continue(k, next) /\ task[k].at = "snapshot" /\ task[k].todo = NoMessage
      /\ task[k].to = {} /\ UNCHANGED <<world, cache, queue, left>> /\ UNCHANGED brokerVars
  BY DEF PublishOperationalSnapshot, Ready, Goto
<1> HIDE DEF next
<1>5. /\ task' \in [Tasks -> TaskState] /\ task'[k] = next
      /\ \A j \in Tasks : j # k => task'[j] = task[j]
  BY <1>1, <1>3, <1>4, Continues
<1>6. FaultKept'
  BY <1>3, <1>4, <1>5, MessageFacts
     DEF Steady, FaultKept, Untouched, BaselineQueued, FaultComing, brokerVars
<1> QED
  BY <1>1, <1>3, <1>4, <1>5, <1>6, TalkKeeps DEF Steady

LEMMA ConditionsKeeps ==
    ASSUME Steady, NEW k \in Tasks, PublishConditions(k)
    PROVE  Steady' /\ ModeStep
<1>1. /\ task[k] \in TaskState /\ task \in [Tasks -> TaskState]
      /\ queue \in Seq({"baseline", "command"})
  BY DEF Steady, Types
<1>2. /\ task[k].at = "conditions" /\ task[k].todo = NoMessage
      /\ task[k].to = {} /\ UNCHANGED <<world, cache, queue, left>> /\ UNCHANGED brokerVars
  BY DEF PublishConditions, Ready
<1>3. CASE cache # None /\ Goto(k, "done", NoMessage)
  <2> DEFINE next == [task[k] EXCEPT !.at = "done", !.todo = NoMessage]
  <2>1. /\ next \in TaskState /\ next.at = "done" /\ next.todo = NoMessage
        /\ next.to = task[k].to /\ next.message = task[k].message
    BY <1>1, MessageFacts DEF TaskState
  <2>2. Continue(k, next)
    BY <1>3 DEF Goto
  <2> HIDE DEF next
  <2>3. /\ task' \in [Tasks -> TaskState] /\ task'[k] \in {next, IdleTask}
        /\ \A j \in Tasks : j # k => task'[j] = task[j]
    BY <1>1, <2>1, <2>2, Continues
  <2>4. FaultKept'
    BY <1>2, <1>3, <2>3, MessageFacts
       DEF Steady, FaultKept, Untouched, BaselineQueued, FaultComing, brokerVars
  <2> QED
    BY <1>1, <1>2, <2>1, <2>3, <2>4, TalkKeeps, IdleFacts DEF Steady
<1>4. ASSUME NEW fault \in {Clear, Conflict},
             task' = [task EXCEPT ![k].at = "write", ![k].fault = fault]
      PROVE  Steady' /\ ModeStep
  <2>1. fault # None /\ fault \in {None, Clear, Conflict}
    BY DEF None, Clear, Conflict
  <2>2. /\ task' \in [Tasks -> TaskState] /\ \A j \in Tasks : j # k => task'[j] = task[j]
        /\ task'[k].at = "write" /\ task'[k].fault = fault /\ task'[k].todo = task[k].todo
        /\ task'[k].to = task[k].to /\ task'[k].message = task[k].message
    BY <1>1, <1>4, <2>1 DEF TaskState
  <2>3. FaultKept'
    BY <2>2 DEF FaultKept, FaultComing
  <2> QED
    BY <1>1, <1>2, <2>1, <2>2, <2>3, TalkKeeps DEF Steady
<1>5. None # Clear /\ None # Conflict
  BY DEF None, Clear, Conflict
<1> QED
  BY <1>3, <1>4, <1>5 DEF PublishConditions

LEMMA OnChangeKeeps ==
    ASSUME Steady, NEW k \in Tasks, PublishOnChange(k)
    PROVE  Steady' /\ ModeStep
<1> DEFINE next == [task[k] EXCEPT !.at = "done", !.todo = Say("fault", task[k].fault)]
<1>1. /\ task[k] \in TaskState /\ task \in [Tasks -> TaskState]
      /\ queue \in Seq({"baseline", "command"})
  BY DEF Steady, Types
<1>2. task[k].fault \in Nat
  BY <1>1 DEF TaskState, None, Clear, Conflict
<1>3. Say("fault", task[k].fault) \in Messages /\ Say("fault", task[k].fault) # NoMessage
  BY <1>2, MessageFacts DEF RetainedTopics
<1>4. /\ next \in TaskState /\ next.at = "done" /\ next.todo = Say("fault", task[k].fault)
      /\ next.to = task[k].to /\ next.message = task[k].message
  BY <1>1, <1>3 DEF TaskState
<1>5. /\ Continue(k, next) /\ task[k].at = "write" /\ task[k].todo = NoMessage
      /\ task[k].to = {} /\ UNCHANGED <<world, queue, left>> /\ UNCHANGED brokerVars
  BY DEF PublishOnChange, Ready, Goto
<1> HIDE DEF next
<1>6. /\ task' \in [Tasks -> TaskState] /\ task'[k] = next
      /\ \A j \in Tasks : j # k => task'[j] = task[j]
  BY <1>1, <1>3, <1>4, <1>5, Continues
<1>7. task'[k].todo.topic = "fault" /\ task'[k].todo.value # None
  BY <1>2, <1>4, <1>5, <1>6, MessageFacts DEF Steady, TasksAgree, RetainedTopics
<1>8. FaultKept'
  BY <1>7 DEF FaultKept, FaultComing
<1> QED
  BY <1>1, <1>4, <1>5, <1>6, <1>7, <1>8, TalkKeeps DEF Steady

\* An idle task begins a snapshot.
LEMMA SnapshotBegins ==
    ASSUME Steady, NEW k \in Tasks, Idle(k), Goto(k, "snapshot", NoMessage)
    PROVE  /\ task' \in [Tasks -> TaskState] /\ \A j \in Tasks : j # k => task'[j] = task[j]
           /\ task[k].to = {} /\ task[k].todo = NoMessage /\ task[k].at = "idle"
           /\ task'[k].to = {} /\ task'[k].todo = NoMessage /\ task'[k].at = "snapshot"
           /\ task'[k].message = task[k].message
<1> DEFINE next == [task[k] EXCEPT !.at = "snapshot", !.todo = NoMessage]
<1>1. task[k] \in TaskState /\ task \in [Tasks -> TaskState]
  BY DEF Steady, Types
<1>2. /\ next \in TaskState /\ next.at = "snapshot" /\ next.todo = NoMessage
      /\ next.to = task[k].to /\ next.message = task[k].message
  BY <1>1, MessageFacts DEF TaskState
<1>3. Continue(k, next)
  BY DEF Goto
<1> HIDE DEF next
<1>4. /\ task' \in [Tasks -> TaskState] /\ \A j \in Tasks : j # k => task'[j] = task[j]
      /\ task'[k] = next
  BY <1>1, <1>2, <1>3, Continues
<1> QED
  BY <1>2, <1>4, IdleFacts DEF Idle

LEMMA QueueTails ==
    ASSUME queue \in Seq({"baseline", "command"}), queue # <<>>, queue' = Tail(queue)
    PROVE  /\ queue' \in Seq({"baseline", "command"})
           /\ BaselineQueued /\ Head(queue) # "baseline" => BaselineQueued'
<1>1. /\ queue' \in Seq({"baseline", "command"}) /\ Len(queue') = Len(queue) - 1
      /\ \A i \in 1 .. Len(queue') : queue'[i] = queue[i + 1]
      /\ Head(queue) = queue[1]
  BY HeadTailProperties
<1>2. DOMAIN queue = 1 .. Len(queue) /\ DOMAIN queue' = 1 .. Len(queue')
      /\ Len(queue) \in Nat /\ Len(queue') \in Nat
  BY <1>1
<1>3. ASSUME NEW i \in DOMAIN queue, queue[i] = "baseline", Head(queue) # "baseline"
      PROVE  BaselineQueued'
  <2>1. i - 1 \in DOMAIN queue' /\ i = (i - 1) + 1
    BY <1>1, <1>2, <1>3
  <2> QED
    BY <1>1, <1>2, <1>3, <2>1 DEF BaselineQueued
<1> QED
  BY <1>1, <1>3 DEF BaselineQueued

LEMMA BaselineKeeps ==
    ASSUME Steady, PublishBaseline
    PROVE  Steady' /\ ModeStep
<1>1. "runtime" \in Tasks /\ queue \in Seq({"baseline", "command"})
  BY DEF Steady, Types, Tasks
<1>2. /\ Idle("runtime") /\ Goto("runtime", "snapshot", NoMessage)
      /\ queue # <<>> /\ queue' = Tail(queue) /\ cache' = None
      /\ UNCHANGED <<world, left>> /\ UNCHANGED brokerVars
  BY DEF PublishBaseline
<1>3. queue' \in Seq({"baseline", "command"})
  BY <1>1, <1>2, QueueTails
<1>4. /\ task' \in [Tasks -> TaskState] /\ \A j \in Tasks : j # "runtime" => task'[j] = task[j]
      /\ task["runtime"].to = {} /\ task["runtime"].todo = NoMessage
      /\ task["runtime"].at = "idle"
      /\ task'["runtime"].to = {} /\ task'["runtime"].todo = NoMessage
      /\ task'["runtime"].at = "snapshot" /\ task'["runtime"].message = task["runtime"].message
  BY <1>1, <1>2, SnapshotBegins
<1>5. FaultKept'
  BY <1>1, <1>2, <1>4 DEF FaultKept, FaultComing
<1> QED
  BY <1>1, <1>2, <1>3, <1>4, <1>5, TalkKeeps DEF Steady

LEMMA HandleCommandKeeps ==
    ASSUME Steady, HandleCommand
    PROVE  Steady' /\ ModeStep
<1>1. "runtime" \in Tasks /\ queue \in Seq({"baseline", "command"})
      /\ task \in [Tasks -> TaskState]
  BY DEF Steady, Types, Tasks
<1>2. /\ Idle("runtime") /\ (UNCHANGED task \/ Goto("runtime", "snapshot", NoMessage))
      /\ queue # <<>> /\ queue' = Tail(queue) /\ Head(queue) = "command"
      /\ UNCHANGED <<world, cache, left>> /\ UNCHANGED brokerVars
  BY DEF HandleCommand
<1>3. queue' \in Seq({"baseline", "command"}) /\ (BaselineQueued => BaselineQueued')
  BY <1>1, <1>2, QueueTails
<1>4. /\ task' \in [Tasks -> TaskState] /\ \A j \in Tasks : j # "runtime" => task'[j] = task[j]
      /\ task["runtime"].to = {} /\ task["runtime"].todo = NoMessage
      /\ task["runtime"].at = "idle"
      /\ task'["runtime"].to = {} /\ task'["runtime"].todo = NoMessage
      /\ task'["runtime"].at \in {"idle", "snapshot"}
      /\ task'["runtime"].message = task["runtime"].message
  BY <1>1, <1>2, SnapshotBegins, IdleFacts DEF Idle
<1>5. FaultKept'
  BY <1>1, <1>2, <1>3, <1>4, MessageFacts
     DEF Steady, FaultKept, FaultComing, Untouched, brokerVars
<1> QED
  BY <1>1, <1>2, <1>3, <1>4, <1>5, TalkKeeps DEF Steady

LEMMA TickKeeps ==
    ASSUME Steady, Tick
    PROVE  Steady' /\ ModeStep
<1>1. "status" \in Tasks /\ queue \in Seq({"baseline", "command"})
  BY DEF Steady, Types, Tasks
<1>2. /\ Idle("status") /\ Goto("status", "snapshot", NoMessage)
      /\ UNCHANGED <<world, cache, queue, left>> /\ UNCHANGED brokerVars
  BY DEF Tick
<1>3. /\ task' \in [Tasks -> TaskState] /\ \A j \in Tasks : j # "status" => task'[j] = task[j]
      /\ task["status"].to = {} /\ task["status"].todo = NoMessage
      /\ task["status"].at = "idle"
      /\ task'["status"].to = {} /\ task'["status"].todo = NoMessage
      /\ task'["status"].at = "snapshot" /\ task'["status"].message = task["status"].message
  BY <1>1, <1>2, SnapshotBegins
<1>4. FaultKept'
  BY <1>1, <1>2, <1>3, MessageFacts
     DEF Steady, FaultKept, FaultComing, Untouched, BaselineQueued, brokerVars
<1> QED
  BY <1>1, <1>2, <1>3, <1>4, TalkKeeps DEF Steady

---------------------------------------------------------------------------
(* Storing and sending.                                                    *)

LEMMA PublishKeeps ==
    ASSUME Steady, NEW k \in Tasks, Publish(k)
    PROVE  Steady' /\ ModeStep
<1> DEFINE m == task[k].todo
           to == IF running THEN Collect(m.topic) ELSE {}
           next == [task[k] EXCEPT !.todo = NoMessage, !.to = to,
                                   !.message = IF to = {} THEN NoMessage ELSE m]
<1>1. /\ task[k] \in TaskState /\ task \in [Tasks -> TaskState] /\ m \in Messages
      /\ retained \in [RetainedTopics -> Nat] /\ running \in BOOLEAN
      /\ got \in [Clients -> SUBSET RetainedTopics]
  BY DEF Steady, Types, TaskState
<1>2. /\ task[k].to = {} /\ m # NoMessage /\ m.topic \in RetainedTopics /\ m.value \in Nat
  BY <1>1, MessageFacts DEF Publish
<1>3. HasSlot(m.topic)
  BY <1>1, <1>2, EveryTopicHasSlot
<1>4. /\ retained' = IF running THEN StoreRetained(m) ELSE retained
      /\ got' = IF retained' = retained THEN got ELSE [c \in Clients |-> got[c] \ {m.topic}]
      /\ Continue(k, next)
      /\ UNCHANGED <<world, running, started, client, cache, queue, left>>
  BY <1>3 DEF Publish
<1>5. to \in SUBSET Clients
  BY DEF Collect
<1>6. PICK sent : sent = to
  OBVIOUS
<1>7. PICK said \in Messages : said = IF to = {} THEN NoMessage ELSE m
  BY <1>1, MessageFacts
<1>8. /\ next \in TaskState /\ next.todo = NoMessage /\ next.to = sent /\ next.message = said
      /\ next.at = task[k].at /\ next.fault = task[k].fault
  <2>1. next = [task[k] EXCEPT !.todo = NoMessage, !.to = sent, !.message = said]
    BY <1>6, <1>7
  <2>2. sent \in SUBSET Clients
    BY <1>5, <1>6
  <2> HIDE DEF next, to, m
  <2> QED
    BY <1>1, <1>7, <2>1, <2>2, MessageFacts DEF TaskState
<1>9. /\ running => retained'[m.topic] = m.value
      /\ \A t \in RetainedTopics : t # m.topic \/ ~running => retained'[t] = retained[t]
      /\ retained' \in [RetainedTopics -> Nat]
  BY <1>1, <1>2, <1>4 DEF StoreRetained
<1>10. /\ got' \in [Clients -> SUBSET RetainedTopics]
       /\ \A c \in Clients, t \in RetainedTopics : t # m.topic => (t \in got'[c] <=> t \in got[c])
       /\ ~running => got' = got
  BY <1>1, <1>4
<1>11. \A c \in Clients, t \in RetainedTopics : Subscribed(c, t)' <=> Subscribed(c, t)
  BY <1>4 DEF Subscribed
<1>12. /\ \A c \in Clients : running /\ Subscribed(c, m.topic) => c \in sent
       /\ sent # {} => said = m /\ running
  BY <1>6, <1>7 DEF Collect
<1> HIDE DEF next, to
<1>13. /\ task' \in [Tasks -> TaskState] /\ \A j \in Tasks : j # k => task'[j] = task[j]
       /\ task'[k].todo = NoMessage /\ task'[k].to = sent
       /\ sent # {} => task'[k].message = m
       /\ task'[k].message \in {NoMessage, m}
       /\ task'[k] = next \/ (task'[k] = IdleTask /\ next.at = "done")
  <2>1. said = m \/ said = NoMessage
    BY <1>7
  <2>2. /\ task' \in [Tasks -> TaskState] /\ \A j \in Tasks : j # k => task'[j] = task[j]
        /\ \/ task'[k] = next
           \/ next.at = "done" /\ next.to = {} /\ task'[k] = IdleTask
    BY <1>1, <1>4, <1>8, Continues
  <2>3. CASE task'[k] = next
    BY <1>8, <1>12, <2>1, <2>2, <2>3
  <2>4. CASE next.at = "done" /\ next.to = {} /\ task'[k] = IdleTask
    BY <1>8, <2>2, <2>4, IdleFacts
  <2> QED
    BY <2>2, <2>3, <2>4
<1> HIDE DEF m
<1>14. Types'
  BY <1>4, <1>9, <1>10, <1>13 DEF Steady, Types
<1>15. TasksAgree'
  BY <1>2, <1>8, <1>13, IdleFacts, MessageFacts DEF Steady, TasksAgree
<1>16. ClientsNeedBroker'
  BY <1>4 DEF Steady, ClientsNeedBroker
<1>17. Served'
  <2> SUFFICES ASSUME NEW c \in Clients, NEW t \in RetainedTopics,
                      Subscribed(c, t)', t \notin client[c].replay, retained'[t] # None,
                      ~(client[c].copy.topic = t /\ client[c].copy.value = retained'[t])
               PROVE  t \in got'[c] \/ UnderWay(c, t)'
    BY <1>4 DEF Served
  <2>1. Subscribed(c, t)
    BY <1>11
  <2>2. CASE running /\ t = m.topic
    BY <1>9, <1>12, <1>13, <2>1, <2>2 DEF UnderWay
  <2>3. CASE ~(running /\ t = m.topic)
    <3>1. retained'[t] = retained[t] /\ (t \in got'[c] <=> t \in got[c])
      BY <1>9, <1>10, <2>3
    <3>2. UnderWay(c, t) => UnderWay(c, t)'
      BY <1>2, <1>13, <3>1 DEF UnderWay
    <3> QED
      BY <2>1, <3>1, <3>2 DEF Steady, Served
  <2> QED
    BY <2>2, <2>3
<1>18. FaultKept'
  <2>1. "fault" \in RetainedTopics
    BY DEF RetainedTopics
  <2>2. SUFFICES ASSUME running, FaultComing
                 PROVE  FaultComing'
    BY <1>4 DEF Steady, FaultKept, Untouched, BaselineQueued
  <2>3. CASE m.topic = "fault"
    BY <1>9, <2>2, <2>3 DEF Steady, TasksAgree, FaultComing, m
  <2>4. CASE m.topic # "fault"
    <3>1. retained'["fault"] = retained["fault"]
      BY <1>9, <2>1, <2>4
    <3>2. task[k].todo.topic # "fault"
      BY <2>4 DEF m
    <3>3. task'[k].at = task[k].at \/ task[k].at = "done"
      BY <1>8, <1>13
    <3> QED
      BY <1>4, <1>13, <2>2, <3>1, <3>2, <3>3 DEF FaultComing
  <2> QED
    BY <2>3, <2>4
<1>19. TasksCurrent => TasksCurrent'
  BY <1>4, <1>13, MessageFacts DEF TasksCurrent, Current, m
<1>20. "mode" \in RetainedTopics /\ "status" \in Tasks
  BY DEF RetainedTopics, Tasks
<1>21. ASSUME TasksCurrent, running
       PROVE  /\ m.topic = "mode" => retained'["mode"] = world.mode
              /\ m.topic # "mode" => retained'["mode"] = retained["mode"]
  <2>1. m.topic = "mode" => m.value = world.mode
    BY <1>21 DEF TasksCurrent, Current, m
  <2> QED
    BY <1>9, <1>20, <1>21, <2>1
<1>22. \A c \in Clients : Told(c)' <=> Told(c)
  BY <1>4, <1>11, <1>20 DEF Told
<1>23. TasksCurrent /\ CycleSent => CycleSent'
  <2>1. \A c \in Clients : Telling(c) => k # "status" /\ Telling(c)'
    BY <1>2, <1>13, <1>20 DEF Telling
  <2> QED
    BY <1>4, <1>21, <1>22, <2>1 DEF CycleSent
<1>24. TasksCurrent /\ ModeTold => ModeTold'
  BY <1>4, <1>21, <1>22 DEF ModeTold, Current
<1>25. TasksCurrent /\ StatusUntold
          => StatusUntold' \/ (task'["status"].todo = NoMessage /\ CycleSent')
  <2>1. CASE k # "status"
    BY <1>13, <1>20, <2>1 DEF StatusUntold
  <2>2. CASE k = "status"
    <3> SUFFICES ASSUME TasksCurrent, m.topic = "mode", running
                 PROVE  CycleSent'
      <4>1. StatusUntold <=> m.topic = "mode"
        BY <2>2 DEF StatusUntold, m
      <4>2. ~running => CycleSent'
        BY <1>4 DEF CycleSent
      <4> QED
        BY <1>13, <2>2, <4>1, <4>2
    <3>1. retained'["mode"] = world.mode
      BY <1>21
    <3>2. ASSUME NEW c \in Clients
          PROVE  Told(c)' \/ Telling(c)'
      <4>1. Subscribed(c, "mode") => Telling(c)'
        BY <1>12, <1>13, <2>2 DEF Telling
      <4>2. ~Subscribed(c, "mode") => Told(c)'
        BY <1>11, <1>20 DEF Told
      <4> QED
        BY <4>1, <4>2
    <3> QED
      BY <3>1, <3>2, <1>4 DEF CycleSent
  <2> QED
    BY <2>1, <2>2
<1>26. task["status"].at = "snapshot" /\ task'["status"].at = "conditions" => StatusUntold'
  BY <1>8, <1>13, <1>20, IdleFacts
<1>27. /\ task["status"].todo = NoMessage /\ task["status"].to # {}
       => task'["status"].todo = NoMessage
  BY <1>13, <1>20
<1> QED
  BY <1>14, <1>15, <1>16, <1>17, <1>18, <1>19, <1>23, <1>24, <1>25, <1>26, <1>27
     DEF Steady, ModeStep

\* What a send does to the receiver, and that it does nothing to the others.
LEMMA Sends ==
    ASSUME Types, NEW c \in Clients, NEW m \in Messages, m # NoMessage, NEW replayed \in BOOLEAN,
           Sent(c, m, replayed)
    PROVE  /\ client' \in [Clients -> ClientState] /\ got' \in [Clients -> SUBSET RetainedTopics]
           /\ \A d \in Clients :
                /\ client'[d].up = client[d].up /\ client'[d].subs = client[d].subs
                /\ client'[d].replay = client[d].replay /\ got[d] \subseteq got'[d]
                /\ d # c \/ ~replayed \/ ~client[c].up => client'[d].copy = client[d].copy
                /\ d # c \/ m.topic # "mode" => client'[d].mode = client[d].mode
           /\ client[c].up => /\ replayed => client'[c].copy = NoMessage
                              /\ m.topic = "mode" => client'[c].mode = m.value
                              /\ retained[m.topic] = m.value => m.topic \in got'[c]
<1>1. client[c] \in ClientState /\ client \in [Clients -> ClientState] /\ m.value \in Nat
      /\ got \in [Clients -> SUBSET RetainedTopics] /\ m.topic \in RetainedTopics
  BY MessageFacts DEF Types
<1>2. CASE ~client[c].up
  BY <1>1, <1>2 DEF Sent
<1>3. CASE client[c].up
  <2>1. PICK copy \in Messages : copy = IF replayed THEN NoMessage ELSE client[c].copy
    BY <1>1, MessageFacts DEF ClientState
  <2>2. PICK mode \in Nat : mode = IF m.topic = "mode" THEN m.value ELSE client[c].mode
    BY <1>1 DEF ClientState
  <2> DEFINE told == [client[c] EXCEPT !.copy = copy, !.mode = mode]
  <2>3. /\ told \in ClientState /\ told.up = client[c].up /\ told.subs = client[c].subs
        /\ told.replay = client[c].replay /\ told.copy = copy /\ told.mode = mode
    BY <1>1 DEF ClientState
  <2>4. client' = [client EXCEPT ![c] = told]
    BY <1>1, <1>3, <2>1, <2>2 DEF Sent
  <2> HIDE DEF told
  <2>5. /\ client' \in [Clients -> ClientState] /\ client'[c] = told
        /\ \A d \in Clients : d # c => client'[d] = client[d]
    BY <1>1, <2>3, <2>4
  <2>6. /\ got' \in [Clients -> SUBSET RetainedTopics] /\ \A d \in Clients : got[d] \subseteq got'[d]
        /\ retained[m.topic] = m.value => m.topic \in got'[c]
    BY <1>1, <1>3 DEF Sent
  <2> QED
    BY <1>3, <2>1, <2>2, <2>3, <2>5, <2>6
<1> QED
  BY <1>2, <1>3

LEMMA DeliverKeeps ==
    ASSUME Steady, NEW k \in Tasks, Deliver(k)
    PROVE  Steady' /\ ModeStep
<1>1. PICK c \in task[k].to :
        /\ Continue(k, [task[k] EXCEPT !.to = @ \ {c},
                            !.message = IF task[k].to = {c} THEN NoMessage ELSE @])
        /\ Sent(c, task[k].message, FALSE)
        /\ UNCHANGED <<world, running, started, retained, cache, queue, left>>
  BY DEF Deliver
<1>2. /\ task[k] \in TaskState /\ task \in [Tasks -> TaskState] /\ c \in Clients
      /\ task[k].message \in Messages /\ task[k].message # NoMessage
  BY DEF Steady, Types, TasksAgree, TaskState
<1>3. PICK m \in Messages : m = task[k].message
  BY <1>2
<1>4. PICK said \in Messages : said = IF task[k].to = {c} THEN NoMessage ELSE m
  BY <1>3, MessageFacts
<1> DEFINE next == [task[k] EXCEPT !.to = task[k].to \ {c}, !.message = said]
<1>5. /\ next \in TaskState /\ next.to = task[k].to \ {c} /\ next.message = said
      /\ next.at = task[k].at /\ next.todo = task[k].todo /\ next.fault = task[k].fault
  BY <1>2 DEF TaskState
<1>6. Continue(k, next)
  BY <1>1, <1>2, <1>3, <1>4 DEF TaskState
<1> HIDE DEF next
<1>7. /\ task' \in [Tasks -> TaskState] /\ \A j \in Tasks : j # k => task'[j] = task[j]
      /\ task'[k].to = task[k].to \ {c} /\ task'[k].todo = task[k].todo
      /\ task'[k].to # {} => task'[k].message = m
      /\ task'[k].message \in {m, NoMessage}
      /\ task'[k].at = task[k].at \/ (task[k].at = "done" /\ task'[k].at = "idle")
      /\ task'[k].at = "write" => task'[k].fault = task[k].fault
  <2>1. /\ task' \in [Tasks -> TaskState] /\ \A j \in Tasks : j # k => task'[j] = task[j]
        /\ \/ task'[k] = next
           \/ /\ next.at = "done" /\ next.todo = NoMessage /\ next.to = {}
              /\ task'[k] = IdleTask
    BY <1>2, <1>5, <1>6, Continues
  <2>2. task[k].to \ {c} # {} => said = m
    BY <1>4
  <2> QED
    BY <1>4, <1>5, <2>1, <2>2, IdleFacts
<1>8. Types
  BY DEF Steady
<1>9. /\ client' \in [Clients -> ClientState] /\ got' \in [Clients -> SUBSET RetainedTopics]
      /\ \A d \in Clients :
            /\ client'[d].up = client[d].up /\ client'[d].subs = client[d].subs
            /\ client'[d].replay = client[d].replay /\ got[d] \subseteq got'[d]
            /\ client'[d].copy = client[d].copy
            /\ d # c \/ m.topic # "mode" => client'[d].mode = client[d].mode
      /\ client[c].up => /\ m.topic = "mode" => client'[c].mode = m.value
                         /\ retained[m.topic] = m.value => m.topic \in got'[c]
  <2>1. Sent(c, m, FALSE) /\ m # NoMessage
    BY <1>1, <1>2, <1>3
  <2>2. PICK replayed \in BOOLEAN : ~replayed
    OBVIOUS
  <2>3. Sent(c, m, replayed)
    BY <2>1, <2>2 DEF Sent
  <2>4. /\ client' \in [Clients -> ClientState] /\ got' \in [Clients -> SUBSET RetainedTopics]
        /\ \A d \in Clients :
             /\ client'[d].up = client[d].up /\ client'[d].subs = client[d].subs
             /\ client'[d].replay = client[d].replay /\ got[d] \subseteq got'[d]
             /\ d # c \/ ~replayed \/ ~client[c].up => client'[d].copy = client[d].copy
             /\ d # c \/ m.topic # "mode" => client'[d].mode = client[d].mode
        /\ client[c].up => /\ replayed => client'[c].copy = NoMessage
                           /\ m.topic = "mode" => client'[c].mode = m.value
                           /\ retained[m.topic] = m.value => m.topic \in got'[c]
    BY <1>2, <1>8, <2>1, <2>3, Sends
  <2> QED
    BY <2>2, <2>4, Zenon
<1>10. \A d \in Clients, t \in RetainedTopics : Subscribed(d, t)' <=> Subscribed(d, t)
  BY <1>9 DEF Subscribed
<1>11. Types'
  BY <1>1, <1>7, <1>8, <1>9 DEF Types
<1>12. TasksAgree'
  BY <1>2, <1>3, <1>7 DEF Steady, TasksAgree
<1>13. ClientsNeedBroker'
  BY <1>1, <1>9 DEF Steady, ClientsNeedBroker
<1>14. Served'
  <2> SUFFICES ASSUME NEW d \in Clients, NEW t \in RetainedTopics,
                      Subscribed(d, t)', t \notin client'[d].replay, retained'[t] # None,
                      ~(client'[d].copy.topic = t /\ client'[d].copy.value = retained'[t])
               PROVE  t \in got'[d] \/ UnderWay(d, t)'
    BY DEF Served
  <2>1. Subscribed(d, t) /\ client[d].up
    BY <1>10 DEF Subscribed
  <2>2. t \in got[d] \/ UnderWay(d, t)
    BY <1>1, <1>9, <2>1 DEF Steady, Served
  <2>3. ASSUME NEW j \in Tasks, d \in task[j].to, task[j].message.topic = t,
               task[j].message.value = retained[t]
        PROVE  t \in got'[d] \/ UnderWay(d, t)'
    <3>1. CASE j # k
      BY <1>1, <1>7, <2>3, <3>1 DEF UnderWay
    <3>2. CASE j = k /\ d # c
      <4>1. d \in task'[k].to /\ task'[k].message = m
        BY <1>7, <2>3, <3>2
      <4> QED
        BY <1>1, <1>3, <2>3, <3>2, <4>1 DEF UnderWay
    <3>3. CASE j = k /\ d = c
      BY <1>3, <1>9, <2>1, <2>3, <3>3
    <3> QED
      BY <3>1, <3>2, <3>3
  <2> QED
    BY <1>9, <2>2, <2>3 DEF UnderWay
<1>15. FaultKept'
  BY <1>1, <1>7, <1>9 DEF Steady, FaultKept, Untouched, BaselineQueued, FaultComing
<1>16. TasksCurrent => TasksCurrent'
  BY <1>1, <1>3, <1>7, MessageFacts DEF TasksCurrent, Current
<1>17. "mode" \in RetainedTopics /\ "status" \in Tasks
  BY DEF RetainedTopics, Tasks
<1>18. ASSUME TasksCurrent, NEW d \in Clients
       PROVE  Told(d) => Told(d)'
  <2>1. d = c /\ m.topic = "mode" /\ client[c].up => client'[d].mode = world.mode
    BY <1>3, <1>9, <1>18 DEF TasksCurrent, Current
  <2>2. d # c \/ m.topic # "mode" => client'[d].mode = client[d].mode
    BY <1>9
  <2>3. Subscribed(d, "mode") => client[d].up
    BY DEF Subscribed
  <2> QED
    BY <1>1, <1>9, <1>10, <1>17, <2>1, <2>2, <2>3 DEF Told
<1>19. ASSUME TasksCurrent, NEW d \in Clients, Telling(d)
       PROVE  Told(d)' \/ Telling(d)'
  <2>1. CASE k = "status" /\ d = c
    <3>1. m.topic = "mode" /\ m.value = world.mode
      BY <1>3, <1>19, <2>1 DEF Telling, TasksCurrent, Current, Tasks
    <3>2. client[c].up => client'[c].mode = world.mode
      BY <1>9, <3>1
    <3>3. Subscribed(d, "mode") => client[d].up
      BY DEF Subscribed
    <3> QED
      BY <1>1, <1>10, <1>17, <2>1, <3>2, <3>3 DEF Told
  <2>2. CASE k = "status" /\ d # c
    BY <1>3, <1>7, <1>19, <2>2 DEF Telling
  <2>3. CASE k # "status"
    BY <1>7, <1>17, <1>19, <2>3 DEF Telling
  <2> QED
    BY <2>1, <2>2, <2>3
<1>20. TasksCurrent /\ CycleSent => CycleSent'
  BY <1>1, <1>18, <1>19 DEF CycleSent
<1>21. TasksCurrent /\ ModeTold => ModeTold'
  BY <1>1, <1>9, <1>18 DEF ModeTold, Current
<1>22. StatusUntold => StatusUntold'
  BY <1>7, <1>17 DEF StatusUntold
<1>23. ~(task["status"].at = "snapshot" /\ task'["status"].at = "conditions")
  BY <1>7, <1>17
<1>24. task["status"].todo = NoMessage => task'["status"].todo = NoMessage
  BY <1>7, <1>17
<1>25. ModeStep
  BY <1>16, <1>20, <1>21, <1>22, <1>23, <1>24 DEF ModeStep
<1> QED
  BY <1>11, <1>12, <1>13, <1>14, <1>15, <1>25 DEF Steady

---------------------------------------------------------------------------
(* Clients.                                                                *)

\* A step of clients that leaves broker and tasks alone, and of each client
\* either what it is subscribed to, or nobody subscribed.
LEMMA ClientStepKeeps ==
    ASSUME Steady, UNCHANGED <<world, running, started, retained, cache, task>>,
           client' \in [Clients -> ClientState], got' \in [Clients -> SUBSET RetainedTopics],
           left' \in [events : Nat, connects : Nat, starts : Nat],
           queue' \in Seq({"baseline", "command"}),
           ClientsNeedBroker', FaultKept',
           \A c \in Clients, t \in RetainedTopics :
               /\ Subscribed(c, t)' /\ t \notin client'[c].replay /\ retained[t] # None
               /\ ~(client'[c].copy.topic = t /\ client'[c].copy.value = retained[t])
               => t \in got'[c] \/ UnderWay(c, t),
           \A c \in Clients :
               Current(client[c].copy) /\ Told(c) /\ retained["mode"] = world.mode
               => Current(client[c].copy)' /\ Told(c)'
    PROVE  Steady' /\ ModeStep
<1>1. Types' /\ TasksAgree'
  BY DEF Steady, Types, TasksAgree
<1>2. Served'
  BY DEF Served, UnderWay
<1>3. ModeTold => ModeTold'
  BY DEF ModeTold, Current
<1>4. CopiesCurrent /\ CycleSent => CycleSent'
  BY DEF CopiesCurrent, CycleSent, Telling
<1>5. ModeStep
  BY <1>3, <1>4 DEF ModeStep, TasksCurrent, Current, StatusUntold
<1> QED
  BY <1>1, <1>2, <1>5 DEF Steady

\* A client that has no subscription asks nothing of the others.
LEMMA ConnectKeeps ==
    ASSUME Steady, NEW c \in Clients, Connect(c)
    PROVE  Steady' /\ ModeStep
<1> DEFINE new == [Unconnected EXCEPT !.up = TRUE]
<1>1. /\ running /\ client' = [client EXCEPT ![c] = new] /\ got' = [got EXCEPT ![c] = {}]
      /\ Enqueue("baseline") /\ left.connects > 0
      /\ left' = [left EXCEPT !.connects = @ - 1]
      /\ UNCHANGED <<world, running, started, retained, cache, task>>
  BY DEF Connect
<1>2. Types /\ new \in ClientState /\ new.subs = {} /\ new.copy = NoMessage
  BY UnconnectedFacts DEF Steady
<1> HIDE DEF new
<1>3. /\ client' \in [Clients -> ClientState] /\ client'[c] = new
      /\ \A d \in Clients : d # c => client'[d] = client[d] /\ got'[d] = got[d]
      /\ got' \in [Clients -> SUBSET RetainedTopics]
  BY <1>1, <1>2 DEF Types
<1>4. left' \in [events : Nat, connects : Nat, starts : Nat]
  BY <1>1, <1>2 DEF Types
<1>5. /\ queue' \in Seq({"baseline", "command"}) /\ (BaselineQueued => BaselineQueued')
      /\ queue = <<>> => BaselineQueued'
  BY <1>1, <1>2, Enqueues DEF Types
<1>6. ClientsNeedBroker'
  BY <1>1 DEF ClientsNeedBroker
<1>7. FaultKept'
  BY <1>1, <1>5 DEF Steady, FaultKept, Untouched, FaultComing
<1>8. \A t \in RetainedTopics : ~Subscribed(c, t)'
  BY <1>2, <1>3 DEF Subscribed
<1>9. \A d \in Clients, t \in RetainedTopics :
         /\ Subscribed(d, t)' /\ t \notin client'[d].replay /\ retained[t] # None
         /\ ~(client'[d].copy.topic = t /\ client'[d].copy.value = retained[t])
         => t \in got'[d] \/ UnderWay(d, t)
  BY <1>3, <1>8 DEF Steady, Served, Subscribed
<1>10. \A d \in Clients :
         Current(client[d].copy) /\ Told(d) /\ retained["mode"] = world.mode
         => Current(client[d].copy)' /\ Told(d)'
  BY <1>1, <1>2, <1>3, <1>8, MessageFacts DEF Current, Told, Subscribed, RetainedTopics
<1> QED
  BY <1>1, <1>3, <1>4, <1>5, <1>6, <1>7, <1>9, <1>10, ClientStepKeeps

LEMMA SubscribeKeeps ==
    ASSUME Steady, NEW c \in Clients, Subscribe(c)
    PROVE  Steady' /\ ModeStep
<1>1. PICK filters \in SubscribeRequests :
        /\ client[c].copy = NoMessage
        /\ client' = [client EXCEPT ![c].subs = @ \cup filters,
                                    ![c].replay = {t \in RetainedTopics :
                                                      \E f \in filters : TopicMatches(f, t)}]
        /\ UNCHANGED <<world, running, started, retained, cache, queue, task, left, got>>
  BY DEF Subscribe
<1>2. /\ Types /\ client[c] \in ClientState /\ filters \in SUBSET Filters
      /\ left \in [events : Nat, connects : Nat, starts : Nat]
      /\ queue \in Seq({"baseline", "command"}) /\ got \in [Clients -> SUBSET RetainedTopics]
  BY DEF Steady, Types, Filters
<1>3. PICK subs \in SUBSET Filters : subs = client[c].subs \cup filters
  BY <1>2 DEF ClientState
<1>4. PICK replay \in SUBSET RetainedTopics :
         replay = {t \in RetainedTopics : \E f \in filters : TopicMatches(f, t)}
  OBVIOUS
<1> DEFINE new == [client[c] EXCEPT !.subs = subs, !.replay = replay]
<1>5. /\ new \in ClientState /\ new.up = client[c].up /\ new.subs = subs /\ new.replay = replay
      /\ new.copy = client[c].copy /\ new.mode = client[c].mode
  BY <1>2 DEF ClientState
<1>6. client' = [client EXCEPT ![c] = new]
  BY <1>1, <1>2, <1>3, <1>4 DEF Types
<1> HIDE DEF new
<1>7. /\ client' \in [Clients -> ClientState] /\ client'[c] = new
      /\ \A d \in Clients : d # c => client'[d] = client[d]
  BY <1>2, <1>5, <1>6 DEF Types
<1>8. ClientsNeedBroker'
  BY <1>1, <1>5, <1>7 DEF Steady, ClientsNeedBroker
<1>9. FaultKept'
  BY <1>1, <1>5, <1>7 DEF Steady, FaultKept, Untouched, BaselineQueued, FaultComing
<1>10. \A d \in Clients, t \in RetainedTopics :
          Subscribed(d, t)' /\ t \notin client'[d].replay => Subscribed(d, t)
  BY <1>3, <1>4, <1>5, <1>7 DEF Subscribed
<1>11. client[c].replay = {}
  BY DEF Subscribe
<1>12. \A d \in Clients, t \in RetainedTopics :
         /\ Subscribed(d, t)' /\ t \notin client'[d].replay /\ retained[t] # None
         /\ ~(client'[d].copy.topic = t /\ client'[d].copy.value = retained[t])
         => t \in got'[d] \/ UnderWay(d, t)
  BY <1>1, <1>5, <1>7, <1>10, <1>11 DEF Steady, Served
<1>13. \A d \in Clients :
         Current(client[d].copy) /\ Told(d) /\ retained["mode"] = world.mode
         => Current(client[d].copy)' /\ Told(d)'
  BY <1>1, <1>5, <1>7, <1>10, <1>11 DEF Current, Told, RetainedTopics
<1> QED
  BY <1>1, <1>2, <1>7, <1>8, <1>9, <1>12, <1>13, ClientStepKeeps

LEMMA ReplayCopyKeeps ==
    ASSUME Steady, NEW c \in Clients, ReplayCopy(c)
    PROVE  Steady' /\ ModeStep
<1>1. PICK t \in client[c].replay :
        /\ client[c].copy = NoMessage
        /\ client' = [client EXCEPT ![c].replay = @ \ {t},
                         ![c].copy = IF retained[t] = None THEN NoMessage
                                     ELSE [topic |-> t, value |-> retained[t]]]
        /\ UNCHANGED <<world, running, started, retained, cache, queue, task, left, got>>
  BY DEF ReplayCopy
<1>2. /\ Types /\ client[c] \in ClientState /\ t \in RetainedTopics /\ retained[t] \in Nat
      /\ left \in [events : Nat, connects : Nat, starts : Nat]
      /\ queue \in Seq({"baseline", "command"}) /\ got \in [Clients -> SUBSET RetainedTopics]
  BY DEF Steady, Types, ClientState
<1>3. PICK copy \in Messages : copy = IF retained[t] = None THEN NoMessage
                                      ELSE [topic |-> t, value |-> retained[t]]
  BY <1>2, MessageFacts DEF Say
<1>4. PICK replay \in SUBSET RetainedTopics : replay = client[c].replay \ {t}
  BY <1>2 DEF ClientState
<1> DEFINE new == [client[c] EXCEPT !.replay = replay, !.copy = copy]
<1>5. /\ new \in ClientState /\ new.up = client[c].up /\ new.subs = client[c].subs
      /\ new.replay = replay /\ new.copy = copy /\ new.mode = client[c].mode
  BY <1>2 DEF ClientState
<1>6. client' = [client EXCEPT ![c] = new]
  BY <1>1, <1>2, <1>3, <1>4 DEF Types
<1> HIDE DEF new
<1>7. /\ client' \in [Clients -> ClientState] /\ client'[c] = new
      /\ \A d \in Clients : d # c => client'[d] = client[d]
  BY <1>2, <1>5, <1>6 DEF Types
<1>8. ClientsNeedBroker'
  BY <1>1, <1>5, <1>7 DEF Steady, ClientsNeedBroker
<1>9. FaultKept'
  BY <1>1, <1>5, <1>7 DEF Steady, FaultKept, Untouched, BaselineQueued, FaultComing
<1>10. \A d \in Clients, u \in RetainedTopics : Subscribed(d, u)' <=> Subscribed(d, u)
  BY <1>5, <1>7 DEF Subscribed
<1>11. retained[t] # None => copy.topic = t /\ copy.value = retained[t]
  BY <1>3
<1>12. ASSUME NEW u \in RetainedTopics, u \notin replay, u # t
       PROVE  u \notin client[c].replay /\ client[c].copy.topic # u
  BY <1>1, <1>4, <1>12, MessageFacts DEF RetainedTopics
<1>13. \A d \in Clients, u \in RetainedTopics :
         /\ Subscribed(d, u)' /\ u \notin client'[d].replay /\ retained[u] # None
         /\ ~(client'[d].copy.topic = u /\ client'[d].copy.value = retained[u])
         => u \in got'[d] \/ UnderWay(d, u)
  BY <1>1, <1>5, <1>7, <1>10, <1>11, <1>12, ZenonT(60) DEF Steady, Served
<1>14. ASSUME NEW d \in Clients, Current(client[d].copy), Told(d), retained["mode"] = world.mode
       PROVE  Current(client[d].copy)' /\ Told(d)'
  <2>1. "mode" \in RetainedTopics /\ world.mode # None
    BY <1>2 DEF Types, RetainedTopics, None
  <2>2. CASE d # c
    BY <1>1, <1>7, <1>10, <1>14, <2>1, <2>2 DEF Current, Told
  <2>3. CASE d = c
    <3>1. copy.topic = "mode" => t = "mode" /\ copy.value = retained["mode"]
      BY <1>3, MessageFacts
    <3>2. Current(client[d].copy)'
      BY <1>1, <1>5, <1>7, <1>14, <2>3, <3>1 DEF Current
    <3>3. t = "mode" => copy.topic = "mode"
      BY <1>11, <1>14, <2>1
    <3>4. t # "mode" /\ "mode" \notin replay => "mode" \notin client[c].replay /\ client[c].copy.topic # "mode"
      BY <1>12, <2>1
    <3>5. Told(d)'
      BY <1>1, <1>5, <1>7, <1>10, <1>14, <2>1, <2>3, <3>3, <3>4 DEF Told
    <3> QED
      BY <3>2, <3>5
  <2> QED
    BY <2>2, <2>3
<1> QED
  BY <1>1, <1>2, <1>7, <1>8, <1>9, <1>13, <1>14, ClientStepKeeps

LEMMA ReplaySendKeeps ==
    ASSUME Steady, NEW c \in Clients, ReplaySend(c)
    PROVE  Steady' /\ ModeStep
<1>1. /\ client[c].copy # NoMessage /\ Sent(c, client[c].copy, TRUE)
      /\ UNCHANGED <<world, running, started, retained, cache, queue, task, left>>
  BY DEF ReplaySend
<1>2. /\ Types /\ client[c] \in ClientState /\ client[c].copy \in Messages
      /\ left \in [events : Nat, connects : Nat, starts : Nat]
      /\ queue \in Seq({"baseline", "command"})
  BY DEF Steady, Types, ClientState
<1>3. PICK m \in Messages : m = client[c].copy
  BY <1>2
<1>4. /\ client' \in [Clients -> ClientState] /\ got' \in [Clients -> SUBSET RetainedTopics]
      /\ \A d \in Clients :
            /\ client'[d].up = client[d].up /\ client'[d].subs = client[d].subs
            /\ client'[d].replay = client[d].replay /\ got[d] \subseteq got'[d]
            /\ d # c \/ ~client[c].up => client'[d].copy = client[d].copy
            /\ d # c \/ m.topic # "mode" => client'[d].mode = client[d].mode
      /\ client[c].up => /\ client'[c].copy = NoMessage
                         /\ m.topic = "mode" => client'[c].mode = m.value
                         /\ retained[m.topic] = m.value => m.topic \in got'[c]
  <2>1. Sent(c, m, TRUE) /\ m # NoMessage
    BY <1>1, <1>3
  <2>2. PICK replayed \in BOOLEAN : replayed
    OBVIOUS
  <2>3. Sent(c, m, replayed)
    BY <2>1, <2>2 DEF Sent
  <2>4. Types
    BY <1>2
  <2>5. /\ client' \in [Clients -> ClientState] /\ got' \in [Clients -> SUBSET RetainedTopics]
        /\ \A d \in Clients :
             /\ client'[d].up = client[d].up /\ client'[d].subs = client[d].subs
             /\ client'[d].replay = client[d].replay /\ got[d] \subseteq got'[d]
             /\ d # c \/ ~replayed \/ ~client[c].up => client'[d].copy = client[d].copy
             /\ d # c \/ m.topic # "mode" => client'[d].mode = client[d].mode
        /\ client[c].up => /\ replayed => client'[c].copy = NoMessage
                           /\ m.topic = "mode" => client'[c].mode = m.value
                           /\ retained[m.topic] = m.value => m.topic \in got'[c]
    BY <2>1, <2>3, <2>4, Sends
  <2> QED
    BY <2>2, <2>5, Zenon
<1>5. ClientsNeedBroker'
  BY <1>1, <1>4 DEF Steady, ClientsNeedBroker
<1>6. FaultKept'
  BY <1>1, <1>4 DEF Steady, FaultKept, Untouched, BaselineQueued, FaultComing
<1>7. \A d \in Clients, t \in RetainedTopics : Subscribed(d, t)' <=> Subscribed(d, t)
  BY <1>4 DEF Subscribed
<1>8. ASSUME NEW d \in Clients, NEW t \in RetainedTopics,
             Subscribed(d, t)', t \notin client'[d].replay, retained[t] # None,
             ~(client'[d].copy.topic = t /\ client'[d].copy.value = retained[t])
      PROVE  t \in got'[d] \/ UnderWay(d, t)
  <2>1. Subscribed(d, t) /\ client[d].up /\ t \notin client[d].replay
    BY <1>4, <1>7, <1>8 DEF Subscribed
  <2>2. CASE client[d].copy.topic = t /\ client[d].copy.value = retained[t]
    BY <1>3, <1>4, <1>8, <2>1, <2>2
  <2>3. CASE ~(client[d].copy.topic = t /\ client[d].copy.value = retained[t])
    BY <1>4, <1>8, <2>1, <2>3 DEF Steady, Served
  <2> QED
    BY <2>2, <2>3
<1>9. ASSUME NEW d \in Clients, Current(client[d].copy), Told(d), retained["mode"] = world.mode
      PROVE  Current(client[d].copy)' /\ Told(d)'
  <2>1. "mode" \in RetainedTopics
    BY DEF RetainedTopics
  <2>2. CASE d # c \/ ~client[c].up
    BY <1>1, <1>4, <1>7, <1>9, <2>1, <2>2 DEF Current, Told, Subscribed
  <2>3. CASE d = c /\ client[c].up
    <3>1. Current(client[d].copy)'
      BY <1>4, <2>3, MessageFacts DEF Current
    <3>2. m.topic = "mode" => client'[d].mode = world.mode
      BY <1>3, <1>4, <1>9, <2>3 DEF Current
    <3>3. m.topic # "mode" => client'[d].mode = client[d].mode
      BY <1>4
    <3>4. Told(d)'
      BY <1>1, <1>3, <1>4, <1>7, <1>9, <2>1, <2>3, <3>2, <3>3 DEF Told
    <3> QED
      BY <3>1, <3>4
  <2> QED
    BY <2>2, <2>3
<1> QED
  BY <1>1, <1>2, <1>4, <1>5, <1>6, <1>8, <1>9, ClientStepKeeps

LEMMA MessageKeeps ==
    ASSUME Steady, NEW c \in Clients, Message(c)
    PROVE  Steady' /\ ModeStep
<1>1. /\ client[c].up /\ left.events > 0 /\ left' = [left EXCEPT !.events = @ - 1]
      /\ Enqueue("command")
      /\ UNCHANGED <<world, running, started, retained, client, cache, task, got>>
  BY DEF Message
<1>2. Types
  BY DEF Steady
<1>3. left' \in [events : Nat, connects : Nat, starts : Nat]
  BY <1>1, <1>2 DEF Types
<1>4. queue' \in Seq({"baseline", "command"}) /\ (BaselineQueued => BaselineQueued')
  BY <1>1, <1>2, Enqueues DEF Types
<1>5. ClientsNeedBroker'
  BY <1>1 DEF Steady, ClientsNeedBroker
<1>6. FaultKept'
  BY <1>1, <1>4 DEF Steady, FaultKept, Untouched, FaultComing
<1>7. \A d \in Clients, t \in RetainedTopics :
         /\ Subscribed(d, t)' /\ t \notin client'[d].replay /\ retained[t] # None
         /\ ~(client'[d].copy.topic = t /\ client'[d].copy.value = retained[t])
         => t \in got'[d] \/ UnderWay(d, t)
  BY <1>1 DEF Steady, Served, Subscribed
<1>8. \A d \in Clients :
         Current(client[d].copy) /\ Told(d) /\ retained["mode"] = world.mode
         => Current(client[d].copy)' /\ Told(d)'
  BY <1>1 DEF Current, Told, Subscribed
<1>9. client' \in [Clients -> ClientState] /\ got' \in [Clients -> SUBSET RetainedTopics]
  BY <1>1, <1>2 DEF Types
<1> QED
  BY <1>1, <1>3, <1>4, <1>5, <1>6, <1>7, <1>8, <1>9, ClientStepKeeps

LEMMA DisconnectKeeps ==
    ASSUME Steady, NEW c \in Clients, Disconnect(c)
    PROVE  Steady' /\ ModeStep
<1>1. /\ client' = [client EXCEPT ![c] = Unconnected] /\ got' = [got EXCEPT ![c] = {}]
      /\ UNCHANGED <<world, running, started, retained, cache, queue, task, left>>
  BY DEF Disconnect
<1>2. /\ Types /\ left \in [events : Nat, connects : Nat, starts : Nat]
      /\ queue \in Seq({"baseline", "command"})
  BY DEF Steady, Types
<1>3. /\ client' \in [Clients -> ClientState] /\ client'[c] = Unconnected
      /\ \A d \in Clients : d # c => client'[d] = client[d] /\ got'[d] = got[d]
      /\ got' \in [Clients -> SUBSET RetainedTopics]
  BY <1>1, <1>2, UnconnectedFacts DEF Types
<1>4. ClientsNeedBroker'
  BY <1>1, <1>3, UnconnectedFacts DEF Steady, ClientsNeedBroker
<1>5. FaultKept'
  BY <1>1, <1>3, UnconnectedFacts
     DEF Steady, FaultKept, Untouched, BaselineQueued, FaultComing
<1>6. \A t \in RetainedTopics : ~Subscribed(c, t)'
  BY <1>3, UnconnectedFacts DEF Subscribed
<1>7. \A d \in Clients, t \in RetainedTopics :
         /\ Subscribed(d, t)' /\ t \notin client'[d].replay /\ retained[t] # None
         /\ ~(client'[d].copy.topic = t /\ client'[d].copy.value = retained[t])
         => t \in got'[d] \/ UnderWay(d, t)
  BY <1>3, <1>6 DEF Steady, Served, Subscribed
<1>8. \A d \in Clients :
         Current(client[d].copy) /\ Told(d) /\ retained["mode"] = world.mode
         => Current(client[d].copy)' /\ Told(d)'
  BY <1>1, <1>3, <1>6, MessageFacts, UnconnectedFacts
     DEF Current, Told, Subscribed, RetainedTopics
<1> QED
  BY <1>1, <1>2, <1>3, <1>4, <1>5, <1>7, <1>8, ClientStepKeeps

---------------------------------------------------------------------------
(* The machine, the network and the broker's life.                         *)

LEMMA WorldChangesKeeps ==
    ASSUME Steady, WorldChanges
    PROVE  Steady' /\ (world'.mode = world.mode => ModeStep)
<1>1. /\ left.events > 0 /\ left' = [left EXCEPT !.events = @ - 1]
      /\ UNCHANGED <<cache, queue, task>> /\ UNCHANGED brokerVars
      /\ \/ world' = [world EXCEPT !.mode = @ + 1]
         \/ world' = [world EXCEPT !.conflict = ~@]
  BY DEF WorldChanges
<1>2. Types
  BY DEF Steady
<1>3. left' \in [events : Nat, connects : Nat, starts : Nat]
  <2>1. left \in [events : Nat, connects : Nat, starts : Nat]
    BY <1>2 DEF Types
  <2>2. PICK n \in Nat : n = left.events - 1 /\ n # left.events
    BY <1>1, <2>1
  <2>3. left' = [left EXCEPT !.events = n]
    BY <1>1, <2>2
  <2> QED
    BY <2>1, <2>2, <2>3
<1>4. world' \in [mode : Nat \ {0}, conflict : BOOLEAN]
  <2>1. world \in [mode : Nat \ {0}, conflict : BOOLEAN]
    BY <1>2 DEF Types
  <2>2. CASE world' = [world EXCEPT !.mode = @ + 1]
    <3>1. PICK n \in Nat \ {0} : n = world.mode + 1
      BY <2>1
    <3> QED
      BY <2>1, <2>2, <3>1
  <2>3. CASE world' = [world EXCEPT !.conflict = ~@]
    <3>1. PICK b \in BOOLEAN : b = ~world.conflict
      OBVIOUS
    <3> QED
      BY <2>1, <2>3, <3>1
  <2> QED
    BY <1>1, <2>2, <2>3
<1>5. Types'
  BY <1>1, <1>2, <1>3, <1>4 DEF Types, brokerVars
<1>6. TasksAgree' /\ ClientsNeedBroker'
  BY <1>1 DEF Steady, TasksAgree, ClientsNeedBroker, brokerVars
<1>7. Served'
  BY <1>1 DEF Steady, Served, UnderWay, Subscribed, brokerVars
<1>8. FaultKept'
  BY <1>1 DEF Steady, FaultKept, Untouched, BaselineQueued, FaultComing, brokerVars
<1>9. ASSUME world'.mode = world.mode
      PROVE  ModeStep
  <2>1. \A c \in Clients : (Told(c)' <=> Told(c)) /\ (Telling(c)' <=> Telling(c))
    BY <1>1, <1>9 DEF Told, Telling, Subscribed, brokerVars
  <2>2. (TasksCurrent' <=> TasksCurrent) /\ (StatusUntold' <=> StatusUntold)
    BY <1>1, <1>9 DEF TasksCurrent, Current, StatusUntold
  <2>3. (CycleSent' <=> CycleSent) /\ (ModeTold' <=> ModeTold)
    BY <1>1, <1>9, <2>1 DEF CycleSent, ModeTold, Current, brokerVars
  <2> QED
    BY <1>1, <2>2, <2>3 DEF ModeStep
<1> QED
  BY <1>5, <1>6, <1>7, <1>8, <1>9 DEF Steady

\* After a start nothing is settled.
LEMMA StartKeeps ==
    ASSUME Steady, Start
    PROVE  Steady' /\ left'.starts # left.starts
<1>1. /\ ~running /\ left.starts > 0 /\ left' = [left EXCEPT !.starts = @ - 1]
      /\ running' = TRUE /\ started' = FALSE
      /\ queue' = <<>> /\ retained' = [t \in RetainedTopics |-> None]
      /\ UNCHANGED <<world, client, cache, task, got>>
  BY DEF Start
<1>2. Types
  BY DEF Steady
<1>3. left' \in [events : Nat, connects : Nat, starts : Nat] /\ left'.starts # left.starts
  <2>1. left \in [events : Nat, connects : Nat, starts : Nat]
    BY <1>2 DEF Types
  <2>2. PICK n \in Nat : n = left.starts - 1 /\ n # left.starts
    BY <1>1, <2>1
  <2>3. left' = [left EXCEPT !.starts = n]
    BY <1>1, <2>2
  <2> QED
    BY <2>1, <2>2, <2>3
<1>4. Types'
  <2>1. retained' \in [RetainedTopics -> Nat] /\ running' \in BOOLEAN /\ started' \in BOOLEAN
    BY <1>1 DEF None
  <2>2. queue' \in Seq({"baseline", "command"})
    BY <1>1
  <2> QED
    BY <1>1, <1>2, <1>3, <2>1, <2>2 DEF Types
<1>5. TasksAgree' /\ ClientsNeedBroker'
  BY <1>1 DEF Steady, TasksAgree, ClientsNeedBroker
<1>6. Served'
  BY <1>1 DEF Served
<1>7. FaultKept'
  BY <1>1 DEF Steady, ClientsNeedBroker, FaultKept, Untouched
<1> QED
  BY <1>3, <1>4, <1>5, <1>6, <1>7 DEF Steady

LEMMA BrokerStartedKeeps ==
    ASSUME Steady, BrokerStarted
    PROVE  Steady' /\ ModeStep
<1>1. /\ started' = TRUE /\ Enqueue("baseline")
      /\ UNCHANGED <<world, running, retained, client, cache, task, left, got>>
  BY DEF BrokerStarted
<1>2. Types
  BY DEF Steady
<1>3. /\ queue' \in Seq({"baseline", "command"}) /\ (BaselineQueued => BaselineQueued')
      /\ queue = <<>> => BaselineQueued'
  BY <1>1, <1>2, Enqueues DEF Types
<1>4. Types'
  BY <1>1, <1>2, <1>3 DEF Types
<1>5. TasksAgree' /\ ClientsNeedBroker'
  BY <1>1 DEF Steady, TasksAgree, ClientsNeedBroker
<1>6. Served'
  BY <1>1 DEF Steady, Served, UnderWay, Subscribed
<1>7. FaultKept'
  BY <1>1, <1>3 DEF Steady, FaultKept, Untouched, FaultComing
<1>8. ModeStep
  BY <1>1 DEF ModeStep, TasksCurrent, CopiesCurrent, Current, CycleSent, ModeTold, Told,
     Telling, Subscribed, StatusUntold
<1> QED
  BY <1>4, <1>5, <1>6, <1>7, <1>8 DEF Steady

LEMMA StopKeeps ==
    ASSUME Steady, Stop
    PROVE  Steady' /\ ModeStep
<1>1. /\ running' = FALSE
      /\ client' = [c \in Clients |-> Unconnected] /\ got' = [c \in Clients |-> {}]
      /\ UNCHANGED <<world, started, retained, cache, queue, task, left>>
  BY DEF Stop
<1>2. Types
  BY DEF Steady
<1>3. Types'
  BY <1>1, <1>2, UnconnectedFacts DEF Types
<1>4. TasksAgree' /\ ClientsNeedBroker'
  BY <1>1, UnconnectedFacts DEF Steady, TasksAgree, ClientsNeedBroker
<1>5. Served'
  BY <1>1, UnconnectedFacts DEF Served, Subscribed
<1>6. FaultKept' /\ CycleSent' /\ ModeTold'
  BY <1>1 DEF FaultKept, CycleSent, ModeTold
<1>7. TasksCurrent => TasksCurrent'
  BY <1>1 DEF TasksCurrent, Current
<1>8. ModeStep
  BY <1>1, <1>6, <1>7 DEF ModeStep, StatusUntold
<1> QED
  BY <1>3, <1>4, <1>5, <1>6, <1>8 DEF Steady

---------------------------------------------------------------------------
(* The invariant holds.                                                    *)

LEMMA StepKeeps ==
    ASSUME Steady, Step
    PROVE  /\ Steady'
           /\ ModeStep \/ world'.mode # world.mode \/ left'.starts # left.starts
<1>1. ASSUME NEW k \in Tasks, PublishStep(k)
      PROVE  Steady' /\ ModeStep
  BY <1>1, PublishKeeps, DeliverKeeps, OperationalSnapshotKeeps, ConditionsKeeps, OnChangeKeeps
     DEF PublishStep
<1>2. ASSUME NEW c \in Clients, ClientStep(c)
      PROVE  Steady' /\ ModeStep
  BY <1>2, ConnectKeeps, SubscribeKeeps, ReplayCopyKeeps, ReplaySendKeeps, MessageKeeps,
     DisconnectKeeps DEF ClientStep
<1> QED
  BY <1>1, <1>2, BaselineKeeps, HandleCommandKeeps, TickKeeps, WorldChangesKeeps, StartKeeps,
     BrokerStartedKeeps, StopKeeps DEF Step

\* Tasks that have all come to rest say nothing old.
LEMMA IdleIsCurrent ==
    ASSUME \A k \in Tasks : task'[k] = IdleTask
    PROVE  TasksCurrent'
BY IdleFacts, MessageFacts DEF TasksCurrent, Current

LEMMA NotOutdated ==
    ASSUME ~Outdated'
    PROVE  CopiesCurrent'
BY DEF Outdated, CopiesCurrent, Current

LEMMA SentToAll ==
    ASSUME CopiesCurrent', CycleSent', task'["status"].to = {}
    PROVE  ModeTold'
BY DEF CopiesCurrent, CycleSent, ModeTold, Telling

LEMMA ObserveKeeps ==
    ASSUME Inv, Step, Observe
    PROVE  ModeSettles'
<1>1. CASE world'.mode # world.mode \/ left'.starts # left.starts
  <2>1. settled' = "no"
    BY <1>1 DEF Observe
  <2> QED
    BY <2>1 DEF ModeSettles
<1>2. CASE ~(world'.mode # world.mode \/ left'.starts # left.starts)
  <2>1. ModeStep /\ ModeSettles
    BY <1>2, StepKeeps DEF Inv, Steady
  <2>2. CASE settled = "no"
    <3>1. CASE \A k \in Tasks : task'[k] = IdleTask
      <4>1. settled' = "clean"
        BY <1>2, <2>2, <3>1 DEF Observe
      <4>2. TasksCurrent'
        BY <3>1, IdleIsCurrent
      <4> QED
        BY <4>1, <4>2 DEF ModeSettles
    <3>2. CASE ~\A k \in Tasks : task'[k] = IdleTask
      <4>1. settled' = "no"
        BY <1>2, <2>2, <3>2 DEF Observe
      <4> QED
        BY <4>1 DEF ModeSettles
    <3> QED
      BY <3>1, <3>2
  <2>3. CASE settled = "clean"
    <3>1. TasksCurrent'
      BY <2>1, <2>3 DEF ModeSettles, ModeStep
    <3>2. CASE ~Outdated' /\ task["status"].at = "snapshot" /\ task'["status"].at = "conditions"
      <4>1. settled' = "cycle"
        BY <1>2, <2>3, <3>2 DEF Observe
      <4>2. CopiesCurrent' /\ StatusUntold'
        BY <2>1, <3>2, NotOutdated DEF ModeStep
      <4> QED
        BY <3>1, <4>1, <4>2 DEF ModeSettles, StatusUntold
    <3>3. CASE ~(~Outdated' /\ task["status"].at = "snapshot" /\ task'["status"].at = "conditions")
      <4>1. settled' = "clean"
        BY <1>2, <2>3, <3>3 DEF Observe
      <4> QED
        BY <3>1, <4>1 DEF ModeSettles
    <3> QED
      BY <3>2, <3>3
  <2>4. CASE settled = "cycle"
    <3>1. TasksCurrent /\ CopiesCurrent /\ TasksCurrent'
      BY <2>1, <2>4 DEF ModeSettles, ModeStep
    <3>2. StatusUntold' \/ (task'["status"].todo = NoMessage /\ CycleSent')
      BY <2>1, <2>4, <3>1 DEF ModeSettles, ModeStep, StatusUntold
    <3>3. CASE Outdated'
      <4>1. settled' = "clean"
        BY <1>2, <2>4, <3>3 DEF Observe
      <4> QED
        BY <3>1, <4>1 DEF ModeSettles
    <3>4. CASE ~Outdated' /\ task'["status"].todo = NoMessage /\ task'["status"].to = {}
      <4>1. settled' = "yes"
        BY <1>2, <2>4, <3>4 DEF Observe
      <4>2. CycleSent'
        BY <3>2, <3>4, MessageFacts DEF StatusUntold
      <4>3. CopiesCurrent'
        BY <3>4, NotOutdated
      <4>4. ModeTold'
        BY <3>4, <4>2, <4>3, SentToAll
      <4> QED
        BY <3>1, <4>1, <4>4 DEF ModeSettles
    <3>5. CASE ~Outdated' /\ ~(task'["status"].todo = NoMessage /\ task'["status"].to = {})
      <4>1. settled' = "cycle"
        BY <1>2, <2>4, <3>5 DEF Observe
      <4>2. CopiesCurrent'
        BY <3>5, NotOutdated
      <4> QED
        BY <3>1, <3>2, <3>5, <4>1, <4>2 DEF ModeSettles, StatusUntold
    <3> QED
      BY <3>3, <3>4, <3>5
  <2>5. CASE settled = "yes"
    <3>1. settled' = "yes"
      BY <1>2, <2>5 DEF Observe
    <3>2. TasksCurrent' /\ ModeTold'
      BY <2>1, <2>5 DEF ModeSettles, ModeStep
    <3> QED
      BY <3>1, <3>2 DEF ModeSettles
  <2> QED
    BY <2>1, <2>2, <2>3, <2>4, <2>5 DEF ModeSettles
<1> QED
  BY <1>1, <1>2

LEMMA InitInv == Init => Inv
<1> SUFFICES ASSUME Init
             PROVE  Inv
  OBVIOUS
<1>1. /\ MaxEvents \in Nat /\ MaxConnects \in Nat /\ MaxStarts \in Nat
  BY PublicationsAssumption
<1>2. Types
  <2>1. left \in [events : Nat, connects : Nat, starts : Nat]
    BY <1>1 DEF Init
  <2>2. world \in [mode : Nat \ {0}, conflict : BOOLEAN]
    BY DEF Init
  <2>3. task \in [Tasks -> TaskState] /\ client \in [Clients -> ClientState]
    BY IdleFacts, UnconnectedFacts DEF Init
  <2>4. retained \in [RetainedTopics -> Nat] /\ running \in BOOLEAN /\ started \in BOOLEAN
    BY DEF Init, None
  <2>5. queue \in Seq({"baseline", "command"}) /\ got \in [Clients -> SUBSET RetainedTopics]
    BY DEF Init
  <2> QED
    BY <2>1, <2>2, <2>3, <2>4, <2>5 DEF Types
<1>3. TasksAgree
  BY IdleFacts, MessageFacts DEF Init, TasksAgree
<1>4. ClientsNeedBroker /\ Served
  BY UnconnectedFacts DEF Init, ClientsNeedBroker, Served
<1>5. FaultKept /\ ModeSettles
  BY DEF Init, FaultKept, ModeSettles
<1> QED
  BY <1>2, <1>3, <1>4, <1>5 DEF Inv

LEMMA NextKeepsInv == Inv /\ [Next]_vars => Inv'
<1>1. ASSUME Inv, Next
      PROVE  Inv'
  <2>1. Steady'
    BY <1>1, StepKeeps DEF Inv, Steady, Next
  <2>2. ModeSettles'
    BY <1>1, ObserveKeeps DEF Next
  <2> QED
    BY <2>1, <2>2 DEF Inv, Steady
<1>2. ASSUME Inv, UNCHANGED vars
      PROVE  Inv'
  <2>1. Types' /\ TasksAgree' /\ ClientsNeedBroker'
    BY <1>2 DEF Inv, Types, TasksAgree, ClientsNeedBroker, vars
  <2>2. Served'
    BY <1>2 DEF Inv, Served, UnderWay, Subscribed, vars
  <2>3. FaultKept'
    BY <1>2 DEF Inv, FaultKept, Untouched, BaselineQueued, FaultComing, vars
  <2>4. ModeSettles'
    BY <1>2 DEF Inv, ModeSettles, TasksCurrent, CopiesCurrent, Current, CycleSent, ModeTold,
       Told, Telling, Subscribed, vars
  <2> QED
    BY <2>1, <2>2, <2>3, <2>4 DEF Inv
<1> QED
  BY <1>1, <1>2

LEMMA InvHolds == Spec => []Inv
BY InitInv, NextKeepsInv, PTL DEF Spec

---------------------------------------------------------------------------
(* The theorems.                                                           *)

\* No retained value passes a subscriber by, however many clients subscribe and
\* however publications, the replay of argus_mqtt_handle_subscribe and the reuse
\* of descriptors interleave.
THEOREM NothingIsMissed == Spec => []NothingMissed
<1>1. Inv => NothingMissed
  BY DEF Inv, Served, UnderWay, NothingMissed
<1> QED
  BY <1>1, InvHolds, PTL

\* One cycle of the status task after its last change, every subscriber has the
\* value that publish_operational_snapshot read, and none an older one.
THEOREM ModeBecomesCurrent == Spec => []ModeCurrent
<1>1. Inv => ModeCurrent
  BY DEF Inv, ModeSettles, ModeTold, Told, ModeCurrent
<1> QED
  BY <1>1, InvHolds, PTL

\* publish_baseline brings the condition back after every restart of the broker,
\* whatever events the queue dropped, whatever its length.
THEOREM FaultIsRepublished == Spec => []FaultRepublished
<1>1. ASSUME Inv, running, started, queue = <<>>, \A k \in Tasks : Idle(k)
      PROVE  retained["fault"] # None
  <2>1. ~Untouched /\ ~BaselineQueued
    BY <1>1 DEF Untouched, BaselineQueued
  <2>2. \A k \in Tasks : task[k].todo.topic = "none" /\ task[k].at = "idle"
    BY <1>1, IdleFacts, MessageFacts DEF Idle
  <2> QED
    BY <1>1, <2>1, <2>2 DEF Inv, FaultKept, FaultComing
<1>2. Inv => FaultRepublished
  BY <1>1 DEF FaultRepublished
<1> QED
  BY <1>2, InvHolds, PTL
=============================================================================
