-------------------------- MODULE SecurityProofs --------------------------
(***************************************************************************)
(* What the security of the controller promises, whatever the constants.   *)
(* First Admission, for any number of addresses, names, machines and       *)
(* attempts and for all limits: failed logins cool down, addresses that    *)
(* never authenticated leave the share of the others alone, and a login    *)
(* is not kept out by machines.  Then Portal, for logs, queues, session    *)
(* tables and directories of any size and any number of failures: the      *)
(* audit log has no gap and tells the truth, an unrecorded change is the   *)
(* last one, and no session has an authority its account no longer has.    *)
(***************************************************************************)
EXTENDS Admission, Portal, FiniteSetTheorems, SequenceTheorems, TLAPS


---------------------------------------------------------------------------
(* The inductive invariant.                                                *)

Peers == Addresses \cup {"none"}
AtWorker == {"admitted", "queued", "waiting", "timeout", "answered"}
TaskState ==
    [pc : {"idle", "stamped"} \cup AtWorker, peer : Peers, name : Names \cup {"none"},
     at : Nat, since : Nat]

\* The records have their fields; of most of them nothing else matters.
Shapes ==
    /\ login = [peers |-> login.peers, names |-> login.names, global |-> login.global,
                inflight |-> login.inflight]
    /\ machine = [buckets |-> machine.buckets, proven |-> machine.proven,
                  window |-> machine.window, spent |-> machine.spent,
                  admitted |-> machine.admitted]
    /\ left = [login |-> left.login, connect |-> left.connect, benchmark |-> left.benchmark,
               time |-> left.time, console |-> left.console]

Types ==
    /\ now \in Nat \ {0}
    /\ task \in [Tasks -> TaskState]
    /\ queue \in Seq(Tasks)
    /\ worker = Nobody \/ worker \in [task : Tasks, left : Nat]
    /\ failed \in Seq(Nat) /\ granted \in Seq(Peers)
    /\ left.console \in BOOLEAN

\* The derivations of the window are counted, and only those that were granted;
\* a source is proven because it authenticated.
SharesAgree ==
    /\ machine.spent = Len(granted)
    /\ machine.proven = [i \in DOMAIN machine.proven |-> machine.proven[i]]
    /\ \A i \in DOMAIN machine.proven : machine.proven[i].used => machine.proven[i].key \in known
    /\ ReservedShareKept

\* Who is in the queue or at the worker is waiting for the answer, and is there once.
RequestsAgree ==
    /\ Len(queue) <= 1
    /\ \A i \in DOMAIN queue : task[queue[i]].pc = "queued" /\ queue[i] # worker.task
    /\ worker # Nobody => task[worker.task].pc = "queued"

\* With a gate for one, the count is that of the machines past it.
Busy(t) == task[t].pc \in AtWorker
GateAgrees ==
    \/ machine.admitted = 0 /\ \A t \in BrokerTasks : ~Busy(t)
    \/ machine.admitted = 1 /\ \E t \in BrokerTasks : \A u \in BrokerTasks : Busy(u) <=> u = t

\* A login that waits has only just begun to: there is work for the worker or a
\* place in the queue, and no time passes before it is used.
LoginWaits ==
    ~left.console => /\ task["console"].pc = "idle"
                     /\ task["http"].pc = "waiting" => task["http"].since = now
                     /\ task["http"].pc # "timeout"
TurnKept == AdmissionMax = 1 => GateAgrees /\ LoginWaits

\* Failures are recorded in the order of their times; the attempt under way is
\* the latest, and got past the cooldown of everybody's bucket.
Ordered ==
    /\ \A i \in DOMAIN failed : 0 < failed[i] /\ failed[i] <= now
    /\ \A i, j \in DOMAIN failed : i <= j => failed[i] <= failed[j]
    /\ task["http"].pc # "idle" => /\ 0 < task["http"].at /\ task["http"].at <= now
                                   /\ \A i \in DOMAIN failed : failed[i] <= task["http"].at
    /\ Busy("http") => login.global.until <= task["http"].at

GlobalBucket ==
    [key : {"everybody"}, failures : 0 .. (FailureLimit - 1), level : 0 .. 4, window : Nat,
     until : Nat, seen : Nat]

\* The window of everybody's bucket was opened either by a failure that found the
\* one before it over, or by the failure that reached the limit: then the next
\* one comes after the cooldown.
OpenedAfresh(n, f) ==
    /\ 0 < f /\ f <= n /\ failed[n - f + 1] = login.global.window
    /\ \/ n - f + 1 <= FailureLimit
       \/ failed[n - f + 1] - failed[n - f + 1 - FailureLimit] > FailureWindow
OpenedByCooldown(n, f) ==
    /\ f < n /\ failed[n - f] = login.global.window
    /\ IF f = 0 THEN login.global.until >= login.global.window + CooldownInitial
       ELSE failed[n - f + 1] - failed[n - f] >= CooldownInitial
Counted ==
    /\ login.global \in GlobalBucket
    /\ LET n == Len(failed)
           f == login.global.failures
       IN  \/ n = 0 /\ f = 0 /\ login.global.window = 0
           \/ OpenedAfresh(n, f)
           \/ OpenedByCooldown(n, f)

Inv ==
    /\ Shapes /\ Types
    /\ SharesAgree
    /\ RequestsAgree /\ TurnKept
    /\ Ordered /\ Counted /\ FailedLoginsCoolDown

---------------------------------------------------------------------------
(* Facts about the operators, and what leaves parts of the invariant alone. *)

LEMMA ConstantFacts ==
    /\ FailureLimit \in Nat /\ FailureLimit > 1 /\ FailureWindow \in Nat
    /\ CooldownInitial \in Nat \ {0} /\ CooldownMax \in Nat /\ CooldownInitial <= CooldownMax
    /\ UnprovenBurst \in Nat /\ GlobalBurst \in Nat /\ SubmitWait \in Nat \ {0}
    /\ BenchmarkTime \in Nat \ {0}
BY AdmissionAssumption

LEMMA TaskFacts ==
    /\ "http" \in Tasks /\ "console" \in Tasks /\ BrokerTasks \subseteq Tasks
    /\ "http" \notin BrokerTasks /\ "console" \notin BrokerTasks /\ "none" \notin Tasks
    /\ \A t \in Tasks : t = "http" \/ t = "console" \/ t \in BrokerTasks
    /\ Idle \in TaskState /\ Idle.pc = "idle"
BY AdmissionAssumption DEF Tasks, Idle, TaskState, Peers

\* The cooldown is never shorter than the first.
LEMMA CooldownBound ==
    ASSUME NEW level \in 0 .. 4
    PROVE  Cooldown(level) \in Nat /\ Cooldown(level) >= CooldownInitial
<1>1. PICK factor \in Nat \ {0} : factor = <<1, 2, 4, 8, 16>>[level + 1]
  OBVIOUS
<1>2. PICK doubled \in Nat : doubled = CooldownInitial * factor /\ doubled >= CooldownInitial
  BY <1>1, ConstantFacts
<1> QED
  BY <1>1, <1>2, ConstantFacts DEF Cooldown

\* A task that is in nobody's hands may do what it likes.
LEMMA RequestsStay ==
    ASSUME Types, RequestsAgree, UNCHANGED <<queue, worker>>, NEW t \in Tasks,
           \A u \in Tasks : u # t => task'[u] = task[u], task[t].pc # "queued"
    PROVE  RequestsAgree'
BY DEF Types, RequestsAgree

LEMMA SharesStay ==
    ASSUME SharesAgree, UNCHANGED <<granted, known>>,
           machine'.spent = machine.spent, machine'.proven = machine.proven
    PROVE  SharesAgree'
BY DEF SharesAgree, ReservedShareKept

LEMMA CountsStay ==
    ASSUME Counted, FailedLoginsCoolDown, UNCHANGED failed, login'.global = login.global
    PROVE  Counted' /\ FailedLoginsCoolDown'
BY DEF Counted, OpenedAfresh, OpenedByCooldown, FailedLoginsCoolDown

LEMMA OrderStays ==
    ASSUME Types, Ordered, UNCHANGED <<now, login, failed>>, task'["http"] = task["http"]
    PROVE  Ordered'
BY DEF Ordered, Busy

LEMMA GateStays ==
    ASSUME GateAgrees, machine'.admitted = machine.admitted,
           \A t \in BrokerTasks : Busy(t)' <=> Busy(t)
    PROVE  GateAgrees'
BY DEF GateAgrees

LEMMA WaitsStay ==
    ASSUME LoginWaits, UNCHANGED now, left'.console = left.console,
           task'["http"] = task["http"], task'["console"] = task["console"]
    PROVE  LoginWaits'
BY DEF LoginWaits

---------------------------------------------------------------------------
(* Logins.                                                                 *)

LEMMA BeginLoginKeeps ==
    ASSUME Inv, BeginLogin
    PROVE  Inv'
<1>1. PICK peer \in Addresses, name \in Names :
         task' = [task EXCEPT !["http"] = [Idle EXCEPT !.pc = "stamped", !.peer = peer,
                                                       !.name = name, !.at = now]]
  BY DEF BeginLogin
<1>2. /\ task["http"].pc = "idle" /\ left' = [left EXCEPT !.login = @ - 1]
      /\ UNCHANGED <<now, queue, worker, login, machine, history>>
  BY DEF BeginLogin
<1>3. Types /\ Shapes /\ task \in [Tasks -> TaskState] /\ now \in Nat \ {0}
  BY DEF Inv, Types
<1> DEFINE begun == [Idle EXCEPT !.pc = "stamped", !.peer = peer, !.name = name, !.at = now]
<1>4. begun \in TaskState /\ begun.pc = "stamped" /\ begun.at = now
  BY <1>3, TaskFacts DEF TaskState, Idle, Peers
<1> HIDE DEF begun
<1>5. /\ task' \in [Tasks -> TaskState] /\ task'["http"] = begun
      /\ \A u \in Tasks : u # "http" => task'[u] = task[u]
  BY <1>1, <1>3, <1>4, TaskFacts DEF begun
<1>6. left' = [login |-> left'.login, connect |-> left'.connect, benchmark |-> left'.benchmark,
               time |-> left'.time, console |-> left'.console]
      /\ left'.console = left.console
  <2>1. PICK n : n = left.login - 1
    OBVIOUS
  <2> QED
    BY <1>2, <1>3, <2>1 DEF Shapes
<1>7. Shapes' /\ Types'
  BY <1>2, <1>3, <1>5, <1>6 DEF Shapes, Types, history
<1>8. SharesAgree'
  BY <1>2, SharesStay DEF Inv, history
<1>9. RequestsAgree'
  BY <1>2, <1>3, <1>5, RequestsStay, TaskFacts DEF Inv
<1>10. Counted' /\ FailedLoginsCoolDown'
  BY <1>2, CountsStay DEF Inv, history
<1>11. Ordered'
  BY <1>2, <1>3, <1>4, <1>5 DEF Inv, Ordered, Busy, AtWorker, history
<1>12. TurnKept'
  <2>1. \A t \in BrokerTasks : Busy(t)' <=> Busy(t)
    BY <1>5, TaskFacts DEF Busy
  <2>2. GateAgrees => GateAgrees'
    BY <1>2, <2>1, GateStays
  <2>3. LoginWaits => LoginWaits'
    BY <1>4, <1>5, <1>6, TaskFacts DEF LoginWaits
  <2> QED
    BY <2>2, <2>3 DEF Inv, TurnKept
<1> QED
  BY <1>7, <1>8, <1>9, <1>10, <1>11, <1>12 DEF Inv

LEMMA AdmitLoginKeeps ==
    ASSUME Inv, AdmitLogin
    PROVE  Inv'
<1>1. Types /\ Shapes /\ task \in [Tasks -> TaskState] /\ task["http"] \in TaskState
  BY TaskFacts DEF Inv, Types
<1>2. /\ task["http"].pc = "stamped"
      /\ UNCHANGED <<now, queue, worker, machine, left, history>>
  BY DEF AdmitLogin
<1> DEFINE t == task["http"]
           tables == Preflight(t.peer, t.name, t.at)
<1>3. \/ /\ task' = [task EXCEPT !["http"] = Idle]
         /\ login' = [login EXCEPT !.peers = tables.peers, !.names = tables.names]
      \/ /\ task' = [task EXCEPT !["http"].pc = "admitted"]
         /\ ~Throttled(tables, t.peer, t.name, t.at)
         /\ login' = [login EXCEPT !.peers = tables.peers, !.names = tables.names,
                          !.inflight = @ \cup {[peer |-> t.peer, name |-> t.name]}]
  BY DEF AdmitLogin
<1>4. \/ task' = [task EXCEPT !["http"] = Idle]
      \/ /\ task' = [task EXCEPT !["http"].pc = "admitted"]
         /\ ~CoolsDown(login.global, task["http"].at)
  BY <1>3 DEF Throttled
<1>5. /\ login'.global = login.global
      /\ login' = [peers |-> login'.peers, names |-> login'.names, global |-> login'.global,
                   inflight |-> login'.inflight]
  <2> HIDE DEF tables
  <2>1. PICK inflight : inflight = login.inflight \cup {[peer |-> t.peer, name |-> t.name]}
    OBVIOUS
  <2> QED
    BY <1>1, <1>3, <2>1 DEF Shapes
<1> HIDE DEF t, tables
<1>6. /\ task' \in [Tasks -> TaskState]
      /\ \A u \in Tasks : u # "http" => task'[u] = task[u]
      /\ \/ task'["http"] = Idle
         \/ /\ task'["http"].pc = "admitted" /\ task'["http"].at = task["http"].at
            /\ ~CoolsDown(login.global, task["http"].at)
  <2>1. CASE task' = [task EXCEPT !["http"] = Idle]
    BY <1>1, <2>1, TaskFacts
  <2>2. CASE /\ task' = [task EXCEPT !["http"].pc = "admitted"]
             /\ ~CoolsDown(login.global, task["http"].at)
    BY <1>1, <2>2, TaskFacts DEF TaskState, AtWorker
  <2> QED
    BY <1>4, <2>1, <2>2
<1>7. Shapes' /\ Types'
  BY <1>1, <1>2, <1>5, <1>6 DEF Shapes, Types, history
<1>8. SharesAgree'
  BY <1>2, SharesStay DEF Inv, history
<1>9. RequestsAgree'
  BY <1>1, <1>2, <1>6, RequestsStay, TaskFacts DEF Inv
<1>10. Counted' /\ FailedLoginsCoolDown'
  BY <1>2, <1>5, CountsStay DEF Inv, history
<1>11. Ordered'
  <2>1. ~CoolsDown(login.global, task["http"].at) => login.global.until <= task["http"].at
    BY <1>1 DEF Inv, Counted, GlobalBucket, CoolsDown, TaskState
  <2> QED
    BY <1>2, <1>5, <1>6, <2>1, TaskFacts DEF Inv, Ordered, Busy, AtWorker, history
<1>12. TurnKept'
  <2>1. \A u \in BrokerTasks : Busy(u)' <=> Busy(u)
    BY <1>6, TaskFacts DEF Busy
  <2>2. GateAgrees => GateAgrees'
    BY <1>2, <2>1, GateStays
  <2>3. LoginWaits => LoginWaits'
    BY <1>2, <1>6, TaskFacts DEF LoginWaits
  <2> QED
    BY <2>2, <2>3 DEF Inv, TurnKept
<1> QED
  BY <1>7, <1>8, <1>9, <1>10, <1>11, <1>12 DEF Inv

\* Where the window was opened, counted from the end, is within the run that ends now.
LEMMA WithinRun ==
    ASSUME NEW n \in Nat, NEW f \in Nat, NEW L \in Nat, NEW i \in Nat, NEW run \in Nat,
           f < n, f <= L - 1, run = 2 * L, i + run - 1 = n + 1
    PROVE  n - f \in 1 .. n /\ n - f \in i .. (i + run - 2)
OBVIOUS

\* A login of that time failed, and is counted for everybody.
FailureStep(at) ==
    /\ Inv /\ at > 0 /\ \A i \in DOMAIN failed : failed[i] <= at
    /\ login.global.until <= at
    /\ failed' = Append(failed, at) /\ login'.global = FailureCounted(login.global, at)

LEMMA CountedOnce ==
    ASSUME NEW at \in Nat, FailureStep(at)
    PROVE  Counted' /\ FailedLoginsCoolDown'
<1> DEFINE new == FailureCounted(login.global, at)
<1>1. PICK n \in Nat : n = Len(failed) /\ DOMAIN failed = 1 .. n
                       /\ \A i \in 1 .. n : failed[i] \in Nat
  <2>1. failed \in Seq(Nat)
    BY DEF FailureStep, Inv, Types
  <2> QED
    BY <2>1
<1>2. /\ failed' \in Seq(Nat) /\ Len(failed') = n + 1 /\ failed'[n + 1] = at
      /\ DOMAIN failed' = 1 .. (n + 1)
      /\ \A i \in 1 .. n : failed'[i] = failed[i]
  <2>1. failed \in Seq(Nat) /\ failed' = Append(failed, at)
    BY DEF FailureStep, Inv, Types
  <2>2. failed' \in Seq(Nat) /\ Len(failed') = n + 1
    BY <1>1, <2>1
  <2> QED
    BY <1>1, <2>1, <2>2
<1>3. PICK L \in Nat : L = FailureLimit /\ L > 1
  BY ConstantFacts
<1>4. PICK g \in GlobalBucket : g = login.global
  BY DEF FailureStep, Inv, Counted
<1>5. PICK f \in Nat, w \in Nat : f = g.failures /\ f <= L - 1 /\ w = g.window
  BY <1>3, <1>4 DEF GlobalBucket
<1>6. /\ \A i \in 1 .. n : 0 < failed[i] /\ failed[i] <= at
      /\ \A i, j \in 1 .. n : i <= j => failed[i] <= failed[j]
  BY <1>1 DEF FailureStep, Inv, Ordered
<1>7. \/ n = 0 /\ f = 0 /\ w = 0
      \/ /\ 0 < f /\ f <= n /\ failed[n - f + 1] = w
         /\ n - f + 1 <= L \/ failed[n - f + 1] - failed[n - f + 1 - L] > FailureWindow
      \/ /\ f < n /\ failed[n - f] = w
         /\ f = 0 => g.until >= w + CooldownInitial
         /\ f # 0 => failed[n - f + 1] - failed[n - f] >= CooldownInitial
  BY <1>1, <1>3, <1>4, <1>5 DEF FailureStep, Inv, Counted, OpenedAfresh, OpenedByCooldown
<1>8. PICK until \in Nat : until = at + Cooldown(g.level) /\ until >= at + CooldownInitial
  <2>1. PICK level \in 0 .. 4 : level = g.level
    BY <1>4 DEF GlobalBucket
  <2>2. PICK cooldown \in Nat : cooldown = Cooldown(level) /\ cooldown >= CooldownInitial
    BY <2>1, CooldownBound
  <2> QED
    BY <2>1, <2>2, ConstantFacts
<1>9. PICK level \in 0 .. 4 : level = IF g.level < 4 THEN g.level + 1 ELSE g.level
  BY <1>4 DEF GlobalBucket
<1>10. w <= at /\ g.until <= at
  <2>1. ASSUME NEW q \in 1 .. n, failed[q] = w
        PROVE  w <= at
    BY <1>6, <2>1
  <2>2. 0 < f /\ f <= n => n - f + 1 \in 1 .. n
    OBVIOUS
  <2>3. f < n => n - f \in 1 .. n
    OBVIOUS
  <2>4. w <= at
    BY <1>7, <2>1, <2>2, <2>3
  <2> QED
    BY <1>4, <2>4 DEF FailureStep
<1>11. \/ /\ w = 0 \/ at - w > FailureWindow
          /\ new \in GlobalBucket /\ new.window = at /\ new.failures = 1
       \/ /\ f + 1 < L /\ w # 0
          /\ new \in GlobalBucket /\ new.failures = f + 1 /\ new.window = w
       \/ /\ f + 1 >= L /\ w # 0
          /\ new \in GlobalBucket /\ new.failures = 0 /\ new.window = at /\ new.until = until
  <2>1. CASE w = 0 \/ Elapsed(at, w, FailureWindow + 1)
    <3>1. new = [g EXCEPT !.window = at, !.failures = 1]
      BY <1>4, <1>5, <2>1 DEF FailureCounted
    <3>2. w = 0 \/ at - w > FailureWindow
      BY <1>10, <2>1, ConstantFacts DEF Elapsed
    <3>3. 1 \in 0 .. (FailureLimit - 1)
      BY <1>3
    <3> HIDE DEF new
    <3>4. new \in GlobalBucket /\ new.window = at /\ new.failures = 1
      BY <3>1, <3>3 DEF GlobalBucket
    <3> QED
      BY <3>2, <3>4
  <2>2. CASE ~(w = 0 \/ Elapsed(at, w, FailureWindow + 1)) /\ f + 1 < L
    <3>1. PICK k \in 0 .. (FailureLimit - 1) : k = f + 1
      BY <1>3, <2>2
    <3>2. new = [g EXCEPT !.failures = k]
      BY <1>3, <1>4, <1>5, <2>2, <3>1 DEF FailureCounted
    <3> HIDE DEF new
    <3>3. new \in GlobalBucket /\ new.failures = k /\ new.window = w
      BY <1>5, <3>2 DEF GlobalBucket
    <3> QED
      BY <2>2, <3>1, <3>3
  <2>3. CASE ~(w = 0 \/ Elapsed(at, w, FailureWindow + 1)) /\ ~(f + 1 < L)
    <3>1. new = [g EXCEPT !.until = until, !.failures = 0, !.window = at, !.level = level]
      BY <1>3, <1>4, <1>5, <1>8, <1>9, <2>3 DEF FailureCounted
    <3>2. 0 \in 0 .. (FailureLimit - 1) /\ f + 1 >= L
      BY <1>3, <2>3
    <3> HIDE DEF new
    <3>3. new \in GlobalBucket /\ new.failures = 0 /\ new.window = at /\ new.until = until
      BY <3>1, <3>2 DEF GlobalBucket
    <3> QED
      BY <2>3, <3>2, <3>3
  <2> QED
    BY <2>1, <2>2, <2>3
<1>12. login'.global = new
  BY DEF FailureStep
<1> HIDE DEF new
<1>13. Counted'
  <2>1. CASE /\ w = 0 \/ at - w > FailureWindow
             /\ new \in GlobalBucket /\ new.window = at /\ new.failures = 1
    <3>1. n + 1 <= L \/ at - failed[n + 1 - L] > FailureWindow
      <4>1. CASE n = 0
        BY <1>3, <4>1
      <4>2. ASSUME NEW q \in 1 .. n, failed[q] = w, n + 1 - L <= q
            PROVE  n + 1 <= L \/ at - failed[n + 1 - L] > FailureWindow
        <5>1. n + 1 <= L \/ n + 1 - L \in 1 .. n
          BY <1>3
        <5>2. n + 1 - L \in 1 .. n => failed[n + 1 - L] <= w
          BY <1>6, <4>2
        <5>3. w # 0
          BY <1>6, <4>2
        <5>4. ASSUME n + 1 - L \in 1 .. n
              PROVE  at - failed[n + 1 - L] > FailureWindow
          <6>1. PICK first \in Nat : first = failed[n + 1 - L]
            BY <1>1, <5>4
          <6>2. first <= w /\ at - w > FailureWindow
            BY <2>1, <5>2, <5>3, <5>4, <6>1
          <6> QED
            BY <6>1, <6>2, ConstantFacts
        <5> QED
          BY <5>1, <5>4
      <4>3. CASE 0 < f /\ f <= n /\ failed[n - f + 1] = w
        <5>1. n - f + 1 \in 1 .. n /\ n + 1 - L <= n - f + 1
          BY <1>5, <4>3
        <5> QED
          BY <4>2, <4>3, <5>1
      <4>4. CASE f < n /\ failed[n - f] = w
        <5>1. n - f \in 1 .. n /\ n + 1 - L <= n - f
          BY <1>5, <4>4
        <5> QED
          BY <4>2, <4>4, <5>1
      <4> QED
        BY <1>7, <4>1, <4>3, <4>4
    <3>2. n + 1 <= L \/ failed'[n + 1 - L] = failed[n + 1 - L]
      BY <1>2, <1>3
    <3>3. /\ 0 < 1 /\ 1 <= n + 1 /\ (n + 1) - 1 + 1 = n + 1
      OBVIOUS
    <3>4. OpenedAfresh(n + 1, 1)'
      BY <1>2, <1>3, <1>12, <2>1, <3>1, <3>2, <3>3 DEF OpenedAfresh
    <3> QED
      BY <1>2, <1>12, <2>1, <3>4 DEF Counted
  <2>2. CASE /\ f + 1 < L /\ w # 0
             /\ new \in GlobalBucket /\ new.failures = f + 1 /\ new.window = w
    <3>1. (n + 1) - (f + 1) = n - f /\ (n + 1) - (f + 1) + 1 = n - f + 1
      OBVIOUS
    <3>2. CASE /\ 0 < f /\ f <= n /\ failed[n - f + 1] = w
               /\ n - f + 1 <= L \/ failed[n - f + 1] - failed[n - f + 1 - L] > FailureWindow
      <4>1. n - f + 1 \in 1 .. n
        BY <3>2
      <4>2. n - f + 1 <= L \/ failed'[n - f + 1 - L] = failed[n - f + 1 - L]
        BY <1>2, <1>3, <4>1
      <4>3. failed'[n - f + 1] = failed[n - f + 1] /\ 0 < f + 1 /\ f + 1 <= n + 1
        BY <1>2, <3>2, <4>1
      <4>4. OpenedAfresh(n + 1, f + 1)'
        BY <1>3, <1>12, <2>2, <3>1, <3>2, <4>2, <4>3 DEF OpenedAfresh
      <4> QED
        BY <1>2, <1>12, <2>2, <4>4 DEF Counted
    <3>3. CASE /\ f < n /\ failed[n - f] = w
               /\ f = 0 => g.until >= w + CooldownInitial
               /\ f # 0 => failed[n - f + 1] - failed[n - f] >= CooldownInitial
      <4>1. n - f \in 1 .. n /\ f + 1 < n + 1 /\ f + 1 # 0
        BY <3>3
      <4>2. failed'[n - f] = w
        BY <1>2, <3>3, <4>1
      <4>3. failed'[n - f + 1] - failed'[n - f] >= CooldownInitial
        <5>1. CASE f = 0
          BY <1>2, <1>10, <3>3, <4>2, <5>1, ConstantFacts DEF GlobalBucket
        <5>2. CASE f # 0
          <6>1. n - f + 1 \in 1 .. n
            BY <4>1, <5>2
          <6> QED
            BY <1>2, <3>3, <4>1, <5>2, <6>1
        <5> QED
          BY <5>1, <5>2
      <4>4. OpenedByCooldown(n + 1, f + 1)'
        BY <1>12, <2>2, <3>1, <4>1, <4>2, <4>3 DEF OpenedByCooldown
      <4> QED
        BY <1>2, <1>12, <2>2, <4>4 DEF Counted
    <3> QED
      BY <1>7, <2>2, <3>2, <3>3
  <2>3. CASE /\ f + 1 >= L /\ w # 0
             /\ new \in GlobalBucket /\ new.failures = 0 /\ new.window = at /\ new.until = until
    <3>1. (n + 1) - 0 = n + 1 /\ 0 < n + 1
      OBVIOUS
    <3>2. OpenedByCooldown(n + 1, 0)'
      BY <1>2, <1>8, <1>12, <2>3, <3>1 DEF OpenedByCooldown
    <3> QED
      BY <1>2, <1>12, <2>3, <3>2 DEF Counted
  <2> QED
    BY <1>11, <2>1, <2>2, <2>3
<1>14. FailedLoginsCoolDown'
  <2>1. PICK run \in Nat : run = 2 * FailureLimit /\ run = 2 * L /\ run > 2
    BY <1>3
  <2>2. SUFFICES ASSUME NEW i \in 1 .. (n + 1), i + run - 1 \in 1 .. (n + 1),
                        failed'[i + run - 1] - failed'[i] <= FailureWindow
                 PROVE  \E j \in i .. (i + run - 2) : failed'[j + 1] - failed'[j] >= CooldownInitial
    BY <1>2, <2>1 DEF FailedLoginsCoolDown
  <2>5. CASE i + run - 1 <= n
    <3>1. i \in 1 .. n /\ i + run - 1 \in 1 .. n
      BY <2>1, <2>2, <2>5
    <3>2. failed[i + run - 1] - failed[i] <= FailureWindow
      BY <1>2, <2>2, <3>1
    <3>3. PICK j \in i .. (i + run - 2) : failed[j + 1] - failed[j] >= CooldownInitial
      BY <1>1, <2>1, <3>1, <3>2 DEF FailureStep, Inv, FailedLoginsCoolDown
    <3>4. j \in 1 .. n /\ j + 1 \in 1 .. n
      BY <2>1, <3>1
    <3> QED
      BY <1>2, <3>3, <3>4
  <2>3. CASE i + run - 1 = n + 1
    <3>1. i = n - 2 * L + 2 /\ i \in 1 .. n
      BY <1>3, <2>1, <2>3
    <3>2. failed'[i] = failed[i] /\ failed'[i + run - 1] = at
      BY <1>2, <2>3, <3>1
    <3>3. CASE /\ 0 < f /\ f <= n /\ failed[n - f + 1] = w
               /\ n - f + 1 <= L \/ failed[n - f + 1] - failed[n - f + 1 - L] > FailureWindow
      <4>1. /\ n - f + 1 \in 1 .. n /\ n - f + 1 - L \in 1 .. n /\ i <= n - f + 1 - L
            /\ n - f + 1 > L
        <5>1. 0 < f /\ f <= n /\ f <= L - 1 /\ i >= 1
          BY <1>5, <3>1, <3>3
        <5>2. n - f + 1 \in 1 .. n
          BY <5>1
        <5>3. i <= n - f + 1 - L
          BY <3>1, <5>1
        <5> QED
          BY <5>1, <5>2, <5>3
      <4>2. failed[n - f + 1] - failed[n - f + 1 - L] > FailureWindow
        BY <3>3, <4>1
      <4>3. failed[i] <= failed[n - f + 1 - L] /\ failed[n - f + 1] <= at
        BY <1>6, <3>1, <4>1
      <4>4. PICK a \in Nat, b \in Nat, c \in Nat :
               a = failed[i] /\ b = failed[n - f + 1 - L] /\ c = failed[n - f + 1]
        BY <1>1, <3>1, <4>1
      <4>5. at - a > FailureWindow
        <5>1. a <= b /\ c <= at /\ c - b > FailureWindow
          BY <4>2, <4>3, <4>4
        <5> QED
          BY <5>1, ConstantFacts
      <4> QED
        BY <2>2, <3>2, <4>4, <4>5, ConstantFacts
    <3>4. CASE /\ f < n /\ failed[n - f] = w
               /\ f = 0 => g.until >= w + CooldownInitial
               /\ f # 0 => failed[n - f + 1] - failed[n - f] >= CooldownInitial
      <4>1. n - f \in 1 .. n /\ n - f \in i .. (i + run - 2)
        <5>1. f < n
          BY <3>4
        <5>2. f <= L - 1
          BY <1>5
        <5>3. run = 2 * L
          BY <2>1
        <5>4. i \in Nat
          BY <3>1
        <5> QED
          BY <2>3, <5>1, <5>2, <5>3, <5>4, WithinRun
      <4>2. failed'[n - f] = w
        BY <1>2, <3>4, <4>1
      <4>3. failed'[n - f + 1] - failed'[n - f] >= CooldownInitial
        <5>1. CASE f = 0
          BY <1>2, <1>10, <3>4, <4>2, <5>1, ConstantFacts DEF GlobalBucket
        <5>2. CASE f # 0
          <6>1. n - f + 1 \in 1 .. n
            BY <4>1, <5>2
          <6> QED
            BY <1>2, <3>4, <4>1, <5>2, <6>1
        <5> QED
          BY <5>1, <5>2
      <4> QED
        BY <4>1, <4>3
    <3>5. n # 0
      BY <3>1
    <3> QED
      BY <1>7, <3>3, <3>4, <3>5
  <2>4. i + run - 1 <= n \/ i + run - 1 = n + 1
    BY <2>1, <2>2
  <2> QED
    BY <2>3, <2>4, <2>5
<1> QED
  BY <1>13, <1>14

LEMMA FinishLoginKeeps ==
    ASSUME Inv, FinishLogin
    PROVE  Inv'
<1>1. Types /\ Shapes /\ task \in [Tasks -> TaskState] /\ task["http"] \in TaskState
  BY TaskFacts DEF Inv, Types
<1>2. /\ task["http"].pc \in {"answered", "timeout"} /\ task' = [task EXCEPT !["http"] = Idle]
      /\ UNCHANGED <<now, queue, worker, machine, left, granted, known>>
  BY DEF FinishLogin
<1>3. PICK at : at = task["http"].at
  OBVIOUS
<1>4. /\ at \in Nat \ {0} /\ at <= now /\ \A i \in DOMAIN failed : failed[i] <= at
      /\ login.global.until <= at
  BY <1>1, <1>2, <1>3 DEF Inv, Ordered, Busy, AtWorker, TaskState
<1>5. /\ login' = [peers |-> login'.peers, names |-> login'.names, global |-> login'.global,
                   inflight |-> login'.inflight]
      /\ \/ UNCHANGED failed /\ login'.global = login.global
         \/ failed' = Append(failed, at) /\ login'.global = FailureCounted(login.global, at)
  <2> DEFINE t == task["http"]
             released == login.inflight \ {[peer |-> t.peer, name |-> t.name]}
             tables == Preflight(t.peer, t.name, at)
             Cleared(bucket) == [bucket EXCEPT !.failures = 0, !.window = 0]
             p == LoginBucket(tables.peers, t.peer)
             n == LoginBucket(tables.names, t.name)
  <2>1. CASE login' = [login EXCEPT !.inflight = released] /\ UNCHANGED failed
    <3> HIDE DEF released
    <3> QED
      BY <1>1, <2>1 DEF Shapes
  <2>2. ASSUME login' = [ResultRecorded(t.peer, t.name, t.at, TRUE) EXCEPT !.inflight = released],
               UNCHANGED failed
        PROVE  /\ login'.global = login.global
               /\ login' = [peers |-> login'.peers, names |-> login'.names,
                            global |-> login'.global, inflight |-> login'.inflight]
    <3> DEFINE peers == [tables.peers EXCEPT ![p] = Cleared(@)]
               names == [tables.names EXCEPT ![n] = Cleared(@)]
    <3>1. ResultRecorded(t.peer, t.name, t.at, TRUE) = [login EXCEPT !.peers = peers, !.names = names]
      BY <1>3 DEF ResultRecorded
    <3> HIDE DEF peers, names, released
    <3> QED
      BY <1>1, <2>2, <3>1 DEF Shapes
  <2>3. ASSUME login' = [ResultRecorded(t.peer, t.name, t.at, FALSE) EXCEPT !.inflight = released],
               failed' = Append(failed, t.at)
        PROVE  /\ login'.global = FailureCounted(login.global, at) /\ failed' = Append(failed, at)
               /\ login' = [peers |-> login'.peers, names |-> login'.names,
                            global |-> login'.global, inflight |-> login'.inflight]
    <3> DEFINE peers == [tables.peers EXCEPT ![p] = FailureCounted(@, at)]
               names == [tables.names EXCEPT ![n] = FailureCounted(@, at)]
               counted == FailureCounted(login.global, at)
    <3>1. ResultRecorded(t.peer, t.name, t.at, FALSE)
             = [login EXCEPT !.peers = peers, !.names = names, !.global = counted]
      BY <1>3 DEF ResultRecorded
    <3> HIDE DEF peers, names, counted, released
    <3>2. /\ login'.global = counted
          /\ login' = [peers |-> login'.peers, names |-> login'.names,
                       global |-> login'.global, inflight |-> login'.inflight]
      BY <1>1, <2>3, <3>1 DEF Shapes
    <3> QED
      BY <1>3, <2>3, <3>2 DEF counted
  <2> HIDE DEF tables, p, n
  <2> QED
    BY <2>1, <2>2, <2>3 DEF FinishLogin
<1>6. /\ task' \in [Tasks -> TaskState] /\ task'["http"] = Idle
      /\ \A u \in Tasks : u # "http" => task'[u] = task[u]
  BY <1>1, <1>2, TaskFacts
<1>7. failed' \in Seq(Nat)
  <2>1. failed \in Seq(Nat) /\ at \in Nat
    BY <1>1, <1>4 DEF Types
  <2>2. Append(failed, at) \in Seq(Nat)
    BY <2>1
  <2> QED
    BY <1>5, <2>1, <2>2
<1>8. Shapes' /\ Types'
  BY <1>1, <1>2, <1>5, <1>6, <1>7 DEF Shapes, Types
<1>9. SharesAgree'
  BY <1>2, SharesStay DEF Inv
<1>10. RequestsAgree'
  BY <1>1, <1>2, <1>6, RequestsStay, TaskFacts DEF Inv
<1>11. Counted' /\ FailedLoginsCoolDown'
  <2>1. CASE UNCHANGED failed /\ login'.global = login.global
    BY <2>1, CountsStay DEF Inv
  <2>2. CASE failed' = Append(failed, at) /\ login'.global = FailureCounted(login.global, at)
    <3>1. FailureStep(at) /\ at \in Nat
      BY <1>4, <2>2 DEF FailureStep
    <3> QED
      BY <3>1, CountedOnce
  <2> QED
    BY <1>5, <2>1, <2>2
<1>12. Ordered'
  <2>1. CASE UNCHANGED failed
    BY <1>2, <1>6, <2>1, TaskFacts DEF Inv, Ordered, Busy, AtWorker
  <2>2. CASE failed' = Append(failed, at)
    <3>1. PICK n \in Nat : n = Len(failed) /\ DOMAIN failed = 1 .. n
      BY <1>1 DEF Types
    <3>2. /\ DOMAIN failed' = 1 .. (n + 1) /\ failed'[n + 1] = at
          /\ \A i \in 1 .. n : failed'[i] = failed[i]
      BY <1>1, <2>2, <3>1 DEF Types
    <3>3. \A i \in DOMAIN failed' : i \in 1 .. n \/ i = n + 1
      BY <3>2
    <3>4. /\ \A i \in 1 .. n : 0 < failed[i] /\ failed[i] <= now /\ failed[i] <= at
          /\ \A i, j \in 1 .. n : i <= j => failed[i] <= failed[j]
      BY <1>4, <3>1 DEF Inv, Ordered
    <3>5. \A i \in DOMAIN failed' : 0 < failed'[i] /\ failed'[i] <= now
      BY <1>4, <3>2, <3>3, <3>4
    <3>6. ASSUME NEW i \in DOMAIN failed', NEW j \in DOMAIN failed', i <= j
          PROVE  failed'[i] <= failed'[j]
      <4>1. CASE j \in 1 .. n
        <5>1. i \in 1 .. n
          BY <3>2, <3>6, <4>1
        <5> QED
          BY <3>2, <3>4, <3>6, <4>1, <5>1
      <4>2. CASE j = n + 1 /\ i \in 1 .. n
        BY <3>2, <3>4, <4>2
      <4>3. CASE j = n + 1 /\ i = n + 1
        BY <1>4, <3>2, <4>3
      <4> QED
        BY <3>3, <4>1, <4>2, <4>3
    <3> QED
      BY <1>2, <1>6, <3>5, <3>6, TaskFacts DEF Ordered, Busy, AtWorker
  <2> QED
    BY <1>5, <2>1, <2>2
<1>13. TurnKept'
  <2>1. \A t \in BrokerTasks : Busy(t)' <=> Busy(t)
    BY <1>6, TaskFacts DEF Busy
  <2>2. GateAgrees => GateAgrees'
    BY <1>2, <2>1, GateStays
  <2>3. LoginWaits => LoginWaits'
    BY <1>2, <1>6, TaskFacts DEF LoginWaits
  <2> QED
    BY <2>2, <2>3 DEF Inv, TurnKept
<1> QED
  BY <1>8, <1>9, <1>10, <1>11, <1>12, <1>13 DEF Inv

---------------------------------------------------------------------------
(* Machines.                                                               *)

\* A step of a client task that is not in the worker's hands.
LEMMA MachineStepKeeps ==
    ASSUME Inv, NEW t \in BrokerTasks, task[t].pc # "queued",
           UNCHANGED <<now, queue, worker, login, failed>>,
           task' \in [Tasks -> TaskState], \A u \in Tasks : u # t => task'[u] = task[u],
           Shapes', left'.console = left.console, granted' \in Seq(Peers),
           SharesAgree', GateAgrees => (AdmissionMax = 1 => GateAgrees')
    PROVE  Inv'
<1>1. t # "http" /\ t # "console" /\ t \in Tasks
  BY TaskFacts
<1>2. Types /\ RequestsAgree
  BY DEF Inv
<1>3. Types'
  BY <1>2 DEF Types
<1>4. RequestsAgree'
  BY <1>1, <1>2, RequestsStay
<1>5. Counted' /\ FailedLoginsCoolDown'
  BY CountsStay DEF Inv
<1>6. Ordered'
  BY <1>1, <1>2, OrderStays, TaskFacts DEF Inv
<1>7. LoginWaits => LoginWaits'
  BY <1>1, WaitsStay, TaskFacts
<1> QED
  BY <1>3, <1>4, <1>5, <1>6, <1>7 DEF Inv, TurnKept

LEMMA BeginConnectKeeps ==
    ASSUME Inv, NEW t \in BrokerTasks, BeginConnect(t)
    PROVE  Inv'
<1>1. PICK peer \in Addresses :
         task' = [task EXCEPT ![t] = [Idle EXCEPT !.pc = "stamped", !.peer = peer, !.at = now]]
  BY DEF BeginConnect
<1>2. /\ task[t].pc = "idle" /\ left' = [left EXCEPT !.connect = @ - 1]
      /\ UNCHANGED <<now, queue, worker, login, machine, history>>
  BY DEF BeginConnect
<1>3. Types /\ Shapes /\ task \in [Tasks -> TaskState] /\ now \in Nat \ {0} /\ t \in Tasks
  BY TaskFacts DEF Inv, Types
<1> DEFINE begun == [Idle EXCEPT !.pc = "stamped", !.peer = peer, !.at = now]
<1>4. begun \in TaskState /\ begun.pc = "stamped"
  BY <1>3, TaskFacts DEF TaskState, Idle, Peers
<1>5. /\ task' \in [Tasks -> TaskState] /\ task'[t] = begun
      /\ \A u \in Tasks : u # t => task'[u] = task[u]
  BY <1>1, <1>3, <1>4
<1> HIDE DEF begun
<1>6. left' = [login |-> left'.login, connect |-> left'.connect, benchmark |-> left'.benchmark,
               time |-> left'.time, console |-> left'.console]
      /\ left'.console = left.console
  <2>1. PICK n : n = left.connect - 1
    OBVIOUS
  <2> QED
    BY <1>2, <1>3, <2>1 DEF Shapes
<1>7. Shapes' /\ granted' \in Seq(Peers)
  BY <1>2, <1>3, <1>6 DEF Shapes, Types, history
<1>8. SharesAgree'
  BY <1>2, SharesStay DEF Inv, history
<1>9. \A u \in BrokerTasks : Busy(u)' <=> Busy(u)
  BY <1>2, <1>4, <1>5, TaskFacts DEF Busy, AtWorker
<1>10. GateAgrees => GateAgrees'
  BY <1>2, <1>9, GateStays
<1>11. task[t].pc # "queued" /\ UNCHANGED <<now, queue, worker, login, failed>>
  BY <1>2 DEF history
<1> QED
  BY <1>5, <1>6, <1>7, <1>8, <1>10, <1>11, MachineStepKeeps

\* The strangers among the first n grants are at most n.
LEMMA StrangersBound ==
    ASSUME NEW who, NEW s \in Seq(Peers)
    PROVE  Cardinality({i \in DOMAIN s : s[i] \notin who}) <= Len(s)
<1>1. DOMAIN s = 1 .. Len(s) /\ Len(s) \in Nat
  OBVIOUS
<1>2. IsFiniteSet(1 .. Len(s)) /\ Cardinality(1 .. Len(s)) = Len(s)
  <2>1. PICK n \in Nat : n = Len(s)
    BY <1>1
  <2>2. PICK card : card = Cardinality(1 .. n) /\ card = IF 1 > n THEN 0 ELSE n - 1 + 1
    BY FS_Interval
  <2>3. card = n
    BY <2>2
  <2>4. IsFiniteSet(1 .. n)
    BY FS_Interval
  <2> QED
    BY <2>1, <2>2, <2>3, <2>4, Zenon
<1>3. {i \in DOMAIN s : s[i] \notin who} \subseteq 1 .. Len(s)
  BY <1>1
<1> DEFINE strangers == {i \in DOMAIN s : s[i] \notin who}
<1> HIDE DEF strangers
<1>4. Cardinality(strangers) <= Cardinality(1 .. Len(s))
  BY <1>2, <1>3, FS_Subset DEF strangers
<1> QED
  BY <1>2, <1>4 DEF strangers

LEMMA AdmitConnectKeeps ==
    ASSUME Inv, NEW t \in BrokerTasks, AdmitConnect(t)
    PROVE  Inv'
<1>1. /\ Types /\ Shapes /\ SharesAgree /\ task \in [Tasks -> TaskState] /\ t \in Tasks
      /\ task[t] \in TaskState /\ granted \in Seq(Peers)
  BY TaskFacts DEF Inv, Types
<1>2. /\ task[t].pc = "stamped"
      /\ UNCHANGED <<now, queue, worker, login, left, failed, known>>
  BY DEF AdmitConnect
<1>3. PICK peer \in Peers : peer = task[t].peer
  BY <1>1 DEF TaskState
<1>4. PICK at \in Nat : at = task[t].at
  BY <1>1 DEF TaskState
<1> DEFINE buckets == BucketFor(machine.buckets, peer, at)
           b == MachineBucket(buckets, peer)
           claimed == [buckets EXCEPT ![b] = Claimed(@, peer, at)]
           window == IF WindowOver(at) THEN at ELSE machine.window
           opened == [machine EXCEPT !.buckets = claimed, !.window = window, !.spent = Spent(at)]
           earlier == IF WindowOver(at) THEN <<>> ELSE granted
           through == [task[t] EXCEPT !.pc = "admitted"]
<1>5. \/ /\ machine' = [machine EXCEPT !.buckets = claimed]
         /\ task' = [task EXCEPT ![t] = Idle] /\ UNCHANGED granted
      \/ /\ machine' = opened
         /\ task' = [task EXCEPT ![t] = Idle] /\ granted' = earlier
      \/ /\ Spent(at) < Allowance(peer, at) /\ granted' = Append(earlier, peer)
         /\ machine' = [opened EXCEPT !.spent = @ + 1, !.admitted = IF GateOpen THEN @ + 1 ELSE @]
         /\ task' = [task EXCEPT ![t] = IF GateOpen THEN through ELSE Idle]
  BY <1>1, <1>3, <1>4 DEF AdmitConnect, Shapes
<1> HIDE DEF claimed, window
<1>6. /\ earlier \in Seq(Peers) /\ Len(earlier) = Spent(at)
      /\ Cardinality({i \in DOMAIN earlier : earlier[i] \notin known}) <= UnprovenBurst
  <2>1. CASE WindowOver(at)
    <3>1. earlier = <<>> /\ earlier \in Seq(Peers) /\ Len(earlier) = 0 /\ Spent(at) = 0
      BY <2>1 DEF Spent
    <3>2. {i \in DOMAIN earlier : earlier[i] \notin known} = {}
      BY <3>1
    <3>3. Cardinality({}) = 0 /\ 0 <= UnprovenBurst
      BY FS_EmptySet, ConstantFacts
    <3> HIDE DEF earlier
    <3> QED
      BY <3>1, <3>2, <3>3
  <2>2. CASE ~WindowOver(at)
    BY <1>1, <2>2 DEF Spent, SharesAgree, ReservedShareKept
  <2> QED
    BY <2>1, <2>2
<1>7. PICK spent \in Nat : spent = Spent(at)
  BY <1>6
<1> HIDE DEF earlier
<1>8. opened = [buckets |-> claimed, proven |-> machine.proven, window |-> window,
                spent |-> spent, admitted |-> machine.admitted]
  <2>1. opened = [machine EXCEPT !.buckets = claimed, !.window = window, !.spent = spent]
    BY <1>7
  <2> HIDE DEF opened
  <2> QED
    BY <1>1, <2>1 DEF Shapes
<1> HIDE DEF opened
<1>10. ASSUME task' = [task EXCEPT ![t] = Idle], machine'.admitted = machine.admitted
       PROVE  /\ task' \in [Tasks -> TaskState] /\ \A u \in Tasks : u # t => task'[u] = task[u]
              /\ GateAgrees => GateAgrees'
  <2>1. /\ task' \in [Tasks -> TaskState] /\ \A u \in Tasks : u # t => task'[u] = task[u]
        /\ task'[t].pc = "idle"
    BY <1>1, <1>10, TaskFacts
  <2>2. \A u \in BrokerTasks : Busy(u)' <=> Busy(u)
    BY <1>2, <2>1, TaskFacts DEF Busy, AtWorker
  <2> QED
    BY <1>10, <2>1, <2>2, GateStays
<1>11. task[t].pc # "queued" /\ UNCHANGED <<now, queue, worker, login, failed>>
       /\ left'.console = left.console
  BY <1>2
<1>12. CASE /\ machine' = [machine EXCEPT !.buckets = claimed]
            /\ task' = [task EXCEPT ![t] = Idle] /\ UNCHANGED granted
  <2>1. machine' = [buckets |-> claimed, proven |-> machine.proven, window |-> machine.window,
                    spent |-> machine.spent, admitted |-> machine.admitted]
    BY <1>1, <1>12 DEF Shapes
  <2>2. Shapes' /\ machine'.admitted = machine.admitted
    BY <1>1, <1>2, <2>1 DEF Shapes
  <2>3. SharesAgree'
    BY <1>1, <1>2, <1>12, <2>1, SharesStay
  <2> QED
    BY <1>1, <1>10, <1>11, <1>12, <2>2, <2>3, MachineStepKeeps
<1>13. CASE /\ machine' = opened
            /\ task' = [task EXCEPT ![t] = Idle] /\ granted' = earlier
  <2>1. Shapes' /\ machine'.admitted = machine.admitted
    BY <1>1, <1>2, <1>8, <1>13 DEF Shapes
  <2>2. SharesAgree'
    BY <1>1, <1>2, <1>6, <1>7, <1>8, <1>13 DEF SharesAgree, ReservedShareKept
  <2> QED
    BY <1>6, <1>10, <1>11, <1>13, <2>1, <2>2, MachineStepKeeps
<1>14. CASE /\ Spent(at) < Allowance(peer, at) /\ granted' = Append(earlier, peer)
            /\ machine' = [opened EXCEPT !.spent = @ + 1, !.admitted = IF GateOpen THEN @ + 1 ELSE @]
            /\ task' = [task EXCEPT ![t] = IF GateOpen THEN through ELSE Idle]
  <2>1. PICK admitted : admitted = IF GateOpen THEN machine.admitted + 1 ELSE machine.admitted
    OBVIOUS
  <2>2. machine' = [buckets |-> claimed, proven |-> machine.proven, window |-> window,
                    spent |-> spent + 1, admitted |-> admitted]
    BY <1>8, <1>14, <2>1
  <2>3. Shapes'
    BY <1>1, <1>2, <2>2 DEF Shapes
  <2>4. /\ granted' \in Seq(Peers) /\ Len(granted') = spent + 1
        /\ DOMAIN granted' = 1 .. (spent + 1) /\ granted'[spent + 1] = peer
        /\ \A i \in 1 .. spent : granted'[i] = earlier[i]
    BY <1>3, <1>6, <1>7, <1>14
  <2>5. ReservedShareKept'
    <3>1. CASE peer \in known
      <4>1. {i \in DOMAIN granted' : granted'[i] \notin known}
               = {i \in DOMAIN earlier : earlier[i] \notin known}
        <5>1. DOMAIN earlier = 1 .. spent
          BY <1>6, <1>7
        <5>2. \A i \in 1 .. (spent + 1) : i \in 1 .. spent \/ i = spent + 1
          BY <1>7
        <5> QED
          BY <2>4, <3>1, <5>1, <5>2
      <4> QED
        BY <1>2, <1>6, <4>1 DEF ReservedShareKept
    <3>2. CASE peer \notin known
      <4>1. ~IsProven(peer, at)
        BY <1>1, <3>2 DEF SharesAgree, IsProven, Live
      <4>2. spent + 1 <= UnprovenBurst
        BY <1>7, <1>14, <4>1, ConstantFacts DEF Allowance
      <4>3. Cardinality({i \in DOMAIN granted' : granted'[i] \notin known}) <= spent + 1
        BY <2>4, StrangersBound
      <4>4. Cardinality({i \in DOMAIN granted' : granted'[i] \notin known}) \in Nat
        <5>1. IsFiniteSet(1 .. (spent + 1))
          BY FS_Interval
        <5>2. {i \in DOMAIN granted' : granted'[i] \notin known} \subseteq 1 .. (spent + 1)
          BY <2>4
        <5> QED
          BY <5>1, <5>2, FS_Subset, FS_CardinalityType
      <4> QED
        BY <1>2, <4>2, <4>3, <4>4, ConstantFacts DEF ReservedShareKept
    <3> QED
      BY <3>1, <3>2
  <2>6. SharesAgree'
    BY <1>1, <1>2, <2>2, <2>4, <2>5 DEF SharesAgree
  <2>7. CASE ~GateOpen
    <3>1. machine'.admitted = machine.admitted
      BY <2>1, <2>2, <2>7
    <3>2. task' = [task EXCEPT ![t] = Idle]
      BY <1>14, <2>7
    <3> QED
      BY <1>10, <1>11, <2>3, <2>4, <2>6, <3>1, <3>2, MachineStepKeeps
  <2>8. CASE GateOpen
    <3>1. through \in TaskState /\ through.pc = "admitted"
      BY <1>1 DEF TaskState, AtWorker
    <3> HIDE DEF through
    <3>2. /\ task' \in [Tasks -> TaskState] /\ task'[t] = through
          /\ \A u \in Tasks : u # t => task'[u] = task[u]
      BY <1>1, <1>14, <2>8, <3>1
    <3>3. /\ Busy(t)' /\ ~Busy(t)
          /\ \A u \in BrokerTasks : u # t => (Busy(u)' <=> Busy(u))
      BY <1>2, <3>1, <3>2, TaskFacts DEF Busy, AtWorker
    <3>4. ASSUME GateAgrees, AdmissionMax = 1
          PROVE  GateAgrees'
      <4>1. machine.admitted = 0 /\ \A u \in BrokerTasks : ~Busy(u)
        BY <2>8, <3>4 DEF GateAgrees, GateOpen
      <4>2. machine'.admitted = 1
        BY <2>1, <2>2, <2>8, <4>1
      <4> QED
        BY <3>3, <4>1, <4>2 DEF GateAgrees
    <3> QED
      BY <1>11, <2>3, <2>4, <2>6, <3>2, <3>4, MachineStepKeeps
  <2> QED
    BY <2>7, <2>8
<1> QED
  BY <1>5, <1>12, <1>13, <1>14

LEMMA FinishConnectKeeps ==
    ASSUME Inv, NEW t \in BrokerTasks, FinishConnect(t)
    PROVE  Inv'
<1>1. /\ Types /\ Shapes /\ SharesAgree /\ task \in [Tasks -> TaskState] /\ t \in Tasks
      /\ task[t] \in TaskState /\ granted \in Seq(Peers)
  BY TaskFacts DEF Inv, Types
<1>2. /\ task[t].pc \in {"answered", "timeout"} /\ task' = [task EXCEPT ![t] = Idle]
      /\ UNCHANGED <<now, queue, worker, login, left, failed, granted>>
  BY DEF FinishConnect
<1>3. PICK peer : peer = task[t].peer
  OBVIOUS
<1>4. PICK at \in Nat : at = task[t].at
  BY <1>1 DEF TaskState
<1>5. \E buckets, proven : /\ machine' = [machine EXCEPT !.admitted = @ - 1, !.buckets = buckets, !.proven = proven]
                           /\ \/ proven = machine.proven /\ known' = known
                              \/ proven = MarkProven(peer, at) /\ known' = known \cup {peer}
  <2> DEFINE fitting == BucketFor(machine.buckets, peer, at)
             b == MachineBucket(fitting, peer)
             recorded(success) == [fitting EXCEPT ![b] = AuthRecorded(@, at, success)]
  <2>1. PICK success \in BOOLEAN :
           /\ machine' = [machine EXCEPT !.admitted = @ - 1, !.buckets = recorded(success),
                              !.proven = IF success THEN MarkProven(peer, at) ELSE @]
           /\ known' = IF success THEN known \cup {peer} ELSE known
    BY <1>3, <1>4 DEF FinishConnect
  <2>2. PICK buckets : buckets = recorded(success)
    OBVIOUS
  <2>3. PICK proven : proven = IF success THEN MarkProven(peer, at) ELSE machine.proven
    OBVIOUS
  <2> HIDE DEF recorded
  <2>4. machine' = [machine EXCEPT !.admitted = @ - 1, !.buckets = buckets, !.proven = proven]
    BY <1>1, <2>1, <2>2, <2>3 DEF Shapes
  <2> QED
    BY <2>1, <2>3, <2>4
<1>6. PICK buckets, proven :
         /\ machine' = [machine EXCEPT !.admitted = @ - 1, !.buckets = buckets, !.proven = proven]
         /\ \/ proven = machine.proven /\ known' = known
            \/ proven = MarkProven(peer, at) /\ known' = known \cup {peer}
  BY <1>5
<1>7. PICK admitted : admitted = machine.admitted - 1
  OBVIOUS
<1>8. machine' = [buckets |-> buckets, proven |-> proven, window |-> machine.window,
                  spent |-> machine.spent, admitted |-> admitted]
  BY <1>1, <1>6, <1>7 DEF Shapes
<1>9. Shapes'
  BY <1>1, <1>2, <1>8 DEF Shapes
<1>10. /\ proven = [i \in DOMAIN proven |-> proven[i]]
       /\ \A i \in DOMAIN proven : proven[i].used => proven[i].key \in known'
  <2>1. CASE proven = machine.proven /\ known' = known
    BY <1>1, <2>1 DEF SharesAgree
  <2>2. CASE proven = MarkProven(peer, at) /\ known' = known \cup {peer}
    <3>1. \E slot : proven = [machine.proven EXCEPT ![slot] = [key |-> peer, used |-> TRUE, at |-> at]]
      BY <2>2 DEF MarkProven
    <3>2. PICK slot : proven = [machine.proven EXCEPT ![slot] = [key |-> peer, used |-> TRUE, at |-> at]]
      BY <3>1
    <3> DEFINE entry == [key |-> peer, used |-> TRUE, at |-> at]
    <3>3. entry.key = peer /\ proven = [machine.proven EXCEPT ![slot] = entry]
      BY <3>2
    <3> HIDE DEF entry
    <3>4. /\ DOMAIN proven = DOMAIN machine.proven
          /\ proven = [i \in DOMAIN proven |-> proven[i]]
          /\ \A i \in DOMAIN proven : proven[i] = entry \/ proven[i] = machine.proven[i]
      BY <1>1, <3>2, <3>3 DEF SharesAgree
    <3> QED
      BY <1>1, <2>2, <3>3, <3>4 DEF SharesAgree
  <2> QED
    BY <1>6, <2>1, <2>2
<1>11. ReservedShareKept'
  <2> DEFINE Strangers(who) == {i \in DOMAIN granted : granted[i] \notin who}
  <2>1. IsFiniteSet(Strangers(known))
    <3>1. DOMAIN granted = 1 .. Len(granted) /\ Len(granted) \in Nat
      BY <1>1
    <3>2. IsFiniteSet(1 .. Len(granted))
      BY <3>1, FS_Interval
    <3> QED
      BY <3>1, <3>2, FS_Subset
  <2>2. Strangers(known') \subseteq Strangers(known)
    BY <1>6
  <2>3. /\ Cardinality(Strangers(known')) <= Cardinality(Strangers(known))
        /\ Cardinality(Strangers(known')) \in Nat /\ Cardinality(Strangers(known)) \in Nat
    BY <2>1, <2>2, FS_Subset, FS_CardinalityType
  <2>4. Cardinality(Strangers(known)) <= UnprovenBurst
    BY <1>1 DEF SharesAgree, ReservedShareKept
  <2> QED
    BY <1>2, <2>3, <2>4, ConstantFacts DEF ReservedShareKept
<1>12. SharesAgree'
  BY <1>1, <1>2, <1>8, <1>10, <1>11 DEF SharesAgree
<1>13. /\ task' \in [Tasks -> TaskState] /\ task'[t].pc = "idle"
       /\ \A u \in Tasks : u # t => task'[u] = task[u]
  BY <1>1, <1>2, TaskFacts
<1>14. GateAgrees => GateAgrees'
  <2>1. Busy(t) /\ ~Busy(t)' /\ \A u \in BrokerTasks : u # t => (Busy(u)' <=> Busy(u))
    BY <1>2, <1>13, TaskFacts DEF Busy, AtWorker
  <2>2. GateAgrees => /\ machine.admitted = 1
                      /\ \A u \in BrokerTasks : Busy(u) <=> u = t
    BY <2>1 DEF GateAgrees
  <2>3. machine.admitted = 1 => machine'.admitted = 0
    BY <1>7, <1>8
  <2> QED
    BY <2>1, <2>2, <2>3 DEF GateAgrees
<1>15. /\ task[t].pc # "queued" /\ UNCHANGED <<now, queue, worker, login, failed>>
       /\ left'.console = left.console /\ granted' \in Seq(Peers)
  BY <1>1, <1>2
<1> QED
  BY <1>9, <1>12, <1>13, <1>14, <1>15, MachineStepKeeps

---------------------------------------------------------------------------
(* The console, the worker and time.                                       *)

\* What follows when only the requests, the worker and the tasks move.
LEMMA WorkerStepKeeps ==
    ASSUME Inv, UNCHANGED <<now, login, machine, left, history>>,
           task' \in [Tasks -> TaskState], queue' \in Seq(Tasks),
           worker' = Nobody \/ worker' \in [task : Tasks, left : Nat],
           RequestsAgree',
           \A u \in Tasks : Busy(u)' <=> Busy(u),
           \A u \in Tasks : task'[u].at = task[u].at,
           \A u \in Tasks : task'[u].pc = "idle" <=> task[u].pc = "idle",
           GateAgrees /\ LoginWaits => LoginWaits'
    PROVE  Inv'
<1>1. Shapes' /\ Types'
  BY DEF Inv, Shapes, Types, history
<1>2. SharesAgree'
  BY SharesStay DEF Inv, history
<1>3. Counted' /\ FailedLoginsCoolDown'
  BY CountsStay DEF Inv, history
<1>4. Ordered'
  BY TaskFacts DEF Inv, Ordered, history
<1>5. GateAgrees => GateAgrees'
  BY GateStays, TaskFacts
<1> QED
  BY <1>1, <1>2, <1>3, <1>4, <1>5 DEF Inv, TurnKept

\* One task goes on.
LEMMA TaskMoves ==
    ASSUME Inv, NEW t \in Tasks, NEW pc \in AtWorker, NEW since \in Nat, task[t].pc \in AtWorker,
           task' = [task EXCEPT ![t].pc = pc, ![t].since = since]
    PROVE  /\ task' \in [Tasks -> TaskState] /\ \A u \in Tasks : u # t => task'[u] = task[u]
           /\ task'[t].pc = pc /\ task'[t].since = since
           /\ \A u \in Tasks : /\ Busy(u)' <=> Busy(u)
                               /\ task'[u].at = task[u].at
                               /\ task'[u].pc = "idle" <=> task[u].pc = "idle"
<1>1. task \in [Tasks -> TaskState] /\ task[t] \in TaskState
  BY DEF Inv, Types
<1> DEFINE new == [task[t] EXCEPT !.pc = pc, !.since = since]
<1>2. new \in TaskState /\ new.pc = pc /\ new.since = since /\ new.at = task[t].at
  BY <1>1 DEF TaskState
<1>3. task' = [task EXCEPT ![t] = new]
  BY <1>1
<1> HIDE DEF new
<1>4. /\ task' \in [Tasks -> TaskState] /\ \A u \in Tasks : u # t => task'[u] = task[u]
      /\ task'[t] = new
  BY <1>1, <1>2, <1>3
<1> QED
  BY <1>2, <1>4 DEF Busy, AtWorker

\* Who enters the queue is not there yet.
LEMMA Enters ==
    ASSUME Inv, NEW t \in Tasks, task[t].pc \in {"admitted", "waiting"}, queue = <<>>,
           queue' = <<t>>, UNCHANGED worker,
           task'[t].pc = "queued", \A u \in Tasks : u # t => task'[u] = task[u]
    PROVE  RequestsAgree' /\ queue' \in Seq(Tasks)
<1>1. /\ queue' \in Seq(Tasks) /\ Len(queue') = 1 /\ DOMAIN queue' = {1} /\ queue'[1] = t
  OBVIOUS
<1>2. worker = Nobody \/ (worker.task \in Tasks /\ task[worker.task].pc = "queued")
  BY DEF Inv, Types, RequestsAgree
<1>3. worker.task # t
  BY <1>2, TaskFacts DEF Nobody
<1> QED
  BY <1>1, <1>2, <1>3 DEF RequestsAgree

LEMMA SubmitKeeps ==
    ASSUME Inv, NEW t \in Tasks, Submit(t)
    PROVE  Inv'
<1>1. /\ task[t].pc = "admitted" /\ UNCHANGED <<now, worker, login, machine, left, history>>
  BY DEF Submit
<1>2. /\ task \in [Tasks -> TaskState] /\ task[t] \in TaskState /\ now \in Nat
      /\ queue \in Seq(Tasks) /\ Types /\ RequestsAgree
      /\ worker = Nobody \/ worker \in [task : Tasks, left : Nat]
  BY DEF Inv, Types
<1>3. PICK since \in Nat : since = task[t].since
  BY <1>2 DEF TaskState
<1>4. CASE queue = <<>> /\ queue' = <<t>> /\ task' = [task EXCEPT ![t].pc = "queued"]
  <2>1. task' = [task EXCEPT ![t].pc = "queued", ![t].since = since]
    BY <1>2, <1>3, <1>4 DEF TaskState
  <2>2. /\ task' \in [Tasks -> TaskState] /\ \A u \in Tasks : u # t => task'[u] = task[u]
        /\ task'[t].pc = "queued"
        /\ \A u \in Tasks : /\ Busy(u)' <=> Busy(u)
                            /\ task'[u].at = task[u].at
                            /\ task'[u].pc = "idle" <=> task[u].pc = "idle"
    BY <1>1, <2>1, TaskMoves DEF AtWorker
  <2>3. RequestsAgree' /\ queue' \in Seq(Tasks)
    BY <1>1, <1>4, <2>2, Enters
  <2>4. LoginWaits => LoginWaits'
    BY <1>1, <2>2, TaskFacts DEF LoginWaits
  <2> QED
    BY <1>1, <1>2, <2>2, <2>3, <2>4, WorkerStepKeeps
<1>5. CASE /\ task' = [task EXCEPT ![t].pc = "waiting", ![t].since = now]
           /\ UNCHANGED queue
  <2>1. /\ task' \in [Tasks -> TaskState] /\ \A u \in Tasks : u # t => task'[u] = task[u]
        /\ task'[t].pc = "waiting" /\ task'[t].since = now
        /\ \A u \in Tasks : /\ Busy(u)' <=> Busy(u)
                            /\ task'[u].at = task[u].at
                            /\ task'[u].pc = "idle" <=> task[u].pc = "idle"
    BY <1>1, <1>2, <1>5, TaskMoves DEF AtWorker
  <2>2. RequestsAgree'
    BY <1>1, <1>2, <1>5, <2>1, RequestsStay
  <2>3. LoginWaits => LoginWaits'
    BY <1>1, <2>1, TaskFacts DEF LoginWaits
  <2> QED
    BY <1>1, <1>2, <1>5, <2>1, <2>2, <2>3, WorkerStepKeeps
<1> QED
  BY <1>4, <1>5 DEF Submit

LEMMA SlotFreesKeeps ==
    ASSUME Inv, NEW t \in Tasks, SlotFrees(t)
    PROVE  Inv'
<1>1. /\ task[t].pc = "waiting" /\ queue = <<>> /\ queue' = <<t>>
      /\ task' = [task EXCEPT ![t].pc = "queued"]
      /\ UNCHANGED <<now, worker, login, machine, left, history>>
  BY DEF SlotFrees
<1>2. /\ task \in [Tasks -> TaskState] /\ task[t] \in TaskState
      /\ worker = Nobody \/ worker \in [task : Tasks, left : Nat]
  BY DEF Inv, Types
<1>3. PICK since \in Nat : since = task[t].since
  BY <1>2 DEF TaskState
<1>4. task' = [task EXCEPT ![t].pc = "queued", ![t].since = since]
  BY <1>1, <1>2, <1>3 DEF TaskState
<1>5. /\ task' \in [Tasks -> TaskState] /\ \A u \in Tasks : u # t => task'[u] = task[u]
      /\ task'[t].pc = "queued"
      /\ \A u \in Tasks : /\ Busy(u)' <=> Busy(u)
                          /\ task'[u].at = task[u].at
                          /\ task'[u].pc = "idle" <=> task[u].pc = "idle"
  BY <1>1, <1>4, TaskMoves DEF AtWorker
<1>6. RequestsAgree' /\ queue' \in Seq(Tasks)
  BY <1>1, <1>5, Enters
<1>7. LoginWaits => LoginWaits'
  BY <1>1, <1>5, TaskFacts DEF LoginWaits
<1> QED
  BY <1>1, <1>2, <1>5, <1>6, <1>7, WorkerStepKeeps

LEMMA GivesUpKeeps ==
    ASSUME Inv, NEW t \in Tasks, GivesUp(t)
    PROVE  Inv'
<1>1. /\ task[t].pc = "waiting" /\ now - task[t].since >= SubmitWait
      /\ task' = [task EXCEPT ![t].pc = "timeout"]
      /\ UNCHANGED <<now, queue, worker, login, machine, left, history>>
  BY DEF GivesUp
<1>2. /\ task \in [Tasks -> TaskState] /\ task[t] \in TaskState /\ Types /\ RequestsAgree
      /\ worker = Nobody \/ worker \in [task : Tasks, left : Nat]
      /\ queue \in Seq(Tasks) /\ now \in Nat
  BY DEF Inv, Types
<1>3. PICK since \in Nat : since = task[t].since
  BY <1>2 DEF TaskState
<1>4. task' = [task EXCEPT ![t].pc = "timeout", ![t].since = since]
  BY <1>1, <1>2, <1>3 DEF TaskState
<1>5. /\ task' \in [Tasks -> TaskState] /\ \A u \in Tasks : u # t => task'[u] = task[u]
      /\ task'[t].pc = "timeout"
      /\ \A u \in Tasks : /\ Busy(u)' <=> Busy(u)
                          /\ task'[u].at = task[u].at
                          /\ task'[u].pc = "idle" <=> task[u].pc = "idle"
  BY <1>1, <1>4, TaskMoves DEF AtWorker
<1>6. RequestsAgree'
  BY <1>1, <1>2, <1>5, RequestsStay
<1>7. since # now
  BY <1>1, <1>2, <1>3, ConstantFacts
<1>8. LoginWaits => LoginWaits'
  BY <1>1, <1>3, <1>5, <1>7, TaskFacts DEF LoginWaits
<1> QED
  BY <1>1, <1>2, <1>5, <1>6, <1>8, WorkerStepKeeps

LEMMA TakeKeeps ==
    ASSUME Inv, Take
    PROVE  Inv'
<1>1. /\ worker = Nobody /\ queue # <<>> /\ queue' = <<>>
      /\ worker' = [task |-> Head(queue),
                    left |-> IF Head(queue) = "console" THEN BenchmarkTime ELSE 1]
      /\ UNCHANGED <<now, task, login, machine, left, history>>
  BY DEF Take
<1>2. /\ task \in [Tasks -> TaskState] /\ queue \in Seq(Tasks) /\ RequestsAgree
  BY DEF Inv, Types
<1>3. PICK t \in Tasks : t = Head(queue) /\ t = queue[1] /\ 1 \in DOMAIN queue
  BY <1>1, <1>2
<1>4. task[t].pc = "queued"
  BY <1>2, <1>3 DEF RequestsAgree
<1>5. worker' \in [task : Tasks, left : Nat] /\ worker'.task = t
  BY <1>1, <1>3, ConstantFacts
<1>6. queue' \in Seq(Tasks) /\ Len(queue') = 0 /\ DOMAIN queue' = {}
  BY <1>1
<1>7. RequestsAgree'
  BY <1>1, <1>4, <1>5, <1>6 DEF RequestsAgree
<1>8. /\ \A u \in Tasks : Busy(u)' <=> Busy(u)
      /\ \A u \in Tasks : task'[u].at = task[u].at
      /\ \A u \in Tasks : task'[u].pc = "idle" <=> task[u].pc = "idle"
      /\ LoginWaits => LoginWaits'
  BY <1>1 DEF Busy, LoginWaits
<1>9. task' \in [Tasks -> TaskState]
  BY <1>1, <1>2
<1> QED
  BY <1>1, <1>5, <1>6, <1>7, <1>8, <1>9, WorkerStepKeeps

LEMMA DerivedKeeps ==
    ASSUME Inv, Derived
    PROVE  Inv'
<1>1. /\ worker # Nobody /\ worker' = Nobody
      /\ task' = [task EXCEPT ![worker.task].pc = "answered"]
      /\ UNCHANGED <<now, queue, login, machine, left, history>>
  BY DEF Derived
<1>2. /\ task \in [Tasks -> TaskState] /\ queue \in Seq(Tasks) /\ RequestsAgree
      /\ worker \in [task : Tasks, left : Nat]
  BY <1>1 DEF Inv, Types
<1>3. PICK t \in Tasks : t = worker.task
  BY <1>2
<1>4. task[t].pc = "queued" /\ task[t] \in TaskState
  BY <1>1, <1>2, <1>3 DEF RequestsAgree
<1>5. PICK since \in Nat : since = task[t].since
  BY <1>4 DEF TaskState
<1>6. task' = [task EXCEPT ![t].pc = "answered", ![t].since = since]
  BY <1>1, <1>2, <1>3, <1>4, <1>5 DEF TaskState
<1>7. /\ task' \in [Tasks -> TaskState] /\ \A u \in Tasks : u # t => task'[u] = task[u]
      /\ task'[t].pc = "answered"
      /\ \A u \in Tasks : /\ Busy(u)' <=> Busy(u)
                          /\ task'[u].at = task[u].at
                          /\ task'[u].pc = "idle" <=> task[u].pc = "idle"
  BY <1>4, <1>6, TaskMoves DEF AtWorker
<1>8. \A i \in DOMAIN queue : queue[i] \in Tasks /\ queue[i] # t /\ task[queue[i]].pc = "queued"
  BY <1>2, <1>3 DEF RequestsAgree
<1>9. RequestsAgree'
  <2>1. worker'.task = "none"
    BY <1>1 DEF Nobody
  <2> QED
    BY <1>1, <1>2, <1>7, <1>8, <2>1, TaskFacts DEF RequestsAgree
<1>10. LoginWaits => LoginWaits'
  BY <1>1, <1>4, <1>7, TaskFacts DEF LoginWaits
<1> QED
  BY <1>1, <1>2, <1>7, <1>9, <1>10, WorkerStepKeeps

LEMMA BeginBenchmarkKeeps ==
    ASSUME Inv, BeginBenchmark
    PROVE  Inv'
<1>1. /\ task["console"].pc = "idle" /\ task' = [task EXCEPT !["console"].pc = "admitted"]
      /\ left' = [left EXCEPT !.benchmark = @ - 1, !.console = TRUE]
      /\ UNCHANGED <<now, queue, worker, login, machine, history>>
  BY DEF BeginBenchmark
<1>2. /\ task \in [Tasks -> TaskState] /\ task["console"] \in TaskState /\ Types /\ Shapes
  BY TaskFacts DEF Inv, Types
<1>3. /\ task' \in [Tasks -> TaskState] /\ \A u \in Tasks : u # "console" => task'[u] = task[u]
  BY <1>1, <1>2, TaskFacts DEF TaskState, AtWorker
<1>4. /\ left' = [login |-> left'.login, connect |-> left'.connect, benchmark |-> left'.benchmark,
                  time |-> left'.time, console |-> left'.console]
      /\ left'.console = TRUE
  <2>1. PICK n : n = left.benchmark - 1
    OBVIOUS
  <2> QED
    BY <1>1, <1>2, <2>1 DEF Shapes
<1>5. Shapes' /\ Types'
  BY <1>1, <1>2, <1>3, <1>4 DEF Shapes, Types, history
<1>6. SharesAgree'
  BY <1>1, SharesStay DEF Inv, history
<1>7. RequestsAgree'
  BY <1>1, <1>2, <1>3, RequestsStay, TaskFacts DEF Inv
<1>8. Counted' /\ FailedLoginsCoolDown'
  BY <1>1, CountsStay DEF Inv, history
<1>9. Ordered'
  BY <1>1, <1>2, <1>3, OrderStays, TaskFacts DEF Inv, history
<1>10. TurnKept'
  <2>1. \A u \in BrokerTasks : Busy(u)' <=> Busy(u)
    BY <1>3, TaskFacts DEF Busy
  <2>2. GateAgrees => GateAgrees'
    BY <1>1, <2>1, GateStays
  <2> QED
    BY <1>4, <2>2 DEF Inv, TurnKept, LoginWaits
<1> QED
  BY <1>5, <1>6, <1>7, <1>8, <1>9, <1>10 DEF Inv

LEMMA FinishBenchmarkKeeps ==
    ASSUME Inv, FinishBenchmark
    PROVE  Inv'
<1>1. /\ task["console"].pc \in {"answered", "timeout"} /\ task' = [task EXCEPT !["console"] = Idle]
      /\ UNCHANGED <<now, queue, worker, login, machine, left, history>>
  BY DEF FinishBenchmark
<1>2. /\ task \in [Tasks -> TaskState] /\ task["console"] \in TaskState /\ Types /\ Shapes
  BY TaskFacts DEF Inv, Types
<1>3. /\ task' \in [Tasks -> TaskState] /\ \A u \in Tasks : u # "console" => task'[u] = task[u]
      /\ task'["console"].pc = "idle"
  BY <1>1, <1>2, TaskFacts
<1>4. Shapes' /\ Types'
  BY <1>1, <1>2, <1>3 DEF Shapes, Types, history
<1>5. SharesAgree'
  BY <1>1, SharesStay DEF Inv, history
<1>6. RequestsAgree'
  BY <1>1, <1>2, <1>3, RequestsStay, TaskFacts DEF Inv
<1>7. Counted' /\ FailedLoginsCoolDown'
  BY <1>1, CountsStay DEF Inv, history
<1>8. Ordered'
  BY <1>1, <1>2, <1>3, OrderStays, TaskFacts DEF Inv, history
<1>9. TurnKept'
  <2>1. \A u \in BrokerTasks : Busy(u)' <=> Busy(u)
    BY <1>3, TaskFacts DEF Busy
  <2>2. GateAgrees => GateAgrees'
    BY <1>1, <2>1, GateStays
  <2>3. LoginWaits => LoginWaits'
    BY <1>1, <1>3, TaskFacts DEF LoginWaits
  <2> QED
    BY <2>2, <2>3 DEF Inv, TurnKept
<1> QED
  BY <1>4, <1>5, <1>6, <1>7, <1>8, <1>9 DEF Inv

\* With the console out of the way and a gate for one machine, the queue cannot
\* be full while the worker has another request, unless the login is one of the
\* two: a login that waits has something urgent before it.
LEMMA NobodyWaitsAlong ==
    ASSUME Inv, GateAgrees, LoginWaits, ~left.console, ~Urgent
    PROVE  task["http"].pc # "waiting"
<1> SUFFICES ASSUME task["http"].pc = "waiting"
             PROVE  FALSE
  OBVIOUS
<1>1. queue # <<>> /\ worker # Nobody
  BY TaskFacts DEF Urgent
<1>2. /\ queue \in Seq(Tasks) /\ RequestsAgree /\ task["console"].pc = "idle"
      /\ worker \in [task : Tasks, left : Nat]
  BY <1>1 DEF Inv, Types, LoginWaits
<1>3. PICK t \in Tasks : t = queue[1] /\ 1 \in DOMAIN queue
  BY <1>1, <1>2
<1>4. PICK u \in Tasks : u = worker.task
  BY <1>2
<1>5. task[t].pc = "queued" /\ task[u].pc = "queued" /\ t # u
  BY <1>1, <1>2, <1>3, <1>4 DEF RequestsAgree
<1>6. t \in BrokerTasks /\ u \in BrokerTasks
  BY <1>2, <1>5, TaskFacts
<1>7. Busy(t) /\ Busy(u)
  BY <1>5 DEF Busy, AtWorker
<1> QED
  BY <1>5, <1>6, <1>7 DEF GateAgrees

LEMMA TickKeeps ==
    ASSUME Inv, Tick
    PROVE  Inv'
<1>1. /\ ~Urgent /\ now' = now + 1
      /\ worker' = IF worker = Nobody THEN worker ELSE [worker EXCEPT !.left = @ - 1]
      /\ UNCHANGED <<task, queue, login, machine, left, history>>
  BY DEF Tick
<1>2. /\ Types /\ Shapes /\ RequestsAgree /\ now \in Nat \ {0} /\ failed \in Seq(Nat)
      /\ task["http"] \in TaskState
      /\ worker = Nobody \/ worker \in [task : Tasks, left : Nat]
  BY TaskFacts DEF Inv, Types
<1>3. /\ worker' = Nobody \/ worker' \in [task : Tasks, left : Nat]
      /\ worker'.task = worker.task /\ (worker' # Nobody => worker # Nobody)
  <2>1. CASE worker = Nobody
    BY <1>1, <2>1
  <2>2. CASE worker # Nobody
    <3>1. PICK n \in Nat, t \in Tasks : n # 0 /\ worker = [task |-> t, left |-> n]
      <4>1. worker.left # 0
        BY <1>1, <2>2 DEF Urgent
      <4> QED
        BY <1>2, <2>2, <4>1
    <3>2. PICK m \in Nat : m = n - 1
      BY <3>1
    <3>3. worker' = [task |-> t, left |-> m]
      BY <1>1, <2>2, <3>1, <3>2
    <3> QED
      BY <2>2, <3>1, <3>2, <3>3
  <2> QED
    BY <2>1, <2>2
<1>4. now' \in Nat \ {0} /\ now <= now'
  BY <1>1, <1>2
<1>5. Shapes' /\ Types'
  BY <1>1, <1>2, <1>3, <1>4 DEF Shapes, Types, history
<1>6. SharesAgree'
  BY <1>1, SharesStay DEF Inv, history
<1>7. RequestsAgree'
  BY <1>1, <1>2, <1>3 DEF RequestsAgree
<1>8. Counted' /\ FailedLoginsCoolDown'
  BY <1>1, CountsStay DEF Inv, history
<1>9. Ordered'
  <2>1. \A i \in DOMAIN failed : failed[i] \in Nat
    BY <1>2
  <2>2. task["http"].at \in Nat
    BY <1>2 DEF TaskState
  <2> QED
    BY <1>1, <1>2, <1>4, <2>1, <2>2 DEF Inv, Ordered, Busy, history
<1>10. TurnKept'
  <2>1. GateAgrees => GateAgrees'
    BY <1>1, GateStays DEF Busy
  <2>2. GateAgrees /\ LoginWaits => LoginWaits'
    BY <1>1, NobodyWaitsAlong DEF LoginWaits
  <2> QED
    BY <2>1, <2>2 DEF Inv, TurnKept
<1> QED
  BY <1>5, <1>6, <1>7, <1>8, <1>9, <1>10 DEF Inv

---------------------------------------------------------------------------
(* The theorems.                                                           *)

LEMMA InitInv == Init => Inv
<1> SUFFICES ASSUME Init PROVE Inv
  OBVIOUS
<1>1. /\ now = 1 /\ task = [t \in Tasks |-> Idle] /\ queue = <<>> /\ worker = Nobody
      /\ failed = <<>> /\ granted = <<>> /\ known = {}
  BY DEF Init
<1>2. PICK buckets, proven :
         /\ proven = [i \in 1 .. ProvenSources |-> NoSource]
         /\ machine = [buckets |-> buckets, proven |-> proven, window |-> 0, spent |-> 0,
                       admitted |-> 0]
  BY DEF Init
<1>3. PICK peers, everybody :
         /\ everybody = [EmptyBucket EXCEPT !.key = "everybody"]
         /\ login = [peers |-> peers, names |-> peers, global |-> everybody, inflight |-> {}]
  BY DEF Init
<1>4. PICK b \in Budgets : left = [login |-> b.login, connect |-> b.connect,
                                   benchmark |-> b.benchmark, time |-> b.time, console |-> FALSE]
  BY DEF Init
<1>5. left.console = FALSE
  BY <1>4
<1>6. Shapes
  BY <1>2, <1>3, <1>4 DEF Shapes
<1>7. \A t \in Tasks : task[t] = Idle /\ ~Busy(t)
  BY <1>1, TaskFacts DEF Busy, AtWorker
<1>8. Types
  <2>1. task \in [Tasks -> TaskState]
    BY <1>1, TaskFacts
  <2>2. queue \in Seq(Tasks) /\ failed \in Seq(Nat) /\ granted \in Seq(Peers)
    BY <1>1
  <2>3. left.console \in BOOLEAN
    BY <1>5
  <2> QED
    BY <1>1, <2>1, <2>2, <2>3 DEF Types
<1>9. SharesAgree
  <2>1. /\ machine.proven = [i \in DOMAIN machine.proven |-> machine.proven[i]]
        /\ \A i \in DOMAIN machine.proven : ~machine.proven[i].used
    BY <1>2 DEF NoSource
  <2>2. {i \in DOMAIN granted : granted[i] \notin known} = {}
    BY <1>1
  <2>3. ReservedShareKept
    BY <2>2, FS_EmptySet, ConstantFacts DEF ReservedShareKept
  <2> QED
    BY <1>1, <1>2, <2>1, <2>3 DEF SharesAgree
<1>10. RequestsAgree
  BY <1>1 DEF RequestsAgree
<1>11. TurnKept
  BY <1>2, <1>5, <1>7, TaskFacts DEF TurnKept, GateAgrees, LoginWaits
<1>12. Ordered /\ FailedLoginsCoolDown
  BY <1>1, <1>7, TaskFacts DEF Ordered, FailedLoginsCoolDown
<1>13. Counted
  <2>1. login.global = [key |-> "everybody", failures |-> 0, level |-> 0, window |-> 0,
                        until |-> 0, seen |-> 0]
    BY <1>3 DEF EmptyBucket
  <2>2. login.global \in GlobalBucket
    BY <2>1, ConstantFacts DEF GlobalBucket
  <2> QED
    BY <1>1, <2>1, <2>2 DEF Counted
<1> QED
  BY <1>6, <1>8, <1>9, <1>10, <1>11, <1>12, <1>13 DEF Inv

LEMMA NextKeepsInv == Inv /\ [Next]_vars => Inv'
<1> SUFFICES ASSUME Inv, [Next]_vars PROVE Inv'
  OBVIOUS
<1>1. CASE UNCHANGED vars
  BY <1>1 DEF vars, history, Inv, Shapes, Types, SharesAgree, ReservedShareKept, RequestsAgree,
              TurnKept, GateAgrees, LoginWaits, Busy, Ordered, Counted, OpenedAfresh,
              OpenedByCooldown, FailedLoginsCoolDown
<1>2. CASE BeginLogin \/ AdmitLogin \/ FinishLogin
  BY <1>2, BeginLoginKeeps, AdmitLoginKeeps, FinishLoginKeeps
<1>3. CASE \E t \in BrokerTasks : BeginConnect(t) \/ AdmitConnect(t) \/ FinishConnect(t)
  BY <1>3, BeginConnectKeeps, AdmitConnectKeeps, FinishConnectKeeps
<1>4. CASE BeginBenchmark \/ FinishBenchmark
  BY <1>4, BeginBenchmarkKeeps, FinishBenchmarkKeeps
<1>5. CASE \E t \in Tasks : Submit(t) \/ SlotFrees(t) \/ GivesUp(t)
  BY <1>5, SubmitKeeps, SlotFreesKeeps, GivesUpKeeps
<1>6. CASE Take \/ Derived \/ Tick
  BY <1>6, TakeKeeps, DerivedKeeps, TickKeeps
<1> QED
  BY <1>1, <1>2, <1>3, <1>4, <1>5, <1>6 DEF Next

LEMMA InvHolds == Spec => []Inv
BY InitInv, NextKeepsInv, PTL DEF Spec

\* Whatever names and addresses failed logins come from, of twice the limit that
\* fall into one window two have a cooldown between them (record_failure_bucket,
\* preflight_locked).
THEOREM FailuresCoolDown == Spec => []FailedLoginsCoolDown
<1>1. Inv => FailedLoginsCoolDown
  BY DEF Inv
<1> QED
  BY <1>1, InvHolds, PTL

\* Of the derivations of one budget window no more than ARGUS_MACHINE_AUTH_KDF_UNPROVEN_BURST
\* go to addresses that never authenticated, however many connect and whichever
\* proven sources are forgotten meanwhile (kdf_global_admit).
THEOREM ReservedShareIsKept == Spec => []ReservedShareKept
<1>1. Inv => ReservedShareKept
  BY DEF Inv, SharesAgree
<1> QED
  BY <1>1, InvHolds, PTL

\* What the worker or its queue holds is on the stack of a caller that waits for
\* the answer (submit, kdf_worker).
THEOREM RequestsStayValid == Spec => []RequestStaysValid
<1>1. Inv => RequestStaysValid
  BY DEF Inv, RequestsAgree, RequestStaysValid
<1> QED
  BY <1>1, InvHolds, PTL

\* With the gate for one machine that the code sets up
\* (ARGUS_MACHINE_AUTH_KDF_ADMISSION_MAX), a login is told that the worker is busy
\* only after the console ran its benchmark.
THEOREM LoginTakesItsTurn ==
    ASSUME AdmissionMax = 1
    PROVE  Spec => []LoginGetsItsTurn
<1>1. Inv => LoginGetsItsTurn
  BY DEF Inv, Types, TurnKept, LoginWaits, LoginGetsItsTurn
<1> QED
  BY <1>1, InvHolds, PTL

---------------------------------------------------------------------------
(* The slots of the ring.                                                  *)

\* The slot k places after the first, around the ring.
SlotOf(first, k) == (first + k) % (Capacity + 1)

\* A remainder below twice the modulus.
LEMMA Wraps ==
    ASSUME NEW n \in Nat \ {0}, NEW x \in Nat
    PROVE  /\ x < n => x % n = x
           /\ n <= x /\ x < n + n => x % n = x - n
<1> DEFINE q == x \div n
           r == x % n
<1>1. q \in Nat /\ r \in Nat /\ r < n /\ x = q * n + r
  OBVIOUS
<1> HIDE DEF q, r
<1>2. q = 0 => q * n = 0
  BY <1>1
<1>3. q = 1 => q * n = n
  BY <1>1
<1>4. q >= 2 => q * n >= n + n
  <2>1. \A a, b, c \in Nat : a >= b => a * c >= b * c
    OBVIOUS
  <2>2. q >= 2 => q * n >= 2 * n
    BY <1>1, <2>1
  <2> QED
    BY <1>1, <2>2
<1>5. q * n \in Nat
  BY <1>1
<1>6. x < n => r = x
  BY <1>1, <1>2, <1>3, <1>4, <1>5
<1>7. n <= x /\ x < n + n => r = x - n
  BY <1>1, <1>2, <1>3, <1>4, <1>5
<1> QED
  BY <1>6, <1>7 DEF r

\* SlotOf without the remainder.
LEMMA SlotValue ==
    ASSUME NEW first \in Slots, NEW k \in 0 .. Capacity
    PROVE  /\ SlotOf(first, k) = IF first + k <= Capacity THEN first + k ELSE first + k - (Capacity + 1)
           /\ SlotOf(first, k) \in Slots
<1>1. Capacity + 1 \in Nat \ {0} /\ first + k \in Nat /\ first + k < Capacity + 1 + (Capacity + 1)
  BY AuditRingAssumption DEF Slots
<1>2. SlotOf(first, k) = IF first + k <= Capacity THEN first + k ELSE first + k - (Capacity + 1)
  <2>1. PICK x \in Nat : x = first + k
    BY <1>1
  <2>2. PICK n \in Nat \ {0} : n = Capacity + 1
    BY <1>1
  <2>3. (x < n => x % n = x) /\ (n <= x /\ x < n + n => x % n = x - n)
    BY Wraps
  <2>4. x % n = IF x <= Capacity THEN x ELSE x - n
    BY <1>1, <2>1, <2>2, <2>3, AuditRingAssumption
  <2>5. SlotOf(first, k) = x % n
    BY <2>1, <2>2, Zenon DEF SlotOf
  <2>6. x - n = first + k - (Capacity + 1)
    BY <2>1, <2>2, AuditRingAssumption DEF Slots
  <2> QED
    BY <2>1, <2>4, <2>5, <2>6
<1> QED
  BY <1>1, <1>2, AuditRingAssumption DEF Slots

\* Capacity + 1 places are as many slots: the spare one is none of the others.
LEMMA SlotsDiffer ==
    ASSUME NEW first \in Slots, NEW j \in 0 .. Capacity, NEW k \in 0 .. Capacity, j # k
    PROVE  SlotOf(first, j) # SlotOf(first, k)
<1>1. SlotOf(first, j) = IF first + j <= Capacity THEN first + j ELSE first + j - (Capacity + 1)
  BY SlotValue
<1>2. SlotOf(first, k) = IF first + k <= Capacity THEN first + k ELSE first + k - (Capacity + 1)
  BY SlotValue
<1> QED
  BY <1>1, <1>2, AuditRingAssumption DEF Slots

\* The ring moves by one place, at its end or at its start.
LEMMA NextSlot ==
    ASSUME NEW first \in Slots, NEW k \in 0 .. Capacity - 1
    PROVE  /\ (SlotOf(first, k) + 1) % (Capacity + 1) = SlotOf(first, k + 1)
           /\ SlotOf((first + 1) % (Capacity + 1), k) = SlotOf(first, k + 1)
           /\ SlotOf((first + 1) % (Capacity + 1), Capacity) = first
           /\ (first + 1) % (Capacity + 1) \in Slots
<1>1. 1 \in 0 .. Capacity /\ k \in 0 .. Capacity /\ k + 1 \in 0 .. Capacity /\ Capacity \in 0 .. Capacity
  BY AuditRingAssumption
<1>2. (first + 1) % (Capacity + 1) = SlotOf(first, 1)
  BY DEF SlotOf
<1>3. SlotOf(first, 1) \in Slots /\ SlotOf(first, k) \in Slots
  BY <1>1, SlotValue
<1>4. \A s \in Slots : (s + 1) % (Capacity + 1) = SlotOf(s, 1)
  BY DEF SlotOf
<1>5. SlotOf(SlotOf(first, k), 1) = SlotOf(first, k + 1)
  <2>1. PICK s \in Slots : s = SlotOf(first, k)
    BY <1>3
  <2>2. s = IF first + k <= Capacity THEN first + k ELSE first + k - (Capacity + 1)
    BY <1>1, <2>1, SlotValue
  <2>3. SlotOf(s, 1) = IF s + 1 <= Capacity THEN s + 1 ELSE s + 1 - (Capacity + 1)
    BY <1>1, SlotValue
  <2>4. SlotOf(first, k + 1) = IF first + (k + 1) <= Capacity THEN first + (k + 1)
                               ELSE first + (k + 1) - (Capacity + 1)
    BY <1>1, SlotValue
  <2>5. SlotOf(s, 1) = SlotOf(first, k + 1)
    BY <2>2, <2>3, <2>4, AuditRingAssumption DEF Slots
  <2> QED
    BY <2>1, <2>5
<1>6. SlotOf(SlotOf(first, 1), k) = SlotOf(first, k + 1) /\ SlotOf(SlotOf(first, 1), Capacity) = first
  <2>1. PICK s \in Slots : s = SlotOf(first, 1)
    BY <1>3
  <2>2. s = IF first + 1 <= Capacity THEN first + 1 ELSE first + 1 - (Capacity + 1)
    BY <1>1, <2>1, SlotValue
  <2>3. SlotOf(s, k) = IF s + k <= Capacity THEN s + k ELSE s + k - (Capacity + 1)
    BY <1>1, SlotValue
  <2>4. SlotOf(first, k + 1) = IF first + (k + 1) <= Capacity THEN first + (k + 1)
                               ELSE first + (k + 1) - (Capacity + 1)
    BY <1>1, SlotValue
  <2>5. SlotOf(s, Capacity) = IF s + Capacity <= Capacity THEN s + Capacity
                              ELSE s + Capacity - (Capacity + 1)
    BY <1>1, SlotValue
  <2>6. SlotOf(s, k) = SlotOf(first, k + 1) /\ SlotOf(s, Capacity) = first
    BY <2>2, <2>3, <2>4, <2>5, AuditRingAssumption DEF Slots
  <2> QED
    BY <2>1, <2>6
<1> QED
  BY <1>2, <1>3, <1>4, <1>5, <1>6

---------------------------------------------------------------------------
(* The inductive invariant of the audit log.                               *)

\* Where the handler waits for the audit task; where it is in a mutation.
Waiting == {"login", "begin", "finish"}
Under == {"begin", "mutate", "mutated", "finish", "respond"}
\* What a record may say.
Terminal == {"success", "failed"}
Outcomes == {"event", "login", "prepared", "none"} \cup Terminal
AuditRequests == [by : {"http", "mqtt"}, outcome : Outcomes, life : Nat]
AuditRecords == [seq : Nat, outcome : Outcomes, life : Nat]
Metas == [next : Nat \ {0}, count : 0 .. Capacity, oldest : Slots, spare : Slots]

\* The request being handled has its fields and is somewhere in its handler.
HttpTyped ==
    /\ http = [pc |-> http.pc, op |-> http.op, actor |-> http.actor, id |-> http.id,
               arg |-> http.arg, life |-> http.life, ok |-> http.ok]
    /\ http.pc \in {"idle", "kdf", "login"} \cup Under
    /\ http.life \in Nat /\ http.ok \in BOOLEAN

\* The metadata in memory is the one in flash, and the spare slot follows the
\* last one counted.
RingTyped ==
    /\ ring \in [Slots -> AuditRecords]
    /\ meta = [flash |-> meta.flash, ram |-> meta.flash]
    /\ meta.flash \in Metas
    /\ meta.flash.count < meta.flash.next
    /\ meta.flash.spare = SlotOf(meta.flash.oldest, meta.flash.count)

\* What the audit task has been asked, is at, and has answered.
QueueTyped ==
    /\ s_queue \in Seq(AuditRequests)
    /\ writing \in AuditRequests \cup {NoRequest}
    /\ answer \in [result : {"ok", "failed"}, life : Nat] \cup {NoAnswer}

\* The k-th oldest record in flash.
Nth(k) == ring[SlotOf(meta.flash.oldest, k)]

\* The records counted have consecutive numbers, the last one just used.
Numbered ==
    \A k \in 0 .. meta.flash.count - 1 :
        Nth(k).seq = meta.flash.next - meta.flash.count + k

\* The record the handler asked for, by where it waits.
Expected ==
    IF http.pc = "login" THEN Request("http", "login", 0)
    ELSE IF http.pc = "begin" THEN Request("http", "prepared", 0)
    ELSE Request("http", IF http.ok THEN "success" ELSE "failed", http.life)
\* A request of the handler is the one it waits for, and is not answered yet.
Asked(r) ==
    /\ r.by = "http" => http.pc \in Waiting /\ answer = NoAnswer /\ r = Expected
    /\ r.by = "mqtt" => r.outcome = "event"

\* At most one request of the handler is with the audit task, in the queue or
\* being written.
OneRequest ==
    /\ \A k \in DOMAIN s_queue : Asked(s_queue[k]) /\ (s_queue[k].by = "http" => writing.by # "http")
    /\ \A j, k \in DOMAIN s_queue : s_queue[j].by = "http" /\ s_queue[k].by = "http" => j = k
    /\ Asked(writing)
    /\ answer # NoAnswer => http.pc \in Waiting

\* The record being written is in the spare slot, as it will be counted.
Written == writing.by # "none" => ring[meta.flash.spare] = Stamped(meta.flash, writing)

\* Numbers given to records so far.  A mutation has the number of its prepared
\* record: one of these, and no other mutation's.
Earlier == 1 .. meta.flash.next - 1
Lives ==
    /\ done \subseteq Earlier
    /\ http.pc = "begin" /\ answer.result = "ok" => answer.life \in Earlier \ done
    /\ http.pc \in {"mutate", "mutated", "finish"} => http.life \in Earlier
    /\ http.pc = "mutate" => http.life \notin done
    /\ http.pc \in {"mutated", "finish"} => (http.ok <=> http.life \in done)

\* No terminal record names this mutation, and its number is its prepared record's.
Fresh(life) ==
    \A r \in Log : (r.outcome \in Terminal => r.life # life)
                   /\ (r.seq = life => r.outcome = "prepared")
\* What the records say is so; the mutation that begins is new to the log.
LogLives ==
    /\ \A r \in Log : /\ r.outcome \in Terminal => r.life < meta.flash.next
                      /\ r.outcome = "success" => r.life \in done
                      /\ r.outcome = "failed" => r.life \notin done
                      /\ r.seq \in done => r.outcome = "prepared"
    /\ http.pc = "begin" /\ answer.result = "ok" => Fresh(answer.life)
    /\ http.pc = "mutate" => Fresh(http.life)

\* The latch: a mutation is under way only without it, and a change without a
\* terminal record is the one under way or the last one before the latch.
Closed ==
    /\ http.pc \in Under => ~degraded
    /\ ~degraded => open \subseteq IF http.pc \in {"mutated", "finish"} THEN {http.life} ELSE {}
    /\ http.pc = "finish" /\ answer.result = "ok" => open = {}
    /\ \A x, y \in open : x = y

\* The inductive invariant of the audit log and the handler that writes to it.
AuditInv ==
    HttpTyped /\ RingTyped /\ QueueTyped /\ Numbered /\ OneRequest /\ Written /\ Lives
    /\ LogLives /\ Closed

\* What AuditInv is about, the request being handled apart.
Books == <<ring, meta, s_queue, writing, answer, done, open, degraded>>

\* The log, by the age of its records.
LEMMA LogIsNth == Log = {Nth(k) : k \in 0 .. meta.flash.count - 1}
BY DEF Log, Nth, ReadSlot, SlotOf

\* AuditInv holds at the start.
LEMMA AuditInit == PortalInit => AuditInv
<1> SUFFICES ASSUME PortalInit PROVE AuditInv
  OBVIOUS
<1> USE AuditRingAssumption
<1>1. 0 \in Slots /\ 0 \in 0 .. Capacity /\ SlotOf(0, 0) = 0
  <2>1. 0 \in Slots /\ 0 \in 0 .. Capacity
    BY DEF Slots
  <2> QED
    BY <2>1, SlotValue
<1>2. HttpTyped /\ QueueTyped
  BY DEF PortalInit, HttpTyped, QueueTyped, HttpIdle, NoRequest, NoAnswer, AuditRequests
<1>3. NoRecord \in AuditRecords
  BY DEF NoRecord, AuditRecords, Outcomes
<1>4. RingTyped
  <2>1. ring \in [Slots -> AuditRecords]
    BY <1>3 DEF PortalInit
  <2>2. meta = [flash |-> EmptyMeta, ram |-> EmptyMeta]
    BY DEF PortalInit
  <2>3. EmptyMeta \in Metas
    BY <1>1 DEF EmptyMeta, Metas
  <2> QED
    BY <1>1, <2>1, <2>2, <2>3 DEF RingTyped, EmptyMeta
<1>5. meta.flash.count = 0 /\ Log = {}
  BY LogIsNth DEF PortalInit, EmptyMeta
<1>6. Numbered
  BY <1>5 DEF Numbered
<1>7. OneRequest /\ Written
  BY DEF PortalInit, OneRequest, Written, Asked, NoRequest
<1>8. Lives /\ LogLives /\ Closed
  BY <1>5 DEF PortalInit, Lives, LogLives, Closed, HttpIdle, Under
<1> QED
  BY <1>2, <1>4, <1>6, <1>7, <1>8 DEF AuditInv

\* Nothing of the log, its task and its accounts moves.
LEMMA QuietKeepsAudit ==
    ASSUME AuditInv, UNCHANGED Books, http' = http
    PROVE  AuditInv'
<1> USE DEF Books
<1>1. Log' = Log
  BY DEF Log
<1>2. HttpTyped' /\ RingTyped' /\ QueueTyped'
  BY DEF AuditInv, HttpTyped, RingTyped, QueueTyped
<1>3. Numbered' /\ Written'
  BY DEF AuditInv, Numbered, Written, Nth
<1>4. OneRequest'
  BY DEF AuditInv, OneRequest, Asked, Expected
<1>5. Lives'
  BY DEF AuditInv, Lives, Earlier
<1>6. LogLives'
  BY <1>1 DEF AuditInv, LogLives, Fresh
<1>7. Closed'
  BY DEF AuditInv, Closed
<1> QED
  BY <1>2, <1>3, <1>4, <1>5, <1>6, <1>7 DEF AuditInv

---------------------------------------------------------------------------
(* Requests for records, and the handler that waits for one.               *)

\* What Append puts where.
LEMMA Appended ==
    ASSUME NEW S, NEW q \in Seq(S), NEW e \in S
    PROVE  /\ Append(q, e) \in Seq(S)
           /\ \A k \in DOMAIN Append(q, e) :
                \/ k \in DOMAIN q /\ Append(q, e)[k] = q[k]
                \/ k \notin DOMAIN q /\ k = Len(q) + 1 /\ Append(q, e)[k] = e
OBVIOUS

\* What Tail leaves where.
LEMMA Removed ==
    ASSUME NEW S, NEW q \in Seq(S), q # <<>>
    PROVE  /\ Tail(q) \in Seq(S) /\ 1 \in DOMAIN q /\ Head(q) = q[1] /\ q[1] \in S
           /\ \A k \in DOMAIN Tail(q) : k + 1 \in DOMAIN q /\ Tail(q)[k] = q[k + 1] /\ k # 0
OBVIOUS

\* The parts of AuditInv that are about the ring, when it does not move.
LEMMA RingKept ==
    ASSUME RingTyped, Numbered, Written, UNCHANGED <<ring, meta, writing>>
    PROVE  RingTyped' /\ Numbered' /\ Written' /\ Log' = Log /\ Earlier' = Earlier
BY DEF RingTyped, Numbered, Written, Nth, Log, Earlier

\* A handler that does not wait, or has its answer, has no request with the task.
LEMMA NoneOutstanding ==
    ASSUME AuditInv, http.pc \notin Waiting \/ answer # NoAnswer
    PROVE  /\ \A k \in DOMAIN s_queue : s_queue[k].by # "http"
           /\ writing.by # "http"
           /\ http.pc \notin Waiting => answer = NoAnswer
BY DEF AuditInv, OneRequest, Asked

\* The handler takes its answer and goes on.
LEMMA RequestMoved ==
    ASSUME AuditInv, http.pc \notin Waiting \/ answer # NoAnswer,
           UNCHANGED <<s_queue, writing>>, answer' = NoAnswer
    PROVE  OneRequest'
BY NoneOutstanding DEF AuditInv, OneRequest, Asked

\* The handler asks for a record and waits.
LEMMA RequestAsked ==
    ASSUME AuditInv, http.pc \notin Waiting, UNCHANGED <<writing, answer>>,
           http'.pc \in Waiting, Expected' \in AuditRequests, Expected'.by = "http",
           s_queue' = Append(s_queue, Expected')
    PROVE  OneRequest' /\ s_queue' \in Seq(AuditRequests)
<1> DEFINE e == Expected'
<1>1. s_queue \in Seq(AuditRequests)
  BY DEF AuditInv, QueueTyped
<1> HIDE DEF e
<1>2. /\ s_queue' \in Seq(AuditRequests)
      /\ \A k \in DOMAIN s_queue' :
           \/ k \in DOMAIN s_queue /\ s_queue'[k] = s_queue[k]
           \/ k \notin DOMAIN s_queue /\ k = Len(s_queue) + 1 /\ s_queue'[k] = e
  BY <1>1, Appended DEF e
<1>3. /\ \A k \in DOMAIN s_queue : s_queue[k].by # "http" /\ (s_queue[k].by = "mqtt" => s_queue[k].outcome = "event")
      /\ writing.by # "http" /\ answer = NoAnswer /\ (writing.by = "mqtt" => writing.outcome = "event")
  BY NoneOutstanding DEF AuditInv, OneRequest, Asked
<1>4. e.by = "http" /\ e = Expected'
  BY DEF e
<1>5. \A k \in DOMAIN s_queue' : Asked(s_queue[k])' /\ (s_queue'[k].by = "http" => writing'.by # "http" /\ k = Len(s_queue) + 1)
  BY <1>2, <1>3, <1>4 DEF Asked
<1>6. Asked(writing)'
  BY <1>3 DEF Asked
<1> QED
  BY <1>2, <1>3, <1>5, <1>6 DEF OneRequest

\* Another task's event is appended, or dropped when the queue is full.
LEMMA EventKeepsAudit ==
    ASSUME AuditInv, http' = http, AppendBestEffort(Request("mqtt", "event", 0)),
           UNCHANGED <<ring, meta, writing, answer, done, open, degraded>>
    PROVE  AuditInv'
<1> DEFINE e == Request("mqtt", "event", 0)
<1>1. CASE s_queue' = s_queue
  BY <1>1, QuietKeepsAudit DEF Books
<1>2. CASE s_queue' = Append(s_queue, e)
  <2>1. e \in AuditRequests /\ e.by = "mqtt" /\ e.outcome = "event"
    BY DEF Request, AuditRequests, Outcomes
  <2>2. s_queue \in Seq(AuditRequests)
    BY DEF AuditInv, QueueTyped
  <2> HIDE DEF e
  <2>3. /\ s_queue' \in Seq(AuditRequests)
        /\ \A k \in DOMAIN s_queue' :
             \/ k \in DOMAIN s_queue /\ s_queue'[k] = s_queue[k]
             \/ k \notin DOMAIN s_queue /\ k = Len(s_queue) + 1 /\ s_queue'[k] = e
    BY <1>2, <2>1, <2>2, Appended
  <2>4. RingTyped' /\ Numbered' /\ Written' /\ Log' = Log /\ Earlier' = Earlier
    BY RingKept DEF AuditInv
  <2>5. HttpTyped' /\ QueueTyped'
    BY <2>3 DEF AuditInv, HttpTyped, QueueTyped
  <2>6. OneRequest'
    BY <2>1, <2>3 DEF AuditInv, OneRequest, Asked, Expected
  <2>7. Lives' /\ LogLives' /\ Closed'
    BY <2>4 DEF AuditInv, Lives, LogLives, Closed, Fresh
  <2> QED
    BY <2>4, <2>5, <2>6, <2>7 DEF AuditInv
<1> QED
  BY <1>1, <1>2 DEF AppendBestEffort

\* The handler's step from one place to another that asks for no record.
LEMMA IdleTyped == HttpIdle.pc = "idle" /\ (http' = HttpIdle => HttpTyped')
<1>1. HttpIdle.pc = "idle" /\ HttpIdle.life = 0 /\ HttpIdle.ok = FALSE
  BY DEF HttpIdle
<1>2. ASSUME http' = HttpIdle PROVE HttpTyped'
  BY <1>1, <1>2 DEF HttpTyped, HttpIdle
<1> QED
  BY <1>1, <1>2

\* A login begins.
LEMMA LoginReadKeepsAudit == ASSUME AuditInv, LoginRead PROVE AuditInv'
<1>1. UNCHANGED Books /\ http.pc = "idle"
  BY DEF LoginRead, Books, audit, changes
<1>2. PICK p : http' = [HttpIdle EXCEPT !.pc = "kdf", !.op = "login", !.actor = p]
  BY DEF LoginRead
<1>3. http'.pc = "kdf" /\ HttpTyped'
  BY <1>2 DEF HttpIdle, HttpTyped
<1>4. RingTyped' /\ Numbered' /\ Written' /\ Log' = Log /\ Earlier' = Earlier
  BY <1>1, RingKept DEF AuditInv, Books
<1>5. QueueTyped'
  BY <1>1 DEF AuditInv, QueueTyped, Books
<1>6. http.pc \notin Waiting /\ answer = NoAnswer
  BY <1>1, NoneOutstanding DEF Waiting
<1>7. OneRequest'
  BY <1>1, <1>6, RequestMoved DEF Books
<1>8. Lives' /\ LogLives' /\ Closed'
  BY <1>1, <1>3, <1>4 DEF AuditInv, Books, Lives, LogLives, Closed, Fresh, Under
<1> QED
  BY <1>3, <1>4, <1>5, <1>7, <1>8 DEF AuditInv

\* The login is given to the log, or refused.
LEMMA LoginRecordKeepsAudit == ASSUME AuditInv, LoginRecord PROVE AuditInv'
<1>1. /\ UNCHANGED <<ring, meta, writing, answer, done, open, degraded>>
      /\ http.pc = "kdf"
  BY DEF LoginRecord, changes
<1>2. \/ http' = HttpIdle /\ s_queue' = s_queue
      \/ http' = [http EXCEPT !.pc = "login"] /\ s_queue' = Append(s_queue, Request("http", "login", 0))
  BY DEF LoginRecord
<1>3. http'.pc \in {"idle", "login"} /\ HttpTyped'
  <2>1. CASE http' = HttpIdle
    BY <2>1, IdleTyped
  <2>2. CASE http' = [http EXCEPT !.pc = "login"]
    BY <2>2 DEF HttpTyped, AuditInv
  <2> QED
    BY <1>2, <2>1, <2>2
<1>4. RingTyped' /\ Numbered' /\ Written' /\ Log' = Log /\ Earlier' = Earlier
  BY <1>1, RingKept DEF AuditInv
<1>6. http.pc \notin Waiting /\ answer = NoAnswer
  BY <1>1, NoneOutstanding DEF Waiting
<1>7. OneRequest' /\ s_queue' \in Seq(AuditRequests)
  <2>1. CASE s_queue' = s_queue
    BY <1>1, <1>6, <2>1, RequestMoved DEF AuditInv, QueueTyped
  <2>2. CASE http' = [http EXCEPT !.pc = "login"] /\ s_queue' = Append(s_queue, Request("http", "login", 0))
    <3>1. http'.pc = "login"
      BY <2>2 DEF AuditInv, HttpTyped
    <3>2. Expected' = Request("http", "login", 0) /\ http'.pc \in Waiting
      BY <3>1 DEF Expected, Waiting
    <3>3. Expected' \in AuditRequests /\ Expected'.by = "http"
      BY <3>2 DEF Request, AuditRequests, Outcomes
    <3> QED
      BY <1>1, <1>6, <2>2, <3>2, <3>3, RequestAsked
  <2> QED
    BY <1>2, <2>1, <2>2
<1>5. QueueTyped'
  BY <1>1, <1>7 DEF AuditInv, QueueTyped
<1>8. Lives' /\ LogLives' /\ Closed'
  BY <1>1, <1>3, <1>4 DEF AuditInv, Lives, LogLives, Closed, Fresh, Under
<1> QED
  BY <1>3, <1>4, <1>5, <1>7, <1>8 DEF AuditInv

\* The login's record is written, or not.
LEMMA LoginCreateKeepsAudit == ASSUME AuditInv, LoginCreate PROVE AuditInv'
<1>1. /\ UNCHANGED <<ring, meta, s_queue, writing, done, open, degraded>>
      /\ http.pc = "login" /\ answer # NoAnswer /\ answer' = NoAnswer /\ http' = HttpIdle
  BY DEF LoginCreate, changes, NoAnswer
<1>3. http'.pc = "idle" /\ HttpTyped'
  BY <1>1, IdleTyped
<1>4. RingTyped' /\ Numbered' /\ Written' /\ Log' = Log /\ Earlier' = Earlier
  BY <1>1, RingKept DEF AuditInv
<1>5. QueueTyped'
  BY <1>1 DEF AuditInv, QueueTyped
<1>7. OneRequest'
  BY <1>1, RequestMoved
<1>8. Lives' /\ LogLives' /\ Closed'
  BY <1>1, <1>3, <1>4 DEF AuditInv, Lives, LogLives, Closed, Fresh, Under
<1> QED
  BY <1>3, <1>4, <1>5, <1>7, <1>8 DEF AuditInv

\* A mutation asks for its prepared record.
LEMMA AdmitKeepsAudit == ASSUME AuditInv, Admit PROVE AuditInv'
<1>1. /\ UNCHANGED <<ring, meta, writing, answer, done, open, degraded>>
      /\ http.pc = "idle"
  BY DEF Admit, changes
<1>2. PICK i \in Occupied(Swept(sessions)), op \in Mutations \cap scenario.ops :
        \E id \in Targets(op), arg \in Arguments(op) :
            IF degraded \/ QueueFull THEN UNCHANGED <<http, s_queue, transition>>
            ELSE /\ http' = [HttpIdle EXCEPT !.pc = "begin", !.op = op, !.actor = sessions[i].principal,
                                         !.id = id, !.arg = arg]
                 /\ s_queue' = Append(s_queue, Request("http", "prepared", 0))
                 /\ transition' = IF TransitionOf(op) = "none" THEN transition
                                  ELSE [transition EXCEPT ![TransitionOf(op)] = "reserved"]
  BY Zenon DEF Admit
<1>3. CASE degraded \/ QueueFull
  BY <1>1, <1>2, <1>3, QuietKeepsAudit DEF Books
<1>4. CASE ~(degraded \/ QueueFull)
  <2> DEFINE actor == sessions[i].principal
  <2>0. PICK id \in Targets(op), arg \in Arguments(op) :
          /\ http' = [HttpIdle EXCEPT !.pc = "begin", !.op = op, !.actor = sessions[i].principal,
                                  !.id = id, !.arg = arg]
          /\ s_queue' = Append(s_queue, Request("http", "prepared", 0))
    BY <1>2, <1>4
  <2>1. ~degraded /\ s_queue' = Append(s_queue, Request("http", "prepared", 0))
    BY <1>4, <2>0
  <2>10. http' = [pc |-> "begin", op |-> op, actor |-> actor, id |-> id, arg |-> arg,
                  life |-> 0, ok |-> FALSE]
    BY <2>0 DEF HttpIdle
  <2> HIDE DEF actor
  <2>11. http'.pc = "begin" /\ HttpTyped'
    BY <2>10 DEF HttpTyped, Under
  <2>2. Expected' = Request("http", "prepared", 0) /\ http'.pc \in Waiting
    BY <2>11 DEF Expected, Waiting
  <2>3. Expected' \in AuditRequests /\ Expected'.by = "http"
    BY <2>2 DEF Request, AuditRequests, Outcomes
  <2>4. http.pc \notin Waiting /\ answer = NoAnswer
    BY <1>1, NoneOutstanding DEF Waiting
  <2>5. OneRequest' /\ s_queue' \in Seq(AuditRequests)
    BY <1>1, <2>1, <2>2, <2>3, <2>4, RequestAsked
  <2>6. RingTyped' /\ Numbered' /\ Written' /\ Log' = Log /\ Earlier' = Earlier
    BY <1>1, RingKept DEF AuditInv
  <2>7. QueueTyped'
    BY <1>1, <2>5 DEF AuditInv, QueueTyped
  <2>8. answer'.result # "ok"
    BY <1>1, <2>4 DEF NoAnswer
  <2>9. Lives' /\ LogLives' /\ Closed'
    BY <1>1, <2>1, <2>6, <2>8, <2>11 DEF AuditInv, Lives, LogLives, Closed, Fresh, Under
  <2> QED
    BY <2>5, <2>6, <2>7, <2>9, <2>11 DEF AuditInv
<1> QED
  BY <1>3, <1>4

\* The prepared record is written, or the mutation does not begin.
LEMMA PreparedKeepsAudit == ASSUME AuditInv, Prepared PROVE AuditInv'
<1>1. /\ UNCHANGED <<ring, meta, s_queue, writing, done, open, degraded>>
      /\ http.pc = "begin" /\ answer # NoAnswer /\ answer' = NoAnswer
  BY DEF Prepared, changes, NoAnswer
<1>2. answer \in [result : {"ok", "failed"}, life : Nat]
  BY <1>1 DEF AuditInv, QueueTyped
<1>3. \/ http' = HttpIdle
      \/ answer.result = "ok" /\ http' = [http EXCEPT !.pc = "mutate", !.life = answer.life]
  BY DEF Prepared
<1>4. /\ HttpTyped'
      /\ \/ http'.pc = "idle"
         \/ answer.result = "ok" /\ http'.pc = "mutate" /\ http'.life = answer.life
  BY <1>2, <1>3, IdleTyped DEF AuditInv, HttpTyped, Under
<1>5. RingTyped' /\ Numbered' /\ Written' /\ Log' = Log /\ Earlier' = Earlier
  BY <1>1, RingKept DEF AuditInv
<1>6. QueueTyped'
  BY <1>1 DEF AuditInv, QueueTyped
<1>7. OneRequest'
  BY <1>1, RequestMoved
<1>8. Lives' /\ LogLives' /\ Closed'
  BY <1>1, <1>4, <1>5 DEF AuditInv, Lives, LogLives, Closed, Fresh, Under
<1> QED
  BY <1>4, <1>5, <1>6, <1>7, <1>8 DEF AuditInv

\* The change is made, or not.
LEMMA MutatedTyped ==
    ASSUME HttpTyped, NEW ok \in BOOLEAN, Mutated(ok)
    PROVE  /\ HttpTyped' /\ http'.pc = "mutated" /\ http'.life = http.life
           /\ http'.ok = ok
BY DEF HttpTyped, Mutated, Under

\* The change is committed: the mutation had no record that said otherwise.
LEMMA TookKeepsAudit ==
    ASSUME AuditInv, http.pc = "mutate", Took, UNCHANGED <<audit, degraded>>
    PROVE  AuditInv'
<1>1. UNCHANGED <<ring, meta, s_queue, writing, answer, degraded>>
  BY DEF audit
<1>2. HttpTyped' /\ http'.pc = "mutated" /\ http'.life = http.life /\ http'.ok = TRUE
  BY MutatedTyped DEF AuditInv, Took
<1>3. done' = done \cup {http.life} /\ open' = open \cup {http.life}
  BY DEF Took
<1>4. RingTyped' /\ Numbered' /\ Written' /\ Log' = Log /\ Earlier' = Earlier
  BY <1>1, RingKept DEF AuditInv
<1>5. QueueTyped'
  BY <1>1 DEF AuditInv, QueueTyped
<1>6. http.pc \notin Waiting /\ answer = NoAnswer
  BY NoneOutstanding DEF Waiting
<1>7. OneRequest'
  BY <1>1, <1>6, RequestMoved
<1>8. Lives'
  BY <1>1, <1>2, <1>3, <1>4 DEF AuditInv, Lives
<1>9. LogLives'
  <2>1. Fresh(http.life)
    BY DEF AuditInv, LogLives
  <2>2. meta'.flash.next = meta.flash.next
    BY <1>1
  <2> QED
    BY <1>2, <1>3, <1>4, <2>1, <2>2 DEF AuditInv, LogLives, Fresh, Terminal
<1>10. Closed'
  BY <1>1, <1>2, <1>3 DEF AuditInv, Closed, Under
<1> QED
  BY <1>2, <1>4, <1>5, <1>7, <1>8, <1>9, <1>10 DEF AuditInv

\* The change is made or fails.
LEMMA MutateKeepsAudit == ASSUME AuditInv, Mutate PROVE AuditInv'
<1>1. CASE MutationFails
  <2>1. UNCHANGED <<ring, meta, s_queue, writing, answer, degraded, done, open>>
    BY <1>1 DEF MutationFails, audit, changes
  <2>2. HttpTyped' /\ http'.pc = "mutated" /\ http'.life = http.life /\ http'.ok = FALSE
    BY <1>1, MutatedTyped DEF AuditInv, MutationFails
  <2>3. http.pc = "mutate"
    BY <1>1 DEF MutationFails
  <2>4. RingTyped' /\ Numbered' /\ Written' /\ Log' = Log /\ Earlier' = Earlier
    BY <2>1, RingKept DEF AuditInv
  <2>5. QueueTyped'
    BY <2>1 DEF AuditInv, QueueTyped
  <2>6. http.pc \notin Waiting /\ answer = NoAnswer
    BY <2>3, NoneOutstanding DEF Waiting
  <2>7. OneRequest'
    BY <2>1, <2>6, RequestMoved
  <2>8. Lives' /\ LogLives' /\ Closed'
    BY <2>1, <2>2, <2>3, <2>4 DEF AuditInv, Lives, LogLives, Closed, Under
  <2> QED
    BY <2>2, <2>4, <2>5, <2>7, <2>8 DEF AuditInv
<1>2. CASE ~MutationFails
  <2>1. http.pc = "mutate" /\ Took /\ UNCHANGED <<audit, degraded>>
    BY <1>2 DEF Mutate, Create, Enable, Delete, RevokeSessions, ResetPassword,
                UpdateDisplayName, AssignRoles, NewRole, RemoveRole, SelfPassword,
                ReplaceApSecret, RecoveryExit, Mutating, Unchanged
  <2> QED
    BY <2>1, TookKeepsAudit
<1> QED
  BY <1>1, <1>2

\* The terminal record is asked for; a full queue sets the latch.
LEMMA FinaliseKeepsAudit == ASSUME AuditInv, Finalise PROVE AuditInv'
<1>1. UNCHANGED <<ring, meta, writing, answer, done, open>> /\ http.pc = "mutated"
  BY DEF Finalise, changes
<1>2. RingTyped' /\ Numbered' /\ Written' /\ Log' = Log /\ Earlier' = Earlier
  BY <1>1, RingKept DEF AuditInv
<1>3. http.pc \notin Waiting /\ answer = NoAnswer
  BY <1>1, NoneOutstanding DEF Waiting
<1>4. CASE QueueFull
  <2>1. degraded' = TRUE /\ http' = HttpIdle /\ s_queue' = s_queue
    BY <1>4 DEF Finalise
  <2>2. HttpTyped' /\ http'.pc = "idle"
    BY <2>1, IdleTyped
  <2>3. QueueTyped'
    BY <1>1, <2>1 DEF AuditInv, QueueTyped
  <2>4. OneRequest'
    BY <1>1, <1>3, <2>1, RequestMoved
  <2>5. Lives' /\ LogLives' /\ Closed'
    BY <1>1, <1>2, <2>1, <2>2 DEF AuditInv, Lives, LogLives, Closed, Under
  <2> QED
    BY <1>2, <2>2, <2>3, <2>4, <2>5 DEF AuditInv
<1>5. CASE ~QueueFull
  <2> DEFINE e == Request("http", IF http.ok THEN "success" ELSE "failed", http.life)
  <2>1. /\ http' = [http EXCEPT !.pc = "finish"] /\ degraded' = degraded
        /\ s_queue' = Append(s_queue, e)
    BY <1>5 DEF Finalise
  <2>2. /\ HttpTyped' /\ http'.pc = "finish" /\ http'.life = http.life
        /\ http'.ok = http.ok
    BY <2>1 DEF AuditInv, HttpTyped, Under
  <2>3. Expected' = e /\ http'.pc \in Waiting
    BY <2>2 DEF Expected, Waiting
  <2>4. e \in AuditRequests /\ e.by = "http"
    BY DEF AuditInv, HttpTyped, Request, AuditRequests, Outcomes, Terminal
  <2> HIDE DEF e
  <2>5. OneRequest' /\ s_queue' \in Seq(AuditRequests)
    BY <1>1, <1>3, <2>1, <2>3, <2>4, RequestAsked
  <2>6. QueueTyped'
    BY <1>1, <2>5 DEF AuditInv, QueueTyped
  <2>7. answer'.result # "ok"
    BY <1>1, <1>3 DEF NoAnswer
  <2>8. Lives' /\ LogLives' /\ Closed'
    BY <1>1, <1>2, <2>1, <2>2, <2>7 DEF AuditInv, Lives, LogLives, Closed, Under
  <2> QED
    BY <1>2, <2>2, <2>5, <2>6, <2>8 DEF AuditInv
<1> QED
  BY <1>4, <1>5

\* The terminal record is written, or the latch is set.
LEMMA FinishedKeepsAudit == ASSUME AuditInv, Finished PROVE AuditInv'
<1>1. /\ UNCHANGED <<ring, meta, s_queue, writing, done, open>>
      /\ http.pc = "finish" /\ answer # NoAnswer /\ answer' = NoAnswer
  BY DEF Finished, changes, NoAnswer
<1>2. answer.result \in {"ok", "failed"}
  BY <1>1 DEF AuditInv, QueueTyped
<1>3. /\ http' = HttpIdle \/ (answer.result = "ok" /\ http' = [http EXCEPT !.pc = "respond"])
      /\ degraded' = (degraded \/ answer.result = "failed")
  BY DEF Finished
<1>4. HttpTyped' /\ (http'.pc = "idle" \/ (answer.result = "ok" /\ http'.pc = "respond"))
  <2>1. CASE http' = HttpIdle
    BY <2>1, IdleTyped
  <2>2. CASE answer.result = "ok" /\ http' = [http EXCEPT !.pc = "respond"]
    BY <2>2 DEF HttpTyped, AuditInv, Under
  <2> QED
    BY <1>3, <2>1, <2>2
<1>5. RingTyped' /\ Numbered' /\ Written' /\ Log' = Log /\ Earlier' = Earlier
  BY <1>1, RingKept DEF AuditInv
<1>6. QueueTyped'
  BY <1>1 DEF AuditInv, QueueTyped
<1>7. OneRequest'
  BY <1>1, RequestMoved
<1>8. Lives' /\ LogLives'
  BY <1>1, <1>4, <1>5 DEF AuditInv, Lives, LogLives
<1>9. Closed'
  <2>1. ~degraded
    BY <1>1 DEF AuditInv, Closed, Under
  <2>2. degraded' <=> answer.result = "failed"
    BY <1>3, <2>1
  <2>3. answer.result = "ok" => open = {}
    BY <1>1 DEF AuditInv, Closed
  <2>4. \A x, y \in open : x = y
    BY DEF AuditInv, Closed
  <2>5. http'.pc \in {"idle", "respond"} /\ (http'.pc = "respond" => answer.result = "ok")
    BY <1>4
  <2> QED
    BY <1>1, <1>2, <2>2, <2>3, <2>4, <2>5 DEF Closed, Under
<1> QED
  BY <1>4, <1>5, <1>6, <1>7, <1>8, <1>9 DEF AuditInv

\* The answer goes out and the transition is armed, or cancelled.
LEMMA RespondKeepsAudit == ASSUME AuditInv, RespondThenArm PROVE AuditInv'
<1>1. /\ UNCHANGED <<ring, meta, writing, answer, done, open, degraded>>
      /\ http.pc = "respond" /\ http' = HttpIdle
      /\ s_queue' = s_queue \/ AppendBestEffort(Request("mqtt", "event", 0))
  BY DEF RespondThenArm, changes
<1>2. HttpTyped' /\ http'.pc = "idle"
  BY <1>1, IdleTyped
<1>3. RingTyped' /\ Numbered' /\ Written' /\ Log' = Log /\ Earlier' = Earlier
  BY <1>1, RingKept DEF AuditInv
<1>4. http.pc \notin Waiting /\ answer = NoAnswer
  BY <1>1, NoneOutstanding DEF Waiting
<1>5. Lives' /\ LogLives' /\ Closed'
  BY <1>1, <1>2, <1>3 DEF AuditInv, Lives, LogLives, Closed, Under
<1>6. QueueTyped' /\ OneRequest'
  <2>1. CASE s_queue' = s_queue
    BY <1>1, <1>4, <2>1, RequestMoved DEF AuditInv, QueueTyped
  <2>2. CASE s_queue' = Append(s_queue, Request("mqtt", "event", 0))
    <3> DEFINE e == Request("mqtt", "event", 0)
    <3>1. e \in AuditRequests /\ e.by = "mqtt" /\ e.outcome = "event"
      BY DEF Request, AuditRequests, Outcomes
    <3>2. s_queue \in Seq(AuditRequests)
      BY DEF AuditInv, QueueTyped
    <3> HIDE DEF e
    <3>3. /\ s_queue' \in Seq(AuditRequests)
          /\ \A k \in DOMAIN s_queue' :
               \/ k \in DOMAIN s_queue /\ s_queue'[k] = s_queue[k]
               \/ k \notin DOMAIN s_queue /\ k = Len(s_queue) + 1 /\ s_queue'[k] = e
      BY <2>2, <3>1, <3>2, Appended DEF e
    <3>4. /\ \A k \in DOMAIN s_queue : s_queue[k].by # "http" /\ (s_queue[k].by = "mqtt" => s_queue[k].outcome = "event")
          /\ writing.by # "http" /\ (writing.by = "mqtt" => writing.outcome = "event")
      BY <1>4, NoneOutstanding DEF AuditInv, OneRequest, Asked
    <3>5. OneRequest'
      BY <1>1, <1>4, <3>1, <3>3, <3>4 DEF OneRequest, Asked
    <3> QED
      BY <1>1, <3>3, <3>5 DEF AuditInv, QueueTyped
  <2> QED
    BY <1>1, <2>1, <2>2 DEF AppendBestEffort
<1> QED
  BY <1>2, <1>3, <1>5, <1>6 DEF AuditInv

\* A restart: what was being written or waited for is forgotten.
LEMMA BootKeepsAudit == ASSUME AuditInv, Boot PROVE AuditInv'
<1>1. /\ UNCHANGED <<ring, done>> /\ http' = HttpIdle /\ s_queue' = <<>> /\ writing' = NoRequest
      /\ answer' = NoAnswer /\ degraded' = FALSE /\ open' = {}
      /\ meta' = [meta EXCEPT !.ram = meta.flash]
  BY DEF Boot
<1>2. meta' = meta
  BY <1>1 DEF AuditInv, RingTyped
<1>3. HttpTyped' /\ http'.pc = "idle"
  BY <1>1, IdleTyped
<1>4. RingTyped' /\ Numbered' /\ Log' = Log /\ Earlier' = Earlier
  BY <1>1, <1>2 DEF AuditInv, RingTyped, Numbered, Nth, Log, Earlier
<1>5. Written' /\ QueueTyped'
  BY <1>1 DEF Written, QueueTyped, NoRequest
<1>6. OneRequest'
  BY <1>1 DEF OneRequest, Asked, NoRequest
<1>7. Lives' /\ LogLives' /\ Closed'
  BY <1>1, <1>2, <1>3, <1>4 DEF AuditInv, Lives, LogLives, Closed, Under
<1> QED
  BY <1>3, <1>4, <1>5, <1>6, <1>7 DEF AuditInv

---------------------------------------------------------------------------
(* The audit task.                                                         *)

\* A record that could not be written: its writer is told, if it waits.
LEMMA FailureTold ==
    ASSUME AuditInv, NEW r \in AuditRequests, Asked(r), AuditFails(r),
           UNCHANGED <<ring, meta, http, done, open, degraded>>
    PROVE  /\ answer' \in [result : {"ok", "failed"}, life : Nat] \cup {NoAnswer}
           /\ r.by # "http" => answer' = answer
           /\ r.by = "http" => answer'.result = "failed" /\ http.pc \in Waiting
           /\ Lives' /\ LogLives' /\ Closed'
<1>1. answer' = IF r.by = "http" THEN [result |-> "failed", life |-> 0] ELSE answer
  BY DEF AuditFails, Tell
<1>2. answer' \in [result : {"ok", "failed"}, life : Nat] \cup {NoAnswer}
  BY <1>1 DEF AuditInv, QueueTyped
<1>3. answer'.result = "ok" => answer' = answer
  BY <1>1
<1>4. Log' = Log /\ Earlier' = Earlier
  BY DEF Log, Earlier
<1>5. Lives' /\ LogLives' /\ Closed'
  BY <1>3, <1>4 DEF AuditInv, Lives, LogLives, Closed, Fresh
<1> QED
  BY <1>1, <1>2, <1>5 DEF Asked

\* append_locked writes the spare slot, which the log does not count.
LEMMA AuditWriteKeepsAudit == ASSUME AuditInv, AuditWrite PROVE AuditInv'
<1> DEFINE r == Head(s_queue)
<1>1. /\ UNCHANGED <<meta, http, done, open, degraded>>
      /\ writing.by = "none" /\ s_queue # <<>> /\ s_queue' = Tail(s_queue)
  BY DEF AuditWrite, changes
<1>2. s_queue \in Seq(AuditRequests)
  BY DEF AuditInv, QueueTyped
<1>3. /\ Tail(s_queue) \in Seq(AuditRequests) /\ 1 \in DOMAIN s_queue /\ r = s_queue[1] /\ r \in AuditRequests
      /\ \A k \in DOMAIN Tail(s_queue) : k + 1 \in DOMAIN s_queue /\ Tail(s_queue)[k] = s_queue[k + 1] /\ k # 0
  BY <1>1, <1>2, Removed
<1>4. /\ Asked(r) /\ \A k \in DOMAIN s_queue : Asked(s_queue[k])
      /\ \A k \in DOMAIN s_queue' : k + 1 \in DOMAIN s_queue /\ s_queue'[k] = s_queue[k + 1]
      /\ r.by = "http" => \A k \in DOMAIN s_queue' : s_queue'[k].by # "http"
      /\ \A j, k \in DOMAIN s_queue' : s_queue'[j].by = "http" /\ s_queue'[k].by = "http" => j = k
  <2>1. \A j \in DOMAIN s_queue' : j \in Nat /\ j + 1 \in DOMAIN s_queue /\ s_queue'[j] = s_queue[j + 1] /\ j # 0
    BY <1>1, <1>3
  <2>2. \A j, k \in DOMAIN s_queue : s_queue[j].by = "http" /\ s_queue[k].by = "http" => j = k
    BY DEF AuditInv, OneRequest
  <2>3. \A k \in DOMAIN s_queue : Asked(s_queue[k])
    BY DEF AuditInv, OneRequest
  <2>4. r.by = "http" => \A k \in DOMAIN s_queue' : s_queue'[k].by # "http"
    BY <1>3, <2>1, <2>2
  <2>5. \A j, k \in DOMAIN s_queue' : s_queue'[j].by = "http" /\ s_queue'[k].by = "http" => j = k
    BY <2>1, <2>2
  <2> HIDE DEF r
  <2> QED
    BY <1>3, <2>1, <2>3, <2>4, <2>5
<1>5. HttpTyped'
  BY <1>1 DEF AuditInv, HttpTyped
<1>6. meta.ram = meta.flash
  BY DEF AuditInv, RingTyped
<1> HIDE DEF r
<1>7. CASE /\ ring' = [ring EXCEPT ![meta.ram.spare] = Stamped(meta.ram, r)]
           /\ writing' = r /\ UNCHANGED <<answer, faults>>
  <2>1. /\ meta.flash \in Metas /\ meta.flash.spare = SlotOf(meta.flash.oldest, meta.flash.count)
        /\ ring \in [Slots -> AuditRecords] /\ ring' = [ring EXCEPT ![meta.flash.spare] = Stamped(meta.flash, r)]
    BY <1>6, <1>7 DEF AuditInv, RingTyped
  <2>2. Stamped(meta.flash, r) \in AuditRecords
    BY <1>3, <2>1 DEF Stamped, AuditRecords, AuditRequests, Metas
  <2>3. meta.flash.spare \in Slots /\ ring'[meta.flash.spare] = Stamped(meta.flash, r)
    BY <2>1 DEF Metas
  <2>4. \A k \in 0 .. meta.flash.count - 1 : Nth(k)' = Nth(k)
    <3> TAKE k \in 0 .. meta.flash.count - 1
    <3>1. meta.flash.oldest \in Slots /\ k \in 0 .. Capacity /\ meta.flash.count \in 0 .. Capacity
          /\ k # meta.flash.count
      BY <2>1, AuditRingAssumption DEF Metas
    <3>2. SlotOf(meta.flash.oldest, k) # meta.flash.spare
      BY <2>1, <3>1, SlotsDiffer
    <3>3. SlotOf(meta.flash.oldest, k) \in Slots
      BY <3>1, SlotValue
    <3> QED
      BY <1>1, <2>1, <3>2, <3>3 DEF Nth
  <2>5. Log' = Log
    <3>1. Log' = {Nth(k)' : k \in 0 .. meta.flash.count - 1}
      BY <1>1 DEF Log, Nth, ReadSlot, SlotOf
    <3> QED
      BY <2>4, <3>1, LogIsNth
  <2>6. RingTyped'
    BY <1>1, <2>1, <2>2 DEF AuditInv, RingTyped
  <2>7. Numbered'
    BY <1>1, <2>4 DEF AuditInv, Numbered
  <2>8. Written'
    BY <1>1, <1>7, <2>3 DEF Written
  <2>9. QueueTyped'
    BY <1>1, <1>3, <1>7 DEF AuditInv, QueueTyped
  <2>10. OneRequest'
    <3>2. \A k \in DOMAIN s_queue' : Asked(s_queue[k])' /\ (s_queue'[k].by = "http" => writing'.by # "http")
      BY <1>1, <1>4, <1>7 DEF Asked, Expected
    <3>3. Asked(writing)'
      BY <1>1, <1>4, <1>7 DEF Asked, Expected
    <3> QED
      BY <1>1, <1>4, <1>7, <3>2, <3>3 DEF AuditInv, OneRequest
  <2>11. Lives' /\ LogLives' /\ Closed'
    BY <1>1, <1>7, <2>5 DEF AuditInv, Lives, LogLives, Closed, Fresh, Earlier
  <2> QED
    BY <1>5, <2>6, <2>7, <2>8, <2>9, <2>10, <2>11 DEF AuditInv
<1>8. CASE AuditFails(r) /\ UNCHANGED <<ring, writing>>
  <2>1. /\ answer' \in [result : {"ok", "failed"}, life : Nat] \cup {NoAnswer}
        /\ r.by # "http" => answer' = answer
        /\ r.by = "http" => answer'.result = "failed" /\ http.pc \in Waiting
        /\ Lives' /\ LogLives' /\ Closed'
    BY <1>1, <1>3, <1>4, <1>8, FailureTold
  <2>2. RingTyped' /\ Numbered' /\ Written'
    BY <1>1, <1>8, RingKept DEF AuditInv
  <2>3. QueueTyped'
    BY <1>1, <1>3, <1>8, <2>1 DEF AuditInv, QueueTyped
  <2>4. \A k \in DOMAIN s_queue' : Asked(s_queue[k])'
    <3> TAKE k \in DOMAIN s_queue'
    <3>1. Asked(s_queue'[k]) /\ (s_queue'[k].by = "http" => r.by # "http")
      BY <1>4
    <3> QED
      BY <1>1, <2>1, <3>1 DEF Asked, Expected
  <2>5. Asked(writing)' /\ writing'.by # "http"
    BY <1>1, <1>8 DEF AuditInv, OneRequest, Asked
  <2>6. answer' # NoAnswer => http'.pc \in Waiting
    BY <1>1, <2>1 DEF AuditInv, OneRequest
  <2>7. OneRequest'
    BY <1>4, <2>4, <2>5, <2>6 DEF OneRequest
  <2> QED
    BY <1>5, <2>1, <2>2, <2>3, <2>7 DEF AuditInv
<1> QED
  BY <1>7, <1>8 DEF AuditWrite, r

\* The metadata of one record more: it counts the record in the spare slot,
\* and leaves out the oldest when there is no room.
LEMMA MetaAdvances ==
    ASSUME NEW m \in Metas, m.spare = SlotOf(m.oldest, m.count), NEW n, n = NextMeta(m)
    PROVE  /\ n \in Metas /\ n.next = m.next + 1
           /\ n.spare = SlotOf(n.oldest, n.count)
           /\ \/ /\ n.count = m.count + 1
                 /\ SlotOf(n.oldest, m.count) = m.spare
                 /\ \A k \in 0 .. m.count - 1 : SlotOf(n.oldest, k) = SlotOf(m.oldest, k)
              \/ /\ n.count = m.count /\ m.count = Capacity
                 /\ SlotOf(n.oldest, m.count - 1) = m.spare
                 /\ \A k \in 0 .. m.count - 2 : SlotOf(n.oldest, k) = SlotOf(m.oldest, k + 1)
<1> USE AuditRingAssumption
<1>1. m.next \in Nat \ {0} /\ m.count \in 0 .. Capacity /\ m.oldest \in Slots /\ m.spare \in Slots
  BY DEF Metas
<1>2. CASE m.count < Capacity
  <2>1. m.count \in 0 .. Capacity - 1 /\ m.count + 1 \in 0 .. Capacity
    BY <1>1, <1>2
  <2>2. (m.spare + 1) % (Capacity + 1) = SlotOf(m.oldest, m.count + 1)
    BY <1>1, <2>1, NextSlot
  <2>3. SlotOf(m.oldest, m.count + 1) \in Slots
    BY <1>1, <2>1, SlotValue
  <2>4. n = [m EXCEPT !.next = @ + 1, !.count = @ + 1, !.spare = (@ + 1) % (Capacity + 1)]
    BY <1>2 DEF NextMeta
  <2>5. /\ n.next = m.next + 1 /\ n.count = m.count + 1 /\ n.oldest = m.oldest
        /\ n.spare = (m.spare + 1) % (Capacity + 1)
    BY <2>4 DEF Metas
  <2>6. n \in Metas
    <3> DEFINE s == (m.spare + 1) % (Capacity + 1)
    <3>1. s \in Slots
      BY <2>2, <2>3
    <3> HIDE DEF s
    <3>2. n = [m EXCEPT !.next = m.next + 1, !.count = m.count + 1, !.spare = s]
      BY <2>4 DEF s
    <3>3. m.next + 1 \in Nat \ {0}
      BY <1>1
    <3> QED
      BY <2>1, <3>1, <3>2, <3>3 DEF Metas
  <2> QED
    BY <2>2, <2>5, <2>6
<1>3. CASE ~(m.count < Capacity)
  <2>1. m.count = Capacity /\ Capacity - 1 \in 0 .. Capacity - 1
    BY <1>1, <1>3
  <2> DEFINE o == (m.oldest + 1) % (Capacity + 1)
  <2>2. o \in Slots /\ SlotOf(o, Capacity) = m.oldest /\ SlotOf(o, Capacity - 1) = SlotOf(m.oldest, Capacity)
    <3>1. SlotOf(o, Capacity - 1) = SlotOf(m.oldest, Capacity - 1 + 1) /\ o \in Slots /\ SlotOf(o, Capacity) = m.oldest
      BY <1>1, <2>1, NextSlot
    <3>2. Capacity - 1 + 1 = Capacity
      OBVIOUS
    <3> QED
      BY <3>1, <3>2
  <2>3. \A k \in 0 .. Capacity - 1 : SlotOf(o, k) = SlotOf(m.oldest, k + 1)
    BY <1>1, NextSlot
  <2>4. n = [m EXCEPT !.next = m.next + 1, !.oldest = o, !.spare = m.oldest]
    BY <1>3 DEF NextMeta
  <2> HIDE DEF o
  <2>5. n.next = m.next + 1 /\ n.count = m.count /\ n.oldest = o /\ n.spare = m.oldest
    BY <2>4 DEF Metas
  <2>6. n \in Metas
    <3>1. m.next + 1 \in Nat \ {0}
      BY <1>1
    <3> QED
      BY <1>1, <2>2, <2>4, <3>1 DEF Metas
  <2> QED
    BY <2>1, <2>2, <2>3, <2>5, <2>6
<1> QED
  BY <1>2, <1>3

\* append_locked writes the metadata, and the record counts.
LEMMA AuditCountKeepsAudit == ASSUME AuditInv, AuditCount PROVE AuditInv'
<1> DEFINE m == meta.flash
           n == NextMeta(m)
           record == Stamped(m, writing)
<1>1. /\ UNCHANGED <<ring, s_queue, http, done, degraded>> /\ writing.by # "none" /\ writing' = NoRequest
  BY DEF AuditCount
<1>2. meta.ram = m /\ writing \in AuditRequests /\ Asked(writing)
  BY <1>1 DEF AuditInv, RingTyped, QueueTyped, OneRequest, NoRequest
<1>3. HttpTyped' /\ Written'
  BY <1>1 DEF AuditInv, HttpTyped, Written, NoRequest
<1>4. writing.by = "http" => \A k \in DOMAIN s_queue : s_queue[k].by # "http"
  BY DEF AuditInv, OneRequest
<1>5. ASSUME NEW a, answer' = IF writing.by = "http" THEN a ELSE answer, a # NoAnswer
      PROVE  OneRequest'
  <2>1. \A k \in DOMAIN s_queue' : Asked(s_queue[k])' /\ (s_queue'[k].by = "http" => writing'.by # "http")
    BY <1>1, <1>4, <1>5 DEF AuditInv, OneRequest, Asked, Expected, NoRequest
  <2>2. Asked(writing)' /\ (answer' # NoAnswer => http'.pc \in Waiting)
    BY <1>1, <1>2, <1>5 DEF AuditInv, OneRequest, Asked, NoRequest
  <2> QED
    BY <1>1, <2>1, <2>2 DEF AuditInv, OneRequest
<1>6. CASE AuditFails(writing) /\ UNCHANGED <<meta, open>>
  <2>1. /\ answer' \in [result : {"ok", "failed"}, life : Nat] \cup {NoAnswer}
        /\ Lives' /\ LogLives' /\ Closed'
    BY <1>1, <1>2, <1>6, FailureTold
  <2>2. RingTyped' /\ Numbered'
    BY <1>1, <1>6 DEF AuditInv, RingTyped, Numbered, Nth
  <2>3. QueueTyped'
    BY <1>1, <2>1 DEF AuditInv, QueueTyped
  <2>4. answer' = IF writing.by = "http" THEN [result |-> "failed", life |-> 0] ELSE answer
    BY <1>6 DEF AuditFails, Tell
  <2>5. [result |-> "failed", life |-> 0] # NoAnswer
    BY DEF NoAnswer
  <2>6. OneRequest'
    BY <1>5, <2>4, <2>5
  <2> QED
    BY <1>3, <2>1, <2>2, <2>3, <2>6 DEF AuditInv
<1>7. CASE /\ meta' = [flash |-> n, ram |-> n]
           /\ Tell(writing, "ok", record.life)
           /\ open' = IF record.outcome \in {"success", "failed"} THEN open \ {record.life} ELSE open
  <2>1. /\ m \in Metas /\ m.spare = SlotOf(m.oldest, m.count) /\ ring \in [Slots -> AuditRecords]
        /\ m.count < m.next
    BY DEF AuditInv, RingTyped
  <2>2. /\ n \in Metas /\ n.next = m.next + 1
        /\ n.spare = SlotOf(n.oldest, n.count)
        /\ \/ /\ n.count = m.count + 1
              /\ SlotOf(n.oldest, m.count) = m.spare
              /\ \A k \in 0 .. m.count - 1 : SlotOf(n.oldest, k) = SlotOf(m.oldest, k)
           \/ /\ n.count = m.count /\ m.count = Capacity
              /\ SlotOf(n.oldest, m.count - 1) = m.spare
              /\ \A k \in 0 .. m.count - 2 : SlotOf(n.oldest, k) = SlotOf(m.oldest, k + 1)
    BY <2>1, MetaAdvances
  <2>3. record = ring[m.spare]
    BY <1>1 DEF AuditInv, Written
  <2>4. meta'.flash = n
    BY <1>7
  <2>5. m.next \in Nat \ {0} /\ m.count \in 0 .. Capacity /\ n.count \in 0 .. Capacity
    BY <2>1, <2>2 DEF Metas
  <2>6. /\ record.seq = m.next /\ record.outcome = writing.outcome /\ record.life \in Nat
        /\ record.life = IF writing.outcome = "prepared" THEN m.next ELSE writing.life
    BY <1>2, <2>5 DEF Stamped, AuditRequests
  <2> HIDE DEF m, n, record
  <2>7. RingTyped'
    <3>1. n.count < n.next
      BY <2>1, <2>2, <2>5
    <3> QED
      BY <1>1, <1>7, <2>1, <2>2, <2>4, <3>1 DEF RingTyped
  <2>8. \A k \in 0 .. n.count - 1 :
          \/ k = n.count - 1 /\ Nth(k)' = record
          \/ /\ k + m.count + 1 - n.count \in 0 .. m.count - 1
             /\ Nth(k)' = Nth(k + m.count + 1 - n.count)
    <3> SUFFICES ASSUME NEW k \in 0 .. n.count - 1
                 PROVE  \/ k = n.count - 1 /\ Nth(k)' = record
                        \/ /\ k + m.count + 1 - n.count \in 0 .. m.count - 1
                           /\ Nth(k)' = Nth(k + m.count + 1 - n.count)
      OBVIOUS
    <3>1. Nth(k)' = ring[SlotOf(n.oldest, k)]
      BY <1>1, <2>4 DEF Nth, SlotOf
    <3>2. CASE n.count = m.count + 1
      <4>1. CASE k = m.count
        BY <2>2, <2>3, <2>5, <3>1, <3>2, <4>1
      <4>2. CASE k # m.count
        <5>1. k \in 0 .. m.count - 1 /\ k + m.count + 1 - n.count = k
          BY <2>5, <3>2, <4>2
        <5>2. SlotOf(n.oldest, k) = SlotOf(m.oldest, k)
          BY <2>2, <2>5, <3>2, <5>1
        <5> QED
          BY <3>1, <5>1, <5>2 DEF Nth, m
      <4> QED
        BY <4>1, <4>2
    <3>3. CASE n.count = m.count
      <4>1. CASE k = m.count - 1
        BY <2>2, <2>3, <2>5, <3>1, <3>3, <4>1
      <4>2. CASE k # m.count - 1
        <5>1. k \in 0 .. m.count - 2 /\ k + m.count + 1 - n.count = k + 1 /\ k + 1 \in 0 .. m.count - 1
          BY <2>5, <3>3, <4>2
        <5>2. SlotOf(n.oldest, k) = SlotOf(m.oldest, k + 1)
          BY <2>2, <2>5, <3>3, <5>1
        <5> QED
          BY <3>1, <5>1, <5>2 DEF Nth, m
      <4> QED
        BY <4>1, <4>2
    <3> QED
      BY <2>2, <3>2, <3>3
  <2>9. Numbered'
    <3>1. \A k \in 0 .. m.count - 1 : Nth(k).seq = m.next - m.count + k
      BY DEF AuditInv, Numbered, m
    <3>2. \A k \in 0 .. n.count - 1 : Nth(k)'.seq = n.next - n.count + k
      <4> TAKE k \in 0 .. n.count - 1
      <4>1. CASE k = n.count - 1 /\ Nth(k)' = record
        BY <2>2, <2>5, <2>6, <4>1
      <4>2. CASE /\ k + m.count + 1 - n.count \in 0 .. m.count - 1
                 /\ Nth(k)' = Nth(k + m.count + 1 - n.count)
        <5>1. PICK j \in 0 .. m.count - 1 : j = k + m.count + 1 - n.count
          BY <4>2
        <5>2. Nth(k)'.seq = m.next - m.count + j
          BY <3>1, <4>2, <5>1
        <5> QED
          BY <2>2, <2>5, <5>1, <5>2
      <4> QED
        BY <2>8, <4>1, <4>2
    <3> QED
      BY <2>4, <3>2 DEF Numbered
  <2>10. \A x \in Log' : x \in Log \/ x = record
    <3>1. Log' = {Nth(k)' : k \in 0 .. n.count - 1}
      BY <2>4 DEF Log, Nth, ReadSlot, SlotOf
    <3>2. Log = {Nth(k) : k \in 0 .. m.count - 1}
      BY LogIsNth DEF m
    <3>3. ASSUME NEW k \in 0 .. n.count - 1 PROVE Nth(k)' \in Log \/ Nth(k)' = record
      BY <2>8, <3>2
    <3> QED
      BY <3>1, <3>3
  <2>11. \A x \in Log : x.seq < m.next
    <3>1. Log = {Nth(k) : k \in 0 .. m.count - 1}
      BY LogIsNth DEF m
    <3>2. \A k \in 0 .. m.count - 1 : Nth(k).seq = m.next - m.count + k
      BY DEF AuditInv, Numbered, m
    <3>3. \A k \in 0 .. m.count - 1 : Nth(k).seq < m.next
      BY <2>5, <3>2
    <3> QED
      BY <3>1, <3>3
  <2>12. answer' = IF writing.by = "http" THEN [result |-> "ok", life |-> record.life] ELSE answer
    BY <1>7 DEF Tell
  <2>13. QueueTyped'
    BY <1>1, <2>6, <2>12 DEF AuditInv, QueueTyped
  <2>14. OneRequest'
    <3>1. [result |-> "ok", life |-> record.life] # NoAnswer
      BY DEF NoAnswer
    <3> QED
      BY <1>5, <2>12, <3>1
  <2>15. /\ writing.by \in {"http", "mqtt"}
         /\ writing.by = "mqtt" => record.outcome = "event" /\ answer' = answer
         /\ writing.by = "http" =>
              /\ http.pc \in Waiting /\ answer'.result = "ok" /\ answer'.life = record.life
              /\ http.pc = "login" => record.outcome = "login"
              /\ http.pc = "begin" => record.outcome = "prepared" /\ record.life = m.next
              /\ http.pc = "finish" => /\ record.outcome = IF http.ok THEN "success" ELSE "failed"
                                       /\ record.life = http.life
    BY <1>2, <2>6, <2>12 DEF Asked, Expected, Request, AuditRequests
  <2>16. Earlier' = Earlier \cup {m.next} /\ m.next \notin Earlier /\ m.next \notin done
    BY <2>2, <2>4, <2>5 DEF Earlier, AuditInv, Lives, m
  <2>17. Lives'
    BY <1>1, <2>15, <2>16 DEF AuditInv, Lives, Waiting
  <2>18. \A x \in Log' : /\ x.outcome \in Terminal => x.life < n.next
                         /\ x.outcome = "success" => x.life \in done
                         /\ x.outcome = "failed" => x.life \notin done
                         /\ x.seq \in done => x.outcome = "prepared"
    <3> TAKE x \in Log'
    <3>1. CASE x \in Log
      <4>1. /\ x.outcome \in Terminal => x.life < m.next
            /\ x.outcome = "success" => x.life \in done
            /\ x.outcome = "failed" => x.life \notin done
            /\ x.seq \in done => x.outcome = "prepared"
        BY <3>1 DEF AuditInv, LogLives, m
      <4>2. x.life \in Nat
        <5>1. PICK k \in 0 .. m.count - 1 : x = Nth(k)
          BY <3>1, LogIsNth DEF m
        <5>2. m.oldest \in Slots /\ k \in 0 .. Capacity
          BY <2>1, <2>5, AuditRingAssumption DEF Metas
        <5>3. Nth(k) \in AuditRecords
          BY <2>1, <5>2, SlotValue DEF Nth, m
        <5> QED
          BY <5>1, <5>3 DEF AuditRecords
      <4> QED
        BY <2>2, <2>5, <4>1, <4>2
    <3>2. CASE x = record
      <4>1. http.pc = "finish" => http.life \in Earlier /\ (http.ok <=> http.life \in done)
        BY DEF AuditInv, Lives
      <4>2. http.life \in Earlier => http.life < n.next
        BY <2>2, <2>5 DEF Earlier, m
      <4> QED
        BY <2>6, <2>15, <2>16, <3>2, <4>1, <4>2 DEF Terminal, Waiting
    <3> QED
      BY <2>10, <3>1, <3>2
  <2>19. LogLives'
    <3>1. ASSUME http'.pc = "begin", answer'.result = "ok" PROVE Fresh(answer.life)'
      <4>1. CASE writing.by = "http"
        <5>1. answer'.life = m.next /\ record.outcome = "prepared"
          BY <1>1, <2>15, <3>1, <4>1
        <5>2. \A x \in Log : x.seq # m.next /\ (x.outcome \in Terminal => x.life # m.next)
          BY <2>5, <2>11 DEF AuditInv, LogLives, m
        <5> QED
          BY <2>10, <5>1, <5>2 DEF Fresh, Terminal
      <4>2. CASE writing.by = "mqtt"
        <5>1. answer' = answer /\ record.outcome = "event" /\ Fresh(answer.life) /\ answer.life \in Earlier
          BY <1>1, <2>15, <3>1, <4>2 DEF AuditInv, LogLives, Lives
        <5> QED
          BY <2>6, <2>10, <2>16, <5>1 DEF Fresh, Terminal
      <4> QED
        BY <2>15, <4>1, <4>2
    <3>2. ASSUME http'.pc = "mutate" PROVE Fresh(http.life)'
      <4>1. writing.by = "mqtt" /\ record.outcome = "event" /\ Fresh(http.life) /\ http.life \in Earlier
        BY <1>1, <2>15, <3>2 DEF AuditInv, LogLives, Lives, Waiting
      <4> QED
        BY <1>1, <2>6, <2>10, <2>16, <4>1 DEF Fresh, Terminal
    <3> QED
      BY <1>1, <2>4, <2>18, <3>1, <3>2 DEF LogLives
  <2>20. Closed'
    <3>1. open' \subseteq open
      BY <1>7
    <3>2. ASSUME http'.pc = "finish", answer'.result = "ok" PROVE open' = {}
      <4>1. CASE writing.by = "http"
        <5>1. record.outcome \in Terminal /\ record.life = http.life
          BY <1>1, <2>15, <3>2, <4>1 DEF Terminal
        <5>2. open \subseteq {http.life}
          BY <1>1, <3>2 DEF AuditInv, Closed, Under
        <5> QED
          BY <1>7, <5>1, <5>2 DEF Terminal
      <4>2. CASE writing.by = "mqtt"
        BY <1>1, <2>15, <3>1, <3>2, <4>2 DEF AuditInv, Closed
      <4> QED
        BY <2>15, <4>1, <4>2
    <3> QED
      BY <1>1, <3>1, <3>2 DEF AuditInv, Closed
  <2> QED
    BY <1>3, <2>7, <2>9, <2>13, <2>14, <2>17, <2>19, <2>20 DEF AuditInv
<1> QED
  <2>1. \/ AuditFails(writing) /\ UNCHANGED <<meta, open>>
        \/ /\ meta' = [flash |-> n, ram |-> n]
           /\ Tell(writing, "ok", record.life)
           /\ open' = IF record.outcome \in {"success", "failed"} THEN open \ {record.life} ELSE open
    BY <1>2 DEF AuditCount
  <2> QED
    BY <1>6, <1>7, <2>1

\* Every step keeps AuditInv.
LEMMA NextKeepsAudit == ASSUME AuditInv, [PortalNext]_portalVars PROVE AuditInv'
<1>1. CASE UNCHANGED portalVars
  BY <1>1, QuietKeepsAudit DEF portalVars, Books, audit, changes
<1>2. CASE SessionAges \/ AccessRefused \/ Get \/ Reauthenticate \/ ApTimer \/ RecoveryButton
  <2>1. UNCHANGED Books /\ http' = http
    BY <1>2 DEF SessionAges, AccessRefused, Get, Reauthenticate, ApTimer, RecoveryButton,
                Books, audit, changes
  <2> QED
    BY <2>1, QuietKeepsAudit
<1>3. CASE Noise \/ StationRefused \/ Logout
  <2>1. /\ AppendBestEffort(Request("mqtt", "event", 0))
        /\ http' = http /\ UNCHANGED <<ring, meta, writing, answer, done, open, degraded>>
    BY <1>3 DEF Noise, StationRefused, Logout, AppendBestEffort, changes
  <2> QED
    BY <2>1, EventKeepsAudit
<1>4. CASE RecoveryTimer \/ PowerLost
  <2>1. Boot \/ (UNCHANGED Books /\ http' = http)
    BY <1>4 DEF RecoveryTimer, PowerLost, Books, audit, changes
  <2> QED
    BY <2>1, BootKeepsAudit, QuietKeepsAudit
<1> QED
  BY <1>1, <1>2, <1>3, <1>4, AuditWriteKeepsAudit, AuditCountKeepsAudit, LoginReadKeepsAudit,
     LoginRecordKeepsAudit, LoginCreateKeepsAudit, AdmitKeepsAudit, PreparedKeepsAudit,
     MutateKeepsAudit, FinaliseKeepsAudit, FinishedKeepsAudit, RespondKeepsAudit DEF PortalNext

\* AuditInv is an invariant of the portal: of the audit task (append_locked), of the
\* mutations it brackets (argus_security_audit_mutation_begin, _finish) and of the
\* latch (s_finalization_degraded).
THEOREM AuditInvHolds == PortalSpec => []AuditInv
BY AuditInit, NextKeepsAudit, PTL DEF PortalSpec

\* The log never says what is not so, whatever fails and whenever power is lost: a
\* success was committed, a failure was not, and what was committed had been
\* prepared (argus_security_audit_mutation_begin, _finish).
THEOREM LogTellsTheTruth == PortalSpec => []AuditTruthful
<1>1. AuditInv => AuditTruthful
  <2> SUFFICES ASSUME AuditInv PROVE AuditTruthful
    OBVIOUS
  <2>1. \A life \in done : life < meta.flash.next
    BY DEF AuditInv, Lives, Earlier, RingTyped, Metas
  <2> QED
    BY <2>1 DEF AuditInv, LogLives, AuditTruthful
<1> QED
  BY <1>1, AuditInvHolds, PTL

\* Whenever power is lost, the records the metadata in flash counts have consecutive
\* numbers that end at the last one given: none is missing, repeated or half written
\* (append_locked).
THEOREM LogHasNoGap == PortalSpec => []Numbered
<1>1. AuditInv => Numbered
  BY DEF AuditInv
<1> QED
  BY <1>1, AuditInvHolds, PTL

\* Between two restarts at most one committed change lacks its terminal record
\* (s_finalization_degraded).
THEOREM LatchHolds == PortalSpec => []FailsClosed
<1>1. AuditInv => FailsClosed
  <2> SUFFICES ASSUME AuditInv PROVE Cardinality(open) <= 1
    BY DEF FailsClosed
  <2>1. \A x, y \in open : x = y
    BY DEF AuditInv, Closed
  <2>2. CASE open = {}
    BY <2>2, FS_EmptySet
  <2>3. CASE open # {}
    <3>1. PICK x \in open : TRUE
      BY <2>3
    <3>2. open = {x}
      BY <2>1, <3>1
    <3> QED
      BY <3>2, FS_Singleton
  <2> QED
    BY <2>2, <2>3
<1> QED
  BY <1>1, AuditInvHolds, PTL

---------------------------------------------------------------------------
(* Sessions and the accounts behind them.                                  *)

\* An account: its roles exist, and its epoch is a generation the directory has had.
HumanShape(d, h) ==
    /\ h = [level |-> h.level, scope |-> h.scope, enabled |-> h.enabled, revoked |-> h.revoked,
            roles |-> h.roles, direct |-> h.direct, cred |-> h.cred, rev |-> h.rev]
    /\ h.roles \subseteq DOMAIN d.roles
    /\ h.rev \in 1 .. d.gen

\* The directory.
DirShape(d) ==
    /\ d = [humans |-> d.humans, roles |-> d.roles, gen |-> d.gen]
    /\ d.gen \in Nat \ {0}
    /\ \E R : d.roles \in Seq(R)
    /\ d.humans = [id \in DOMAIN d.humans |-> d.humans[id]]
    /\ \A id \in DOMAIN d.humans : HumanShape(d, d.humans[id])

\* What is known of a principal taken at some login: the epoch of its account has
\* not gone back, and an equal epoch means an unchanged account.
Current(d, p) ==
    \/ p.type = "console" /\ p = ConsolePrincipal(p.cred, p.epoch)
    \/ /\ p.type = "human" /\ p.rev \in 1 .. d.gen
       /\ p.id \in DOMAIN d.humans =>
            /\ p.rev <= d.humans[p.id].rev
            /\ p.rev = d.humans[p.id].rev => p = HumanPrincipal(d, p.id, p.epoch)

\* The session table has its fields.
SessionShape(table) ==
    /\ table = [i \in 1 .. SessionCapacity |-> table[i]]
    /\ \A i \in 1 .. SessionCapacity :
          table[i] = [principal |-> table[i].principal, age |-> table[i].age]

\* Every session and the login under way.
SessionsCurrent ==
    /\ SessionShape(sessions)
    /\ \A i \in Occupied(sessions) : Current(dir, sessions[i].principal)
    /\ http.pc \in {"kdf", "login"} => Current(dir, http.actor)

\* The inductive invariant of the sessions and the accounts behind them.
AccessInv == DirShape(dir) /\ SessionsCurrent

\* What the session table does: sessions end, age, and keep their principals.
Keeps(table, next) ==
    /\ SessionShape(next)
    /\ \A i \in Occupied(next) : i \in Occupied(table) /\ next[i].principal = table[i].principal

\* Nothing that happens to the table, a login apart, gives anyone a session.
LEMMA TableOperations ==
    ASSUME NEW table, SessionShape(table)
    PROVE  /\ Keeps(table, table) /\ Keeps(table, Swept(table)) /\ Keeps(table, RevokeAll(table))
           /\ \A id : Keeps(table, RevokePrincipal(table, id))
           /\ \A i : Keeps(table, RevokeToken(table, i))
           /\ \A i \in Occupied(table) : \A age : Keeps(table, [table EXCEPT ![i].age = age])
<1> USE DEF Keeps, SessionShape, Occupied, NoSession
<1>1. Keeps(table, table)
  OBVIOUS
<1>2. Keeps(table, Swept(table))
  BY DEF Swept
<1>3. Keeps(table, RevokeAll(table))
  BY DEF RevokeAll
<1>4. \A id : Keeps(table, RevokePrincipal(table, id))
  BY DEF RevokePrincipal
<1>5. \A i : Keeps(table, RevokeToken(table, i))
  BY DEF RevokeToken
<1>6. ASSUME NEW i \in Occupied(table), NEW age
      PROVE  Keeps(table, [table EXCEPT ![i].age = age])
  <2> DEFINE next == [table EXCEPT ![i].age = age]
  <2>1. i \in 1 .. SessionCapacity /\ table[i].age # "none"
    OBVIOUS
  <2>2. next = [j \in 1 .. SessionCapacity |-> IF j = i THEN [principal |-> table[i].principal, age |-> age]
                                               ELSE table[j]]
    <3>1. [table[i] EXCEPT !.age = age] = [principal |-> table[i].principal, age |-> age]
      BY <2>1
    <3>2. next = [table EXCEPT ![i] = [table[i] EXCEPT !.age = age]]
      BY Zenon
    <3>3. DOMAIN table = 1 .. SessionCapacity
      OBVIOUS
    <3> HIDE DEF next, SessionShape
    <3> QED
      BY <2>1, <3>1, <3>2, <3>3
  <2> HIDE DEF next
  <2>3. Keeps(table, next)
    BY <2>1, <2>2
  <2> QED
    BY <2>3 DEF next
<1> HIDE DEF Keeps, SessionShape, Occupied, NoSession
<1> QED
  BY <1>1, <1>2, <1>3, <1>4, <1>5, <1>6

\* argus_security_directory_commit, of the copy that was changed.
Committed(n) == [n EXCEPT !.gen = @ + 1]
\* A commit: an account is as it was, or its epoch is later, or it is new and its
\* epoch is later than any before.
Advances(d, n) ==
    /\ n.gen = d.gen + 1
    /\ \A id \in DOMAIN n.humans :
         \/ /\ id \in DOMAIN d.humans /\ n.humans[id].rev = d.humans[id].rev
            /\ \A epoch : HumanPrincipal(n, id, epoch) = HumanPrincipal(d, id, epoch)
         \/ id \in DOMAIN d.humans /\ n.humans[id].rev = d.humans[id].rev + 1
         \/ id \notin DOMAIN d.humans /\ n.humans[id].rev = d.gen + 1

\* What is known of a principal stays so when the directory is committed.
LEMMA CurrentAdvances ==
    ASSUME NEW d, NEW n, DirShape(d), Advances(d, n), NEW p, Current(d, p)
    PROVE  Current(n, p)
<1>1. CASE p.type = "console" /\ p = ConsolePrincipal(p.cred, p.epoch)
  BY <1>1 DEF Current
<1>2. CASE ~(p.type = "console" /\ p = ConsolePrincipal(p.cred, p.epoch))
  <2>1. /\ p.type = "human" /\ p.rev \in 1 .. d.gen /\ d.gen \in Nat /\ n.gen = d.gen + 1
        /\ p.id \in DOMAIN d.humans =>
             /\ p.rev <= d.humans[p.id].rev /\ d.humans[p.id].rev \in Nat
             /\ p.rev = d.humans[p.id].rev => p = HumanPrincipal(d, p.id, p.epoch)
    BY <1>2 DEF Current, DirShape, HumanShape, Advances
  <2>2. p.rev \in 1 .. n.gen
    BY <2>1
  <2>3. ASSUME p.id \in DOMAIN n.humans
        PROVE  /\ p.rev <= n.humans[p.id].rev
               /\ p.rev = n.humans[p.id].rev => p = HumanPrincipal(n, p.id, p.epoch)
    <3>1. CASE /\ p.id \in DOMAIN d.humans /\ n.humans[p.id].rev = d.humans[p.id].rev
               /\ \A epoch : HumanPrincipal(n, p.id, epoch) = HumanPrincipal(d, p.id, epoch)
      BY <2>1, <3>1
    <3>2. CASE p.id \in DOMAIN d.humans /\ n.humans[p.id].rev = d.humans[p.id].rev + 1
      BY <2>1, <3>2
    <3>3. CASE p.id \notin DOMAIN d.humans /\ n.humans[p.id].rev = d.gen + 1
      BY <2>1, <3>3
    <3> QED
      BY <2>3, <3>1, <3>2, <3>3 DEF Advances
  <2> QED
    BY <2>1, <2>2, <2>3 DEF Current
<1> QED
  BY <1>1, <1>2

\* A record is put in, or changed.
LEMMA ChangeAdvances ==
    ASSUME NEW d, DirShape(d), NEW id, NEW h,
           h = [level |-> h.level, scope |-> h.scope, enabled |-> h.enabled,
                revoked |-> h.revoked, roles |-> h.roles, direct |-> h.direct,
                cred |-> h.cred, rev |-> h.rev],
           h.roles \subseteq DOMAIN d.roles,
           \/ id \in DOMAIN d.humans /\ h.rev = d.humans[id].rev + 1
           \/ id \notin DOMAIN d.humans /\ h.rev = d.gen + 1
    PROVE  LET n == Committed(Changed(d, id, h)) IN DirShape(n) /\ Advances(d, n)
<1> DEFINE humans == [x \in DOMAIN d.humans \cup {id} |-> IF x = id THEN h ELSE d.humans[x]]
           n == [humans |-> humans, roles |-> d.roles, gen |-> d.gen + 1]
<1>1. Committed(Changed(d, id, h)) = n
  <2>1. With(d.humans, id, h) = humans
    BY DEF With
  <2> HIDE DEF humans
  <2>2. Changed(d, id, h) = [humans |-> humans, roles |-> d.roles, gen |-> d.gen]
    BY <2>1 DEF DirShape, Changed
  <2> QED
    BY <2>2 DEF Committed
<1>2. n.humans = humans /\ n.roles = d.roles /\ n.gen = d.gen + 1 /\ d.gen \in Nat \ {0}
  BY DEF DirShape
<1>3. /\ DOMAIN humans = DOMAIN d.humans \cup {id} /\ humans[id] = h
      /\ \A x \in DOMAIN d.humans : x # id => humans[x] = d.humans[x]
  OBVIOUS
<1>4. humans = [x \in DOMAIN humans |-> humans[x]]
  OBVIOUS
<1>5. n = [humans |-> n.humans, roles |-> n.roles, gen |-> n.gen]
  OBVIOUS
<1> HIDE DEF humans, n
<1>6. \A x \in DOMAIN d.humans : HumanShape(d, d.humans[x]) /\ d.humans[x].rev \in 1 .. d.gen
  BY DEF DirShape, HumanShape
<1>7. \A x \in DOMAIN humans : HumanShape(n, humans[x])
  <2> TAKE x \in DOMAIN humans
  <2>1. CASE x = id
    <3>1. h.rev \in 1 .. n.gen
      BY <1>2, <1>6
    <3> QED
      BY <1>2, <1>3, <2>1, <3>1 DEF HumanShape
  <2>2. CASE x # id
    <3>1. humans[x] = d.humans[x] /\ x \in DOMAIN d.humans
      BY <1>3, <2>2
    <3>2. d.humans[x].rev \in 1 .. n.gen
      BY <1>2, <1>6, <3>1
    <3> QED
      BY <1>2, <1>6, <3>1, <3>2 DEF HumanShape
  <2> QED
    BY <2>1, <2>2
<1>8. DirShape(n)
  <2>1. \E R : n.roles \in Seq(R)
    BY <1>2 DEF DirShape
  <2>2. n.gen \in Nat \ {0}
    BY <1>2
  <2> QED
    BY <1>2, <1>4, <1>5, <1>7, <2>1, <2>2 DEF DirShape
<1>9. Advances(d, n)
  <2>1. \A x \in DOMAIN d.humans : x # id =>
           \A epoch : HumanPrincipal(n, x, epoch) = HumanPrincipal(d, x, epoch)
    <3> TAKE x \in DOMAIN d.humans
    <3>1. ASSUME x # id PROVE n.humans[x] = d.humans[x] /\ n.roles = d.roles
      BY <1>2, <1>3, <3>1
    <3> QED
      BY <3>1, Zenon DEF HumanPrincipal, HumanPermissions, HumanDelegable
  <2> QED
    BY <1>2, <1>3, <2>1 DEF Advances
<1> QED
  BY <1>1, <1>8, <1>9

\* The operations on one person's record.
LEMMA PersonOperations ==
    ASSUME NEW d, DirShape(d), NEW id
    PROVE  /\ id \notin DOMAIN d.humans => \A level :
                LET n == Committed(CreateHuman(d, id, level, "site", {}))
                IN  DirShape(n) /\ Advances(d, n)
           /\ id \in DOMAIN d.humans => \A enabled :
                LET n == Committed(SetEnabled(d, id, enabled)) IN DirShape(n) /\ Advances(d, n)
           /\ id \in DOMAIN d.humans =>
                LET n == Committed(ReplacePassword(d, id)) IN DirShape(n) /\ Advances(d, n)
           /\ id \in DOMAIN d.humans => \A roles \in SUBSET DOMAIN d.roles :
                LET n == Committed(AssignCustomRoles(d, id, roles))
                IN  DirShape(n) /\ Advances(d, n)
<1>1. ASSUME NEW level, id \notin DOMAIN d.humans
      PROVE  LET n == Committed(CreateHuman(d, id, level, "site", {}))
             IN  DirShape(n) /\ Advances(d, n)
  <2> DEFINE h == [level |-> level, scope |-> "site", enabled |-> TRUE, revoked |-> FALSE,
                   roles |-> {}, direct |-> {}, cred |-> 1, rev |-> d.gen + 1]
  <2>1. /\ h = [level |-> h.level, scope |-> h.scope, enabled |-> h.enabled,
                revoked |-> h.revoked, roles |-> h.roles, direct |-> h.direct,
                cred |-> h.cred, rev |-> h.rev]
        /\ h.roles \subseteq DOMAIN d.roles /\ h.rev = d.gen + 1
    OBVIOUS
  <2>2. CreateHuman(d, id, level, "site", {}) = Changed(d, id, h)
    BY DEF CreateHuman
  <2> HIDE DEF h
  <2> QED
    BY <1>1, <2>1, <2>2, ChangeAdvances
<1>2. ASSUME id \in DOMAIN d.humans, NEW enabled, NEW revoked, NEW roles \in SUBSET DOMAIN d.roles,
             NEW cred, NEW h,
             h = [d.humans[id] EXCEPT !.enabled = enabled, !.revoked = revoked, !.roles = roles,
                                      !.cred = cred, !.rev = @ + 1]
      PROVE  LET n == Committed(Changed(d, id, h)) IN DirShape(n) /\ Advances(d, n)
  <2> DEFINE g == d.humans[id]
  <2>1. g = [level |-> g.level, scope |-> g.scope, enabled |-> g.enabled,
             revoked |-> g.revoked, roles |-> g.roles, direct |-> g.direct,
             cred |-> g.cred, rev |-> g.rev]
    BY <1>2 DEF DirShape, HumanShape
  <2> HIDE DEF g
  <2>2. h = [level |-> g.level, scope |-> g.scope, enabled |-> enabled,
             revoked |-> revoked, roles |-> roles, direct |-> g.direct,
             cred |-> cred, rev |-> g.rev + 1]
    BY <1>2, <2>1 DEF g
  <2>3. /\ h = [level |-> h.level, scope |-> h.scope, enabled |-> h.enabled,
                revoked |-> h.revoked, roles |-> h.roles, direct |-> h.direct,
                cred |-> h.cred, rev |-> h.rev]
        /\ h.roles = roles /\ h.rev = g.rev + 1
    BY <2>2
  <2>4. h.roles \subseteq DOMAIN d.roles
    BY <2>3
  <2> QED
    BY <1>2, <2>3, <2>4, ChangeAdvances DEF g
<1>3. ASSUME id \in DOMAIN d.humans
      PROVE  LET g == d.humans[id]
             IN  /\ g = [level |-> g.level, scope |-> g.scope, enabled |-> g.enabled,
                         revoked |-> g.revoked, roles |-> g.roles, direct |-> g.direct,
                         cred |-> g.cred, rev |-> g.rev]
                 /\ g.roles \in SUBSET DOMAIN d.roles
  BY <1>3 DEF DirShape, HumanShape
<1>4. ASSUME id \in DOMAIN d.humans, NEW enabled
      PROVE  LET n == Committed(SetEnabled(d, id, enabled)) IN DirShape(n) /\ Advances(d, n)
  <2> DEFINE g == d.humans[id]
             h == [g EXCEPT !.enabled = enabled, !.revoked = ~enabled, !.rev = @ + 1]
  <2>1. h = [g EXCEPT !.enabled = enabled, !.revoked = ~enabled, !.roles = g.roles,
                      !.cred = g.cred, !.rev = @ + 1]
    BY <1>3, <1>4
  <2>2. SetEnabled(d, id, enabled) = Changed(d, id, h)
    BY DEF SetEnabled
  <2>3. g.roles \in SUBSET DOMAIN d.roles
    BY <1>3, <1>4
  <2> HIDE DEF h
  <2>4. LET n == Committed(Changed(d, id, h)) IN DirShape(n) /\ Advances(d, n)
    BY <1>2, <1>4, <2>1, <2>3
  <2> QED
    BY <2>2, <2>4
<1>5. ASSUME id \in DOMAIN d.humans
      PROVE  LET n == Committed(ReplacePassword(d, id)) IN DirShape(n) /\ Advances(d, n)
  <2> DEFINE g == d.humans[id]
             h == [g EXCEPT !.cred = @ + 1, !.rev = @ + 1]
  <2>1. h = [g EXCEPT !.enabled = g.enabled, !.revoked = g.revoked, !.roles = g.roles,
                      !.cred = g.cred + 1, !.rev = @ + 1]
    BY <1>3, <1>5
  <2>2. ReplacePassword(d, id) = Changed(d, id, h)
    BY DEF ReplacePassword
  <2>3. g.roles \in SUBSET DOMAIN d.roles
    BY <1>3, <1>5
  <2> HIDE DEF h
  <2>4. LET n == Committed(Changed(d, id, h)) IN DirShape(n) /\ Advances(d, n)
    BY <1>2, <1>5, <2>1, <2>3
  <2> QED
    BY <2>2, <2>4
<1>6. ASSUME id \in DOMAIN d.humans, NEW roles \in SUBSET DOMAIN d.roles
      PROVE  LET n == Committed(AssignCustomRoles(d, id, roles))
             IN  DirShape(n) /\ Advances(d, n)
  <2> DEFINE g == d.humans[id]
             h == [g EXCEPT !.roles = roles, !.rev = @ + 1]
  <2>1. h = [g EXCEPT !.enabled = g.enabled, !.revoked = g.revoked, !.roles = roles,
                      !.cred = g.cred, !.rev = @ + 1]
    BY <1>3, <1>6
  <2>2. AssignCustomRoles(d, id, roles) = Changed(d, id, h)
    BY DEF AssignCustomRoles
  <2> HIDE DEF h
  <2>3. LET n == Committed(Changed(d, id, h)) IN DirShape(n) /\ Advances(d, n)
    BY <1>2, <1>6, <2>1
  <2> QED
    BY <2>2, <2>3
<1> QED
  BY <1>1, <1>4, <1>5, <1>6

\* A directory whose people have the same authority as before, with the same
\* epochs, or are gone.
LEMMA SameAuthorityAdvances ==
    ASSUME NEW d, DirShape(d), NEW n, DirShape(n), n.gen = d.gen + 1,
           \A id \in DOMAIN n.humans :
              /\ id \in DOMAIN d.humans /\ n.humans[id].rev = d.humans[id].rev
              /\ \A epoch : HumanPrincipal(n, id, epoch) = HumanPrincipal(d, id, epoch)
    PROVE  Advances(d, n)
BY DEF Advances

\* A display name changes, and nothing the model keeps.
LEMMA NameAdvances ==
    ASSUME NEW d, DirShape(d)
    PROVE  DirShape(Committed(d)) /\ Advances(d, Committed(d))
<1> DEFINE n == Committed(d)
<1>1. n = [humans |-> d.humans, roles |-> d.roles, gen |-> d.gen + 1]
  BY DEF DirShape, Committed
<1> HIDE DEF n
<1>2. n.humans = d.humans /\ n.roles = d.roles /\ n.gen = d.gen + 1 /\ d.gen \in Nat \ {0}
  BY <1>1 DEF DirShape
<1>3. \A x \in DOMAIN d.humans : HumanShape(n, d.humans[x])
  BY <1>2 DEF DirShape, HumanShape
<1>4. DirShape(n)
  <2>1. n = [humans |-> n.humans, roles |-> n.roles, gen |-> n.gen] /\ n.gen \in Nat \ {0}
    BY <1>1, <1>2
  <2> QED
    BY <1>2, <1>3, <2>1 DEF DirShape
<1>5. \A x \in DOMAIN d.humans :
        \A epoch : HumanPrincipal(n, x, epoch) = HumanPrincipal(d, x, epoch)
  BY <1>2, Zenon DEF HumanPrincipal, HumanPermissions, HumanDelegable
<1> QED
  BY <1>2, <1>4, <1>5, SameAuthorityAdvances DEF n

\* An account is deleted.
LEMMA DeleteAdvances ==
    ASSUME NEW d, DirShape(d), NEW id
    PROVE  LET n == Committed(DeleteHuman(d, id)) IN DirShape(n) /\ Advances(d, n)
<1> DEFINE humans == [x \in DOMAIN d.humans \ {id} |-> d.humans[x]]
           n == [humans |-> humans, roles |-> d.roles, gen |-> d.gen + 1]
<1>1. Committed(DeleteHuman(d, id)) = n
  <2>1. Without(d.humans, id) = humans
    BY DEF Without
  <2> HIDE DEF humans
  <2>2. DeleteHuman(d, id) = [humans |-> humans, roles |-> d.roles, gen |-> d.gen]
    BY <2>1 DEF DirShape, DeleteHuman
  <2> QED
    BY <2>2 DEF Committed
<1>2. n.humans = humans /\ n.roles = d.roles /\ n.gen = d.gen + 1 /\ d.gen \in Nat \ {0}
  BY DEF DirShape
<1>3. \A x \in DOMAIN humans : x \in DOMAIN d.humans /\ humans[x] = d.humans[x]
  OBVIOUS
<1>4. humans = [x \in DOMAIN humans |-> humans[x]]
  OBVIOUS
<1>5. n = [humans |-> n.humans, roles |-> n.roles, gen |-> n.gen]
  OBVIOUS
<1> HIDE DEF humans, n
<1>6. \A x \in DOMAIN humans : HumanShape(n, humans[x])
  BY <1>2, <1>3 DEF DirShape, HumanShape
<1>7. DirShape(n)
  <2>1. n.gen \in Nat \ {0} /\ \E R : n.roles \in Seq(R)
    BY <1>2 DEF DirShape
  <2> QED
    BY <1>2, <1>4, <1>5, <1>6, <2>1 DEF DirShape
<1>8. \A x \in DOMAIN humans :
        \A epoch : HumanPrincipal(n, x, epoch) = HumanPrincipal(d, x, epoch)
  <2> TAKE x \in DOMAIN humans
  <2>1. n.humans[x] = d.humans[x] /\ n.roles = d.roles
    BY <1>2, <1>3
  <2> QED
    BY <2>1, Zenon DEF HumanPrincipal, HumanPermissions, HumanDelegable
<1>9. Advances(d, n)
  BY <1>2, <1>3, <1>7, <1>8, SameAuthorityAdvances
<1> QED
  BY <1>1, <1>7, <1>9

\* A new role is at the end, where no record points yet.
LEMMA NewRoleAdvances ==
    ASSUME NEW d, DirShape(d), NEW role, NEW perms, NEW delegable
    PROVE  LET n == Committed(CreateRole(d, role, perms, delegable))
           IN  DirShape(n) /\ Advances(d, n)
<1> DEFINE e == [id |-> role, perms |-> perms, delegable |-> delegable]
           roles == Append(d.roles, e)
           n == [humans |-> d.humans, roles |-> roles, gen |-> d.gen + 1]
<1>1. Committed(CreateRole(d, role, perms, delegable)) = n
  <2>1. CreateRole(d, role, perms, delegable)
          = [humans |-> d.humans, roles |-> roles, gen |-> d.gen]
    BY DEF DirShape, CreateRole
  <2> HIDE DEF roles
  <2> QED
    BY <2>1 DEF Committed
<1>2. PICK R : d.roles \in Seq(R)
  BY DEF DirShape
<1>3. /\ roles \in Seq(R \cup {e})
      /\ \A i \in DOMAIN d.roles : i \in DOMAIN roles /\ roles[i] = d.roles[i]
  <2> HIDE DEF e
  <2>1. d.roles \in Seq(R \cup {e}) /\ e \in R \cup {e}
    BY <1>2
  <2> QED
    BY <2>1
<1> HIDE DEF roles, e
<1>4. n.humans = d.humans /\ n.roles = roles /\ n.gen = d.gen + 1 /\ d.gen \in Nat \ {0}
  BY DEF DirShape
<1>5. n = [humans |-> n.humans, roles |-> n.roles, gen |-> n.gen]
  OBVIOUS
<1> HIDE DEF n
<1>6. \A x \in DOMAIN d.humans : HumanShape(d, d.humans[x])
  BY DEF DirShape
<1>7. \A x \in DOMAIN d.humans : HumanShape(n, d.humans[x])
  BY <1>3, <1>4, <1>6 DEF HumanShape
<1>8. DirShape(n)
  <2>1. n.gen \in Nat \ {0} /\ \E S : n.roles \in Seq(S)
    BY <1>3, <1>4
  <2>2. d.humans = [id \in DOMAIN d.humans |-> d.humans[id]]
    BY DEF DirShape
  <2> QED
    BY <1>4, <1>5, <1>7, <2>1, <2>2 DEF DirShape
<1>9. \A x \in DOMAIN d.humans :
        \A epoch : HumanPrincipal(n, x, epoch) = HumanPrincipal(d, x, epoch)
  <2> TAKE x \in DOMAIN d.humans
  <2> DEFINE h == d.humans[x]
  <2>1. \A i \in h.roles : n.roles[i] = d.roles[i]
    BY <1>3, <1>4, <1>6 DEF HumanShape
  <2>2. n.humans[x] = h
    BY <1>4
  <2>3. HumanPermissions(n, h) = HumanPermissions(d, h)
    <3>1. {n.roles[i].perms : i \in h.roles} = {d.roles[i].perms : i \in h.roles}
      BY <2>1
    <3> QED
      BY <3>1, Zenon DEF HumanPermissions
  <2>4. HumanDelegable(n, h) = HumanDelegable(d, h)
    <3>1. {n.roles[i].delegable : i \in h.roles} = {d.roles[i].delegable : i \in h.roles}
      BY <2>1
    <3> QED
      BY <3>1, Zenon DEF HumanDelegable
  <2> QED
    BY <2>2, <2>3, <2>4, Zenon DEF HumanPrincipal
<1>10. Advances(d, n)
  BY <1>4, <1>8, <1>9, SameAuthorityAdvances
<1> QED
  BY <1>1, <1>8, <1>10

\* The roles that are left are where the shifted masks point.
LEMMA RolesMoveDown ==
    ASSUME NEW R, NEW s \in Seq(R), NEW i \in DOMAIN s
    PROVE  /\ RemoveAt(s, i) \in Seq(R)
           /\ \A k \in DOMAIN s : k # i =>
                LET j == IF k > i THEN k - 1 ELSE k
                IN  j \in DOMAIN RemoveAt(s, i) /\ RemoveAt(s, i)[j] = s[k]
<1> DEFINE a == SubSeq(s, 1, i - 1)
           b == SubSeq(s, i + 1, Len(s))
<1>1. Len(s) \in Nat /\ DOMAIN s = 1 .. Len(s) /\ i \in 1 .. Len(s)
  OBVIOUS
<1>2. a \in Seq(R) /\ Len(a) = i - 1 /\ \A k \in 1 .. i - 1 : a[k] = s[k]
  BY <1>1
<1>3. b \in Seq(R) /\ Len(b) = Len(s) - i /\ \A k \in 1 .. Len(s) - i : b[k] = s[i + k]
  <2>1. b \in Seq(R)
    BY <1>1
  <2>2. Len(b) = Len(s) - i
    BY <1>1
  <2>3. \A k \in 1 .. Len(s) - i : b[k] = s[i + k]
    BY <1>1
  <2> QED
    BY <2>1, <2>2, <2>3
<1> HIDE DEF a, b
<1>4. /\ a \o b \in Seq(R) /\ Len(a \o b) = Len(s) - 1
      /\ \A k \in 1 .. Len(s) - 1 : (a \o b)[k] = IF k <= i - 1 THEN a[k] ELSE b[k - (i - 1)]
  <2>1. /\ a \o b \in Seq(R) /\ Len(a \o b) = Len(a) + Len(b)
        /\ \A k \in 1 .. Len(a) + Len(b) :
              (a \o b)[k] = IF k <= Len(a) THEN a[k] ELSE b[k - Len(a)]
    BY <1>2, <1>3, ConcatProperties
  <2>2. Len(a) + Len(b) = Len(s) - 1
    BY <1>1, <1>2, <1>3
  <2> QED
    BY <1>2, <2>1, <2>2
<1>5. RemoveAt(s, i) = a \o b
  BY DEF RemoveAt, a, b
<1>6. \A k \in DOMAIN s : k # i =>
        LET j == IF k > i THEN k - 1 ELSE k
        IN  j \in DOMAIN (a \o b) /\ (a \o b)[j] = s[k]
  <2> SUFFICES ASSUME NEW k \in 1 .. Len(s), k # i
               PROVE  LET j == IF k > i THEN k - 1 ELSE k
                      IN  j \in DOMAIN (a \o b) /\ (a \o b)[j] = s[k]
    BY <1>1
  <2>1. DOMAIN (a \o b) = 1 .. Len(s) - 1
    <3>1. PICK c \in Seq(R) : c = a \o b
      BY <1>4
    <3>2. DOMAIN c = 1 .. Len(c)
      OBVIOUS
    <3> QED
      BY <1>4, <3>1, <3>2
  <2>2. CASE k > i
    <3>1. k - 1 \in 1 .. Len(s) - 1 /\ k - 1 - (i - 1) \in 1 .. Len(s) - i /\ ~(k - 1 <= i - 1)
          /\ i + (k - 1 - (i - 1)) = k
      BY <1>1, <2>2
    <3> QED
      BY <1>3, <1>4, <2>1, <2>2, <3>1
  <2>3. CASE ~(k > i)
    <3>1. k \in 1 .. Len(s) - 1 /\ k \in 1 .. i - 1 /\ k <= i - 1
      BY <1>1, <2>3
    <3> QED
      BY <1>2, <1>4, <2>1, <2>3, <3>1
  <2> QED
    BY <2>2, <2>3
<1> QED
  BY <1>4, <1>5, <1>6

\* A role nobody has is deleted: the others keep what their roles give them, although
\* the roles move (argus_security_admin_delete_role).
LEMMA RemoveRoleAdvances ==
    ASSUME NEW d, DirShape(d), NEW i \in DOMAIN d.roles,
           \A id \in DOMAIN d.humans : i \notin d.humans[id].roles
    PROVE  LET n == Committed(DeleteRole(d, i)) IN DirShape(n) /\ Advances(d, n)
<1> DEFINE Down(k) == IF k > i THEN k - 1 ELSE k
           roles == RemoveAt(d.roles, i)
           humans == [x \in DOMAIN d.humans |-> MovedDown(d.humans[x], i)]
           n == [humans |-> humans, roles |-> roles, gen |-> d.gen + 1]
<1>1. Committed(DeleteRole(d, i)) = n
  <2>1. DeleteRole(d, i) = [d EXCEPT !.roles = roles, !.humans = humans]
    BY DEF DeleteRole
  <2> HIDE DEF roles, humans
  <2>2. DeleteRole(d, i) = [humans |-> humans, roles |-> roles, gen |-> d.gen]
    BY <2>1 DEF DirShape
  <2> QED
    BY <2>2 DEF Committed
<1>2. PICK R : d.roles \in Seq(R)
  BY DEF DirShape
<1>3. /\ roles \in Seq(R)
      /\ \A k \in DOMAIN d.roles : k # i => Down(k) \in DOMAIN roles /\ roles[Down(k)] = d.roles[k]
  BY <1>2, RolesMoveDown
<1>4. \A x \in DOMAIN d.humans :
        LET h == d.humans[x]
        IN  /\ MovedDown(h, i) = [level |-> h.level, scope |-> h.scope, enabled |-> h.enabled,
                           revoked |-> h.revoked, roles |-> {Down(r) : r \in h.roles},
                           direct |-> h.direct, cred |-> h.cred, rev |-> h.rev]
            /\ h.roles \subseteq DOMAIN d.roles /\ i \notin h.roles /\ h.rev \in 1 .. d.gen
  <2> TAKE x \in DOMAIN d.humans
  <2> DEFINE h == d.humans[x]
  <2>1. /\ h = [level |-> h.level, scope |-> h.scope, enabled |-> h.enabled, revoked |-> h.revoked,
               roles |-> h.roles, direct |-> h.direct, cred |-> h.cred, rev |-> h.rev]
        /\ h.roles \subseteq DOMAIN d.roles /\ i \notin h.roles /\ h.rev \in 1 .. d.gen
    BY DEF DirShape, HumanShape
  <2> HIDE DEF h
  <2> DEFINE down == {Down(r) : r \in h.roles}
  <2>2. MovedDown(h, i) = [h EXCEPT !.roles = down]
    BY DEF MovedDown
  <2> HIDE DEF down
  <2>3. MovedDown(h, i) = [level |-> h.level, scope |-> h.scope, enabled |-> h.enabled,
                    revoked |-> h.revoked, roles |-> down,
                    direct |-> h.direct, cred |-> h.cred, rev |-> h.rev]
    BY <2>1, <2>2
  <2> QED
    BY <2>1, <2>3, Zenon DEF h, down
<1> HIDE DEF roles, Down
<1>5. /\ DOMAIN humans = DOMAIN d.humans /\ humans = [x \in DOMAIN humans |-> humans[x]]
      /\ \A x \in DOMAIN d.humans : humans[x] = MovedDown(d.humans[x], i)
  OBVIOUS
<1> HIDE DEF humans
<1>6. n.humans = humans /\ n.roles = roles /\ n.gen = d.gen + 1 /\ d.gen \in Nat \ {0}
  BY DEF DirShape
<1>7. n = [humans |-> n.humans, roles |-> n.roles, gen |-> n.gen]
  OBVIOUS
<1> HIDE DEF n
<1>8. ASSUME NEW x \in DOMAIN d.humans
      PROVE  /\ HumanShape(n, humans[x]) /\ humans[x].rev = d.humans[x].rev
             /\ \A epoch : HumanPrincipal(n, x, epoch) = HumanPrincipal(d, x, epoch)
  <2> DEFINE h == d.humans[x]
             g == humans[x]
  <2>1. /\ g = [level |-> h.level, scope |-> h.scope, enabled |-> h.enabled,
                revoked |-> h.revoked, roles |-> {Down(r) : r \in h.roles},
                direct |-> h.direct, cred |-> h.cred, rev |-> h.rev]
        /\ h.roles \subseteq DOMAIN d.roles /\ i \notin h.roles /\ h.rev \in 1 .. d.gen
    BY <1>4, <1>5
  <2> HIDE DEF g, h
  <2>2. /\ g.level = h.level /\ g.scope = h.scope /\ g.direct = h.direct /\ g.cred = h.cred
        /\ g.rev = h.rev /\ g.roles = {Down(r) : r \in h.roles}
    BY <2>1
  <2>3. \A r \in h.roles : Down(r) \in DOMAIN roles /\ roles[Down(r)] = d.roles[r]
    BY <1>3, <2>1
  <2>4. HumanShape(n, g)
    <3>1. g.roles \subseteq DOMAIN n.roles
      BY <1>6, <2>2, <2>3
    <3>2. g.rev \in 1 .. n.gen
      BY <1>6, <2>1, <2>2
    <3>3. g = [level |-> g.level, scope |-> g.scope, enabled |-> g.enabled,
               revoked |-> g.revoked, roles |-> g.roles, direct |-> g.direct,
               cred |-> g.cred, rev |-> g.rev]
      BY <2>1
    <3> QED
      BY <3>1, <3>2, <3>3 DEF HumanShape
  <2>5. HumanPermissions(n, g) = HumanPermissions(d, h)
    <3>1. {n.roles[k].perms : k \in g.roles} = {d.roles[r].perms : r \in h.roles}
      BY <1>6, <2>2, <2>3
    <3> QED
      BY <2>2, <3>1, Zenon DEF HumanPermissions
  <2>6. HumanDelegable(n, g) = HumanDelegable(d, h)
    <3>1. {n.roles[k].delegable : k \in g.roles} = {d.roles[r].delegable : r \in h.roles}
      BY <1>6, <2>2, <2>3
    <3> QED
      BY <2>2, <3>1, Zenon DEF HumanDelegable
  <2>7. n.humans[x] = g /\ d.humans[x] = h
    BY <1>6 DEF g, h
  <2>8. \A epoch : HumanPrincipal(n, x, epoch) = HumanPrincipal(d, x, epoch)
    BY <2>2, <2>5, <2>6, <2>7, Zenon DEF HumanPrincipal
  <2> QED
    BY <2>2, <2>4, <2>8 DEF g, h
<1>9. DirShape(n)
  <2>1. n.gen \in Nat \ {0} /\ \E S : n.roles \in Seq(S)
    BY <1>3, <1>6
  <2> QED
    BY <1>5, <1>6, <1>7, <1>8, <2>1 DEF DirShape
<1>10. Advances(d, n)
  BY <1>5, <1>6, <1>8, <1>9, SameAuthorityAdvances
<1> QED
  BY <1>1, <1>9, <1>10

---------------------------------------------------------------------------
(* Every step keeps the sessions current or out of date, never in between. *)

\* Where the handler keeps the principal of a login.
LoggingIn == {"kdf", "login"}

\* AccessInv holds at the start.
LEMMA AccessInit == PortalInit => AccessInv
<1> SUFFICES ASSUME PortalInit PROVE AccessInv
  OBVIOUS
<1>1. DirShape(dir)
  <2>1. dir = [humans |-> <<>>, roles |-> <<>>, gen |-> 1]
    BY DEF PortalInit, EmptyDirectory
  <2>2. dir.humans = <<>> /\ dir.roles = <<>> /\ dir.gen = 1
    BY <2>1
  <2>3. dir.roles \in Seq({}) /\ DOMAIN dir.humans = {}
    BY <2>2
  <2>4. dir.humans = [id \in DOMAIN dir.humans |-> dir.humans[id]]
    BY <2>2, <2>3
  <2> QED
    BY <2>1, <2>2, <2>3, <2>4 DEF DirShape
<1>2. SessionShape(sessions) /\ Occupied(sessions) = {}
  BY DEF PortalInit, SessionShape, NoSession, Occupied
<1>3. http.pc = "idle"
  BY DEF PortalInit, HttpIdle
<1> QED
  BY <1>1, <1>2, <1>3 DEF AccessInv, SessionsCurrent

\* The directory stays, or only the session table and the request move.
LEMMA TableKeepsAccess ==
    ASSUME AccessInv, dir' = dir, Keeps(sessions, sessions'),
           http'.pc \in LoggingIn => http.pc \in LoggingIn /\ http'.actor = http.actor
    PROVE  AccessInv'
<1>1. \A i \in Occupied(sessions') : Current(dir, sessions'[i].principal)
  BY DEF AccessInv, SessionsCurrent, Keeps
<1>2. http'.pc \in {"kdf", "login"} => Current(dir, http'.actor)
  BY DEF AccessInv, SessionsCurrent, LoggingIn
<1>3. SessionShape(sessions') /\ DirShape(dir)
  BY DEF Keeps, AccessInv
<1> QED
  BY <1>1, <1>2, <1>3 DEF AccessInv, SessionsCurrent

\* The directory is committed.
LEMMA CommitKeepsAccess ==
    ASSUME AccessInv, DirShape(dir'), Advances(dir, dir'), Keeps(sessions, sessions'),
           http'.pc = "mutated"
    PROVE  AccessInv'
<1>1. \A i \in Occupied(sessions') : Current(dir, sessions'[i].principal)
  BY DEF AccessInv, SessionsCurrent, Keeps
<1>2. \A i \in Occupied(sessions') : Current(dir', sessions'[i].principal)
  BY <1>1, CurrentAdvances DEF AccessInv
<1>3. SessionShape(sessions')
  BY DEF Keeps
<1> QED
  BY <1>2, <1>3 DEF AccessInv, SessionsCurrent

\* A login reads the account as it is.
LEMMA LoginReadKeepsAccess == ASSUME AccessInv, LoginRead PROVE AccessInv'
<1>1. UNCHANGED <<dir, sessions>>
  BY DEF LoginRead
<1>2. PICK p \in {ConsolePrincipal(store.console, store.epoch)} \cup
                 {HumanPrincipal(dir, id, store.epoch) : id \in MayLogin(dir)} :
        http' = [HttpIdle EXCEPT !.pc = "kdf", !.op = "login", !.actor = p]
  BY DEF LoginRead
<1>3. http'.actor = p
  BY <1>2 DEF HttpIdle
<1>4. Current(dir, p)
  <2>1. CASE p = ConsolePrincipal(store.console, store.epoch)
    BY <2>1 DEF ConsolePrincipal, Current
  <2>2. CASE p \in {HumanPrincipal(dir, id, store.epoch) : id \in MayLogin(dir)}
    <3>1. PICK id \in MayLogin(dir) : p = HumanPrincipal(dir, id, store.epoch)
      BY <2>2
    <3>2. id \in DOMAIN dir.humans
      BY DEF MayLogin
    <3>3. /\ p.type = "human" /\ p.id = id /\ p.epoch = store.epoch
          /\ p.rev = dir.humans[id].rev
      BY <3>1 DEF HumanPrincipal
    <3>4. dir.humans[id].rev \in 1 .. dir.gen /\ dir.gen \in Nat
      BY <3>2 DEF AccessInv, DirShape, HumanShape
    <3>5. p.rev <= dir.humans[p.id].rev /\ p = HumanPrincipal(dir, p.id, p.epoch)
      BY <3>1, <3>3, <3>4
    <3> QED
      BY <3>3, <3>4, <3>5 DEF Current
  <2> QED
    BY <1>2, <2>1, <2>2
<1> QED
  BY <1>1, <1>3, <1>4 DEF AccessInv, SessionsCurrent

\* A login ends in a session, although the account may have changed meanwhile.
LEMMA LoginCreateKeepsAccess == ASSUME AccessInv, LoginCreate PROVE AccessInv'
<1>1. dir' = dir /\ http.pc = "login" /\ http'.pc = "idle"
  BY IdleTyped DEF LoginCreate
<1>2. SessionShape(sessions)
  BY DEF AccessInv, SessionsCurrent
<1>3. CASE sessions' \in {Swept(sessions), sessions}
  BY <1>1, <1>2, <1>3, TableOperations, TableKeepsAccess DEF LoggingIn
<1>4. CASE sessions' = Created(Swept(sessions), http.actor)
  <2> DEFINE table == Swept(sessions)
             p == http.actor
  <2>1. Keeps(sessions, table)
    BY <1>2, TableOperations
  <2>2. Current(dir, p)
    BY <1>1 DEF AccessInv, SessionsCurrent
  <2>3. PICK free : sessions' = [table EXCEPT ![free] = [principal |-> p, age |-> "recent"]]
    BY <1>4 DEF Created
  <2> HIDE DEF table, p
  <2>4. DOMAIN table = 1 .. SessionCapacity
    BY <2>1 DEF Keeps, SessionShape
  <2>5. sessions' = [i \in 1 .. SessionCapacity |->
                        IF i = free THEN [principal |-> p, age |-> "recent"] ELSE table[i]]
    BY <2>3, <2>4
  <2>6. SessionShape(sessions')
    BY <2>1, <2>5 DEF Keeps, SessionShape
  <2>7. \A i \in Occupied(sessions') : Current(dir, sessions'[i].principal)
    <3>1. \A i \in Occupied(table) : Current(dir, table[i].principal)
      BY <2>1 DEF Keeps, AccessInv, SessionsCurrent
    <3>2. \A i \in Occupied(sessions') :
             \/ sessions'[i].principal = p
             \/ i \in Occupied(table) /\ sessions'[i].principal = table[i].principal
      BY <2>4, <2>5 DEF Occupied
    <3> QED
      BY <2>2, <3>1, <3>2
  <2> QED
    BY <1>1, <2>6, <2>7 DEF AccessInv, SessionsCurrent
<1> QED
  BY <1>3, <1>4 DEF LoginCreate

\* Every change of an account, a role or the store.
LEMMA MutateKeepsAccess == ASSUME HttpTyped, AccessInv, Mutate PROVE AccessInv'
<1>1. Mutated(TRUE) \/ Mutated(FALSE)
  BY DEF Mutate, Create, Enable, Delete, RevokeSessions, ResetPassword, UpdateDisplayName,
         AssignRoles, NewRole, RemoveRole, SelfPassword, ReplaceApSecret, RecoveryExit,
         MutationFails, Took
<1>2. http'.pc = "mutated"
  BY <1>1, MutatedTyped
<1>3. DirShape(dir) /\ SessionShape(sessions)
  BY DEF AccessInv, SessionsCurrent
<1>4. /\ Keeps(sessions, sessions) /\ Keeps(sessions, RevokeAll(sessions))
      /\ \A id : Keeps(sessions, RevokePrincipal(sessions, id))
  BY <1>3, TableOperations
<1>5. ASSUME dir' = dir, Keeps(sessions, sessions') PROVE AccessInv'
  BY <1>2, <1>5, TableKeepsAccess DEF LoggingIn
<1>6. ASSUME NEW n, CommitDirectory(n), DirShape(Committed(n)), Advances(dir, Committed(n)),
             Keeps(sessions, sessions')
      PROVE  AccessInv'
  BY <1>2, <1>6, CommitKeepsAccess DEF CommitDirectory, Committed
<1>7. CASE Create
  <2>1. http.id \notin DOMAIN dir.humans
    BY <1>7 DEF Create, Mutating, Permitted, MayCreateHuman
  <2> QED
    BY <1>3, <1>4, <1>6, <1>7, <2>1, PersonOperations DEF Create
<1>8. ASSUME NEW enabled \in BOOLEAN, Enable(enabled) PROVE AccessInv'
  <2>1. http.id \in DOMAIN dir.humans
    BY <1>8 DEF Enable, Mutating, Permitted, MaySetEnabled, MayChange, Known
  <2> QED
    BY <1>3, <1>4, <1>6, <1>8, <2>1, PersonOperations DEF Enable
<1>9. CASE Delete
  BY <1>3, <1>4, <1>6, <1>9, DeleteAdvances DEF Delete
<1>10. CASE RevokeSessions \/ ReplaceApSecret \/ RecoveryExit \/ MutationFails
  BY <1>4, <1>5, <1>10 DEF RevokeSessions, ReplaceApSecret, RecoveryExit, MutationFails
<1>11. CASE ResetPassword
  <2>1. http.id \in DOMAIN dir.humans
    BY <1>11 DEF ResetPassword, Mutating, Permitted, MayChange, Known
  <2> QED
    BY <1>3, <1>4, <1>6, <1>11, <2>1, PersonOperations DEF ResetPassword
<1>12. CASE UpdateDisplayName
  BY <1>3, <1>4, <1>6, <1>12, NameAdvances DEF UpdateDisplayName
<1>13. CASE AssignRoles
  <2>1. http.id \in DOMAIN dir.humans /\ http.arg \in SUBSET DOMAIN dir.roles
    BY <1>13 DEF AssignRoles, Mutating, Permitted, MayAssignCustomRoles, MayChange, Known
  <2> QED
    BY <1>3, <1>4, <1>6, <1>13, <2>1, PersonOperations DEF AssignRoles
<1>14. CASE NewRole
  BY <1>3, <1>4, <1>6, <1>14, NewRoleAdvances DEF NewRole
<1>15. CASE RemoveRole
  <2>1. /\ The(http.arg) \in DOMAIN dir.roles
        /\ \A id \in DOMAIN dir.humans : The(http.arg) \notin dir.humans[id].roles
    BY <1>15 DEF RemoveRole, Mutating, Permitted, MayDeleteRole
  <2> QED
    BY <1>3, <1>4, <1>6, <1>15, <2>1, RemoveRoleAdvances DEF RemoveRole
<1>16. CASE SelfPassword
  <2>1. CASE http.actor.type = "console" /\ dir' = dir /\ sessions' = RevokeAll(sessions)
    BY <1>4, <1>5, <2>1
  <2>2. CASE /\ http.actor.type = "human" /\ CommitDirectory(ReplacePassword(dir, http.actor.id))
             /\ sessions' = RevokePrincipal(sessions, http.actor.id)
    <3>1. http.actor.id \in DOMAIN dir.humans
      BY <1>16, <2>2 DEF SelfPassword, Mutating, Permitted, MayReplaceOwnPassword, Known
    <3> QED
      BY <1>3, <1>4, <1>6, <2>2, <3>1, PersonOperations
  <2> QED
    BY <1>16, <2>1, <2>2 DEF SelfPassword
<1> QED
  BY <1>7, <1>8, <1>9, <1>10, <1>11, <1>12, <1>13, <1>14, <1>15, <1>16 DEF Mutate

\* Two operations on the table, one after the other.
LEMMA KeepsTwice ==
    ASSUME NEW a, NEW b, NEW c, Keeps(a, b), Keeps(b, c)
    PROVE  Keeps(a, c)
BY DEF Keeps

\* The requests on the table itself leave the directory and the request alone.
LEMMA SessionStepKeepsAccess ==
    ASSUME AccessInv, SessionAges \/ AccessRefused \/ Get \/ Logout \/ Reauthenticate
    PROVE  AccessInv'
<1> DEFINE swept == Swept(sessions)
<1>1. SessionShape(sessions)
  BY DEF AccessInv, SessionsCurrent
<1>2. Keeps(sessions, swept)
  BY <1>1, TableOperations
<1>3. SessionShape(swept)
  BY <1>2 DEF Keeps
<1> HIDE DEF swept
<1>4. \A i : Keeps(swept, RevokeToken(swept, i))
  BY <1>3, TableOperations
<1>5. \A i \in Occupied(swept) : \A age : Keeps(swept, [swept EXCEPT ![i].age = age])
  BY <1>3, TableOperations
<1>6. Keeps(sessions, sessions')
  <2>1. CASE SessionAges
    <3>1. PICK i \in Occupied(sessions), age \in {"old", "expired"} :
             sessions' = [sessions EXCEPT ![i].age = age]
      BY <2>1 DEF SessionAges
    <3>2. Keeps(sessions, [sessions EXCEPT ![i].age = age])
      BY <1>1, TableOperations
    <3> QED
      BY <3>1, <3>2
  <2>2. CASE AccessRefused \/ Logout
    <3>1. PICK i : sessions' = RevokeToken(swept, i)
      BY <2>2 DEF AccessRefused, Logout, swept
    <3> QED
      BY <1>2, <1>4, <3>1, KeepsTwice
  <2>3. CASE Get
    BY <1>2, <2>3 DEF Get, swept
  <2>4. CASE Reauthenticate
    <3>1. PICK i \in Occupied(swept) : sessions' = [swept EXCEPT ![i].age = "recent"]
      BY <2>4 DEF Reauthenticate, MarkReauthenticated, swept
    <3> QED
      BY <1>2, <1>5, <3>1, KeepsTwice
  <2> QED
    BY <2>1, <2>2, <2>3, <2>4
<1>7. UNCHANGED <<dir, http>>
  BY DEF SessionAges, AccessRefused, Get, Logout, Reauthenticate
<1> QED
  BY <1>6, <1>7, TableKeepsAccess

\* The rest of a request, the log, the timers and a restart.
LEMMA OtherStepKeepsAccess ==
    ASSUME HttpTyped, AccessInv,
           \/ Noise \/ StationRefused \/ AuditWrite \/ AuditCount \/ LoginRecord
           \/ Admit \/ Prepared \/ Finalise \/ Finished \/ RespondThenArm
           \/ ApTimer \/ RecoveryTimer \/ RecoveryButton \/ PowerLost
    PROVE  AccessInv'
<1>1. SessionShape(sessions)
  BY DEF AccessInv, SessionsCurrent
<1>2. Keeps(sessions, sessions) /\ Keeps(sessions, Swept(sessions))
      /\ Keeps(sessions, RevokeAll(sessions))
  BY <1>1, TableOperations
<1>3. ASSUME dir' = dir, sessions' \in {sessions, Swept(sessions), RevokeAll(sessions)},
             http'.pc \in LoggingIn => http.pc \in LoggingIn /\ http'.actor = http.actor
      PROVE  AccessInv'
  BY <1>2, <1>3, TableKeepsAccess
<1>4. CASE Noise \/ StationRefused \/ AuditWrite \/ AuditCount \/ ApTimer \/ RecoveryButton
  <2>1. UNCHANGED <<dir, sessions, http>>
    BY <1>4 DEF Noise, StationRefused, AuditWrite, AuditCount, ApTimer, RecoveryButton
  <2> QED
    BY <1>3, <2>1
<1>5. CASE PowerLost \/ RecoveryTimer
  <2>1. CASE Boot
    <3>1. dir' = dir /\ http'.pc = "idle" /\ sessions' = RevokeAll(sessions)
      BY <2>1, IdleTyped DEF Boot
    <3> QED
      BY <1>3, <3>1 DEF LoggingIn
  <2>2. CASE UNCHANGED <<dir, sessions, http>>
    BY <1>3, <2>2
  <2> QED
    BY <1>5, <2>1, <2>2 DEF PowerLost, RecoveryTimer
<1>6. CASE LoginRecord
  <2>1. UNCHANGED <<dir, sessions>> /\ http.pc = "kdf"
    BY <1>6 DEF LoginRecord
  <2>2. http' = HttpIdle \/ http' = [http EXCEPT !.pc = "login"]
    BY <1>6 DEF LoginRecord
  <2>3. http'.pc \in LoggingIn => http'.actor = http.actor
    BY <2>2, IdleTyped DEF HttpTyped, LoggingIn
  <2> QED
    BY <1>3, <2>1, <2>3 DEF LoggingIn
<1>7. CASE Admit
  <2>1. dir' = dir /\ sessions' = Swept(sessions) /\ http.pc = "idle"
    BY <1>7 DEF Admit
  <2>2. PICK i \in Occupied(Swept(sessions)), op \in Mutations \cap scenario.ops :
          \E id \in Targets(op), arg \in Arguments(op) :
            IF degraded \/ QueueFull THEN UNCHANGED <<http, s_queue, transition>>
            ELSE /\ http' = [HttpIdle EXCEPT !.pc = "begin", !.op = op, !.actor = sessions[i].principal,
                                         !.id = id, !.arg = arg]
                 /\ s_queue' = Append(s_queue, Request("http", "prepared", 0))
                 /\ transition' = IF TransitionOf(op) = "none" THEN transition
                                  ELSE [transition EXCEPT ![TransitionOf(op)] = "reserved"]
    BY <1>7, Zenon DEF Admit
  <2>3. http'.pc \notin LoggingIn
    BY <2>1, <2>2 DEF HttpIdle, LoggingIn
  <2> QED
    BY <1>3, <2>1, <2>3
<1>8. CASE Prepared \/ Finalise \/ Finished \/ RespondThenArm
  <2>1. dir' = dir /\ sessions' \in {sessions, RevokeAll(sessions)}
    BY <1>8 DEF Prepared, Finalise, Finished, RespondThenArm
  <2>2. \/ http' = HttpIdle
        \/ http' = [http EXCEPT !.pc = "mutate", !.life = answer.life]
        \/ http' = [http EXCEPT !.pc = "finish"]
        \/ http' = [http EXCEPT !.pc = "respond"]
    BY <1>8 DEF Prepared, Finalise, Finished, RespondThenArm
  <2>3. http'.pc \notin LoggingIn
    BY <2>2, IdleTyped DEF HttpTyped, LoggingIn
  <2> QED
    BY <1>3, <2>1, <2>3
<1> QED
  BY <1>4, <1>5, <1>6, <1>7, <1>8

\* Every step keeps AccessInv.
LEMMA NextKeepsAccess == ASSUME AuditInv, AccessInv, [PortalNext]_portalVars PROVE AccessInv'
<1>1. HttpTyped
  BY DEF AuditInv
<1>2. CASE UNCHANGED portalVars
  BY <1>2 DEF portalVars, AccessInv, SessionsCurrent
<1>3. CASE PortalNext
  BY <1>1, <1>3, SessionStepKeepsAccess, OtherStepKeepsAccess, LoginReadKeepsAccess,
     LoginCreateKeepsAccess, MutateKeepsAccess DEF PortalNext
<1> QED
  BY <1>2, <1>3

\* AccessInv is an invariant of the portal: the epochs of the accounts never go back,
\* and a principal with the epoch of its account is what a login would give now.
THEOREM AccessInvHolds == PortalSpec => []AccessInv
BY AccessInit, NextKeepsAccess, AuditInvHolds, PTL DEF PortalSpec

\* A session that passes the access check (principal_current) has exactly the level,
\* permissions and credential a new login of its account would be given, after any
\* sequence of changes to accounts, roles (argus_security_admin_delete_role) and the
\* store, and with any of them between the reading of a login and its session.
THEOREM AuthorityIsCurrent == PortalSpec => []NoStaleAuthority
<1>1. AccessInv => NoStaleAuthority
  <2> SUFFICES ASSUME AccessInv, NEW i \in Occupied(sessions), PrincipalCurrent(sessions[i].principal)
               PROVE  LET p == sessions[i].principal
                      IN  p = IF p.type = "console" THEN ConsolePrincipal(store.console, store.epoch)
                              ELSE HumanPrincipal(dir, p.id, store.epoch)
    BY DEF NoStaleAuthority
  <2> DEFINE p == sessions[i].principal
  <2>1. Current(dir, p) /\ PrincipalCurrent(p)
    BY DEF AccessInv, SessionsCurrent
  <2> HIDE DEF p
  <2>2. CASE p.type = "console"
    <3>1. p = ConsolePrincipal(p.cred, p.epoch)
      BY <2>1, <2>2 DEF Current
    <3>2. p.cred = store.console /\ p.epoch = store.epoch
      BY <2>1, <2>2 DEF PrincipalCurrent
    <3> QED
      BY <2>2, <3>1, <3>2, Zenon DEF p
  <2>3. CASE p.type # "console"
    <3>1. p.id \in DOMAIN dir.humans /\ dir.humans[p.id].rev = p.rev /\ p.epoch = store.epoch
      BY <2>1, <2>3 DEF PrincipalCurrent, Known, FindId
    <3>2. p = HumanPrincipal(dir, p.id, p.epoch)
      BY <2>1, <2>3, <3>1 DEF Current
    <3> QED
      BY <2>3, <3>1, <3>2, Zenon DEF p
  <2> QED
    BY <2>2, <2>3
<1> QED
  BY <1>1, AccessInvHolds, PTL
============================================================================
