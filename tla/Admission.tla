----------------------------- MODULE Admission -----------------------------
(***************************************************************************)
(* Who gets to prove a password, and when.  Three kinds of task share one  *)
(* worker for the slow key derivation (argus_password_verifier.c): the     *)
(* portal's task for logins (argus_auth_service.c), the broker's client    *)
(* tasks for machines (argus_machine_service.c) and the console for its    *)
(* benchmark.  The worker takes one request at a time from a queue of one; *)
(* who finds the queue full waits a bounded time.  In front of it both     *)
(* services count failures, with a clock that is read before their mutex   *)
(* is taken, and the machine service keeps a budget of derivations.        *)
(*                                                                         *)
(* Time is in units of one derivation (about two seconds); 0 stands for a  *)
(* window that has not begun.                                              *)
(***************************************************************************)
EXTENDS Naturals, Sequences, FiniteSets, FiniteSetsExt

CONSTANTS
    Addresses,        \* peers, by address
    Names,            \* login names
    BrokerTasks,      \* client tasks of the broker
    Buckets,          \* 8: failure buckets of each table
    FailureLimit,     \* 5
    FailureWindow,    \* 60 s
    CooldownInitial,  \* 30 s
    CooldownMax,      \* 300 s
    GlobalWindow,     \* 10 s: window of the derivation budget
    GlobalBurst,      \* 8
    UnprovenBurst,    \* 5
    ProvenSources,    \* 2
    ProvenTtl,        \* 600 s
    AdmissionMax,     \* 1: machine derivations at a time
    BenchmarkTime,    \* units a benchmark takes
    SubmitWait,       \* 8 s: how long a caller waits for the queue
    Budgets           \* bounds: attempts of each kind and the time they have

ASSUME AdmissionAssumption ==
    /\ \A n \in {Buckets, FailureLimit, FailureWindow, CooldownInitial, CooldownMax, GlobalWindow,
                 GlobalBurst, UnprovenBurst, ProvenSources, ProvenTtl, AdmissionMax,
                 BenchmarkTime, SubmitWait} : n \in Nat \ {0}
    /\ UnprovenBurst <= GlobalBurst /\ FailureLimit > 1 /\ CooldownInitial <= CooldownMax
    /\ {"http", "console", "none"} \cap BrokerTasks = {}
    /\ \A b \in Budgets : {b.login, b.connect, b.benchmark, b.time} \subseteq Nat

VARIABLES
    now,       \* esp_timer_get_time
    task,      \* what every task is doing
    queue,     \* s_queue of the worker
    worker,    \* the request in work and the time it still takes
    login,     \* argus_auth_service: buckets and logins in flight
    machine,   \* argus_machine_service: buckets, proven sources, budget
    left,      \* attempts left (bound), and whether the console took part
    failed,    \* when the failed logins were made (history)
    granted,   \* who got a derivation in the current budget window (history)
    known      \* addresses that ever authenticated (history)

history == <<failed, granted, known>>
vars == <<now, task, queue, worker, login, machine, left, history>>

Tasks == {"http", "console"} \cup BrokerTasks
Idle == [pc |-> "idle", peer |-> "none", name |-> "none", at |-> 0, since |-> 0]
Nobody == [task |-> "none", left |-> 0]

\* Unsigned 64-bit subtraction: an earlier time minus a later one is huge.
Elapsed(t, start, period) == t < start \/ t - start >= period

(***************************************************************************)
(* Login failures: least recently used buckets for the address and the     *)
(* name, and one for everybody.                                            *)
(***************************************************************************)
EmptyBucket == [key |-> "none", failures |-> 0, level |-> 0, window |-> 0, until |-> 0, seen |-> 0]

FirstOf(S) == Min(S)

\* bucket_for: the key's bucket, a free one, or the least recently used.
LoginBucket(buckets, key) ==
    LET own == {i \in DOMAIN buckets : buckets[i].key = key}
        free == {i \in DOMAIN buckets : buckets[i].key = "none"}
        oldest == {i \in DOMAIN buckets :
                      \A j \in DOMAIN buckets : buckets[i].seen <= buckets[j].seen}
    IN  FirstOf(IF own # {} THEN own ELSE IF free # {} THEN free ELSE oldest)

Touched(buckets, key, t) ==
    [buckets EXCEPT ![LoginBucket(buckets, key)] =
        IF @.key = key THEN [@ EXCEPT !.seen = t]
        ELSE [EmptyBucket EXCEPT !.key = key, !.seen = t]]

\* cooldown_level stays below 5.
Cooldown(level) ==
    LET doubled == CooldownInitial * <<1, 2, 4, 8, 16>>[level + 1]
    IN  IF doubled < CooldownMax THEN doubled ELSE CooldownMax

\* record_failure_bucket
FailureCounted(bucket, t) ==
    IF bucket.window = 0 \/ Elapsed(t, bucket.window, FailureWindow + 1)
    THEN [bucket EXCEPT !.window = t, !.failures = 1]
    ELSE IF bucket.failures + 1 < FailureLimit
    THEN [bucket EXCEPT !.failures = @ + 1]
    ELSE [bucket EXCEPT !.until = t + Cooldown(bucket.level), !.failures = 0, !.window = t,
                        !.level = IF @ < 4 THEN @ + 1 ELSE @]

\* preflight_locked touches both buckets; it refuses while one of the three
\* cools down.
Preflight(peer, name, t) ==
    [peers |-> Touched(login.peers, peer, t), names |-> Touched(login.names, name, t)]

CoolsDown(bucket, t) == bucket.until > t

\* A plausible slip: the count over everybody is not consulted.
ThrottledMutant(tables, peer, name, t) ==
    \/ CoolsDown(tables.peers[LoginBucket(tables.peers, peer)], t)
    \/ CoolsDown(tables.names[LoginBucket(tables.names, name)], t)

Throttled(tables, peer, name, t) ==
    \/ CoolsDown(tables.peers[LoginBucket(tables.peers, peer)], t)
    \/ CoolsDown(tables.names[LoginBucket(tables.names, name)], t)
    \/ CoolsDown(login.global, t)

\* record_result_locked
ResultRecorded(peer, name, t, success) ==
    LET tables == Preflight(peer, name, t)
        p == LoginBucket(tables.peers, peer)
        n == LoginBucket(tables.names, name)
        Reset(bucket) == [bucket EXCEPT !.failures = 0, !.window = 0]
    IN  IF success
        THEN [login EXCEPT !.peers = [tables.peers EXCEPT ![p] = Reset(@)],
                           !.names = [tables.names EXCEPT ![n] = Reset(@)]]
        ELSE [login EXCEPT !.peers = [tables.peers EXCEPT ![p] = FailureCounted(@, t)],
                           !.names = [tables.names EXCEPT ![n] = FailureCounted(@, t)],
                           !.global = FailureCounted(@, t)]

(***************************************************************************)
(* Machines: failure buckets, sources that are proven, and the budget.     *)
(***************************************************************************)
NoPeer == [key |-> "none", used |-> FALSE, failures |-> 0, window |-> 0, until |-> 0]
NoSource == [key |-> "none", used |-> FALSE, at |-> 0]

\* bucket_for: the first bucket that is the peer's or free, otherwise the one
\* with the oldest window, cleared.
MachineBucket(buckets, peer) ==
    LET fits == {i \in DOMAIN buckets : ~buckets[i].used \/ buckets[i].key = peer}
        oldest == {i \in DOMAIN buckets :
                      \A j \in DOMAIN buckets : buckets[i].window <= buckets[j].window}
    IN  FirstOf(IF fits # {} THEN fits ELSE oldest)

BucketFor(buckets, peer, t) ==
    [buckets EXCEPT ![MachineBucket(buckets, peer)] =
        IF ~@.used \/ @.key = peer THEN @ ELSE [NoPeer EXCEPT !.window = t]]

\* throttle_admit: the bucket afterwards.
Claimed(bucket, peer, t) ==
    LET owned == IF bucket.used THEN bucket
                 ELSE [bucket EXCEPT !.used = TRUE, !.key = peer, !.window = t]
    IN  IF owned.until <= t /\ Elapsed(t, owned.window, FailureWindow + 1)
        THEN [owned EXCEPT !.window = t, !.failures = 0] ELSE owned

\* record_auth_result
AuthRecorded(bucket, t, success) ==
    IF success THEN NoPeer
    ELSE IF bucket.failures + 1 >= FailureLimit
    THEN [bucket EXCEPT !.until = t + CooldownInitial, !.failures = 0]
    ELSE [bucket EXCEPT !.failures = @ + 1]

Live(source, t) == source.used /\ ~Elapsed(t, source.at, ProvenTtl)

\* A plausible slip: any entry in use that has not run out will do.
IsProvenMutant(peer, t) ==
    \E i \in DOMAIN machine.proven : Live(machine.proven[i], t)

IsProven(peer, t) ==
    \E i \in DOMAIN machine.proven : machine.proven[i].key = peer /\ Live(machine.proven[i], t)

\* mark_source_proven_locked: the source's own entry, one that has run out, or
\* the oldest.
MarkProven(peer, t) ==
    LET proven == machine.proven
        own == {i \in DOMAIN proven : proven[i].used /\ proven[i].key = peer}
        dead == {i \in DOMAIN proven : ~Live(proven[i], t)}
        oldest == {i \in DOMAIN proven : \A j \in DOMAIN proven : proven[i].at <= proven[j].at}
        slot == FirstOf(IF own # {} THEN own ELSE IF dead # {} THEN dead ELSE oldest)
    IN  [proven EXCEPT ![slot] = [key |-> peer, used |-> TRUE, at |-> t]]

WindowOver(t) == machine.window = 0 \/ Elapsed(t, machine.window, GlobalWindow)

\* kdf_global_admit: proven sources may use up the whole burst.
Allowance(peer, t) == IF IsProven(peer, t) THEN GlobalBurst ELSE UnprovenBurst
Spent(t) == IF WindowOver(t) THEN 0 ELSE machine.spent

(***************************************************************************)
(* Starting an attempt: the clock is read, then the mutex taken.           *)
(***************************************************************************)
Init ==
    /\ now = 1
    /\ task = [t \in Tasks |-> Idle]
    /\ queue = <<>> /\ worker = Nobody
    /\ login = [peers |-> [i \in 1..Buckets |-> EmptyBucket],
                names |-> [i \in 1..Buckets |-> EmptyBucket],
                global |-> [EmptyBucket EXCEPT !.key = "everybody"], inflight |-> {}]
    /\ machine = [buckets |-> [i \in 1..Buckets |-> NoPeer],
                  proven |-> [i \in 1..ProvenSources |-> NoSource],
                  window |-> 0, spent |-> 0, admitted |-> 0]
    /\ left \in {[login |-> b.login, connect |-> b.connect, benchmark |-> b.benchmark,
                  time |-> b.time, console |-> FALSE] : b \in Budgets}
    /\ failed = <<>> /\ granted = <<>> /\ known = {}

\* The HTTP server serves one request at a time, so there is one login at a time.
BeginLogin ==
    /\ task["http"].pc = "idle" /\ left.login > 0
    /\ \E peer \in Addresses, name \in Names :
         task' = [task EXCEPT !["http"] = [Idle EXCEPT !.pc = "stamped", !.peer = peer,
                                                       !.name = name, !.at = now]]
    /\ left' = [left EXCEPT !.login = @ - 1]
    /\ UNCHANGED <<now, queue, worker, login, machine, history>>

BeginConnect(t) ==
    /\ task[t].pc = "idle" /\ left.connect > 0
    /\ \E peer \in Addresses :
         task' = [task EXCEPT ![t] = [Idle EXCEPT !.pc = "stamped", !.peer = peer, !.at = now]]
    /\ left' = [left EXCEPT !.connect = @ - 1]
    /\ UNCHANGED <<now, queue, worker, login, machine, history>>

\* argus_auth_service_authenticate up to the verification.  Its bound on
\* s_kdf_admitted and a reservation that fails are left out: with one login at
\* a time neither refuses anything.
AdmitLogin ==
    LET t == task["http"]
        tables == Preflight(t.peer, t.name, t.at)
        busy == \E f \in login.inflight : f.peer = t.peer \/ f.name = t.name
    IN  /\ t.pc = "stamped"
        /\ IF Throttled(tables, t.peer, t.name, t.at) \/ busy
           THEN /\ task' = [task EXCEPT !["http"] = Idle]
                /\ login' = [login EXCEPT !.peers = tables.peers, !.names = tables.names]
           ELSE /\ task' = [task EXCEPT !["http"].pc = "admitted"]
                /\ login' = [login EXCEPT !.peers = tables.peers, !.names = tables.names,
                                          !.inflight = @ \cup {[peer |-> t.peer, name |-> t.name]}]
        /\ UNCHANGED <<now, queue, worker, machine, left, history>>

\* A plausible slip: the gate is left open.
GateOpenMutant == TRUE

GateOpen == machine.admitted < AdmissionMax

\* argus_machine_service_authenticate up to the verification: the failures of
\* the peer, the budget, then the gate.  The budget is spent before the gate.
AdmitConnect(t) ==
    LET peer == task[t].peer
        at == task[t].at
        buckets == BucketFor(machine.buckets, peer, at)
        b == MachineBucket(buckets, peer)
        claimed == [buckets EXCEPT ![b] = Claimed(@, peer, at)]
        opened == [machine EXCEPT !.buckets = claimed,
                                  !.window = IF WindowOver(at) THEN at ELSE @,
                                  !.spent = Spent(at)]
        earlier == IF WindowOver(at) THEN <<>> ELSE granted
    IN  /\ t \in BrokerTasks /\ task[t].pc = "stamped"
        /\ \/ /\ claimed[b].until > at
              /\ machine' = [machine EXCEPT !.buckets = claimed]
              /\ task' = [task EXCEPT ![t] = Idle]
              /\ UNCHANGED granted
           \/ /\ claimed[b].until <= at /\ Spent(at) >= Allowance(peer, at)
              /\ machine' = opened
              /\ task' = [task EXCEPT ![t] = Idle]
              /\ granted' = earlier
           \/ /\ claimed[b].until <= at /\ Spent(at) < Allowance(peer, at)
              /\ granted' = Append(earlier, peer)
              /\ machine' = [opened EXCEPT !.spent = @ + 1, !.admitted = IF GateOpen THEN @ + 1 ELSE @]
              /\ task' = [task EXCEPT ![t] = IF GateOpen THEN [@ EXCEPT !.pc = "admitted"] ELSE Idle]
        /\ UNCHANGED <<now, queue, worker, login, left, failed, known>>

(***************************************************************************)
(* The worker (submit, kdf_worker).                                        *)
(***************************************************************************)
BeginBenchmark ==
    /\ task["console"].pc = "idle" /\ left.benchmark > 0
    /\ task' = [task EXCEPT !["console"].pc = "admitted"]
    /\ left' = [left EXCEPT !.benchmark = @ - 1, !.console = TRUE]
    /\ UNCHANGED <<now, queue, worker, login, machine, history>>

\* xQueueSend without waiting, or the wait begins.
Submit(t) ==
    /\ task[t].pc = "admitted"
    /\ IF queue = <<>>
       THEN queue' = <<t>> /\ task' = [task EXCEPT ![t].pc = "queued"]
       ELSE task' = [task EXCEPT ![t].pc = "waiting", ![t].since = now] /\ UNCHANGED queue
    /\ UNCHANGED <<now, worker, login, machine, left, history>>

SlotFrees(t) ==
    /\ task[t].pc = "waiting" /\ queue = <<>>
    /\ queue' = <<t>> /\ task' = [task EXCEPT ![t].pc = "queued"]
    /\ UNCHANGED <<now, worker, login, machine, left, history>>

GivesUp(t) ==
    /\ task[t].pc = "waiting" /\ now - task[t].since >= SubmitWait
    /\ task' = [task EXCEPT ![t].pc = "timeout"]
    /\ UNCHANGED <<now, queue, worker, login, machine, left, history>>

Take ==
    /\ worker = Nobody /\ queue # <<>>
    /\ worker' = [task |-> Head(queue),
                  left |-> IF Head(queue) = "console" THEN BenchmarkTime ELSE 1]
    /\ queue' = <<>>
    /\ UNCHANGED <<now, task, login, machine, left, history>>

Derived ==
    /\ worker # Nobody /\ worker.left = 0
    /\ task' = [task EXCEPT ![worker.task].pc = "answered"]
    /\ worker' = Nobody
    /\ UNCHANGED <<now, queue, login, machine, left, history>>

\* Time passes; the worker, its queue and an expired wait do not lag behind.
Urgent ==
    \/ worker = Nobody /\ queue # <<>>
    \/ worker # Nobody /\ worker.left = 0
    \/ \E t \in Tasks : task[t].pc = "waiting" /\ (queue = <<>> \/ now - task[t].since >= SubmitWait)

Tick ==
    /\ now < left.time /\ ~Urgent
    /\ now' = now + 1
    /\ worker' = IF worker = Nobody THEN worker ELSE [worker EXCEPT !.left = @ - 1]
    /\ UNCHANGED <<task, queue, login, machine, left, history>>

(***************************************************************************)
(* After the verification.                                                 *)
(***************************************************************************)
\* The password was right, wrong, or the directory could not be read.
FinishLogin ==
    LET t == task["http"]
        released == login.inflight \ {[peer |-> t.peer, name |-> t.name]}
    IN  /\ t.pc \in {"answered", "timeout"}
        /\ \/ /\ t.pc = "answered"
              /\ \E success \in BOOLEAN :
                   /\ login' = [ResultRecorded(t.peer, t.name, t.at, success) EXCEPT
                                    !.inflight = released]
                   /\ failed' = IF success THEN failed ELSE Append(failed, t.at)
           \/ /\ login' = [login EXCEPT !.inflight = released]
              /\ UNCHANGED failed
        /\ task' = [task EXCEPT !["http"] = Idle]
        /\ UNCHANGED <<now, queue, worker, machine, left, granted, known>>

FinishConnect(t) ==
    LET peer == task[t].peer
        at == task[t].at
        buckets == BucketFor(machine.buckets, peer, at)
        b == MachineBucket(buckets, peer)
    IN  /\ t \in BrokerTasks /\ task[t].pc \in {"answered", "timeout"}
        /\ \E success \in BOOLEAN :
             /\ success => task[t].pc = "answered"
             /\ machine' = [machine EXCEPT !.admitted = @ - 1,
                                !.buckets = [buckets EXCEPT ![b] = AuthRecorded(@, at, success)],
                                !.proven = IF success THEN MarkProven(peer, at) ELSE @]
             /\ known' = IF success THEN known \cup {peer} ELSE known
        /\ task' = [task EXCEPT ![t] = Idle]
        /\ UNCHANGED <<now, queue, worker, login, left, failed, granted>>

FinishBenchmark ==
    /\ task["console"].pc \in {"answered", "timeout"}
    /\ task' = [task EXCEPT !["console"] = Idle]
    /\ UNCHANGED <<now, queue, worker, login, machine, left, history>>

Next ==
    \/ BeginLogin \/ AdmitLogin \/ FinishLogin
    \/ \E t \in BrokerTasks : BeginConnect(t) \/ AdmitConnect(t) \/ FinishConnect(t)
    \/ BeginBenchmark \/ FinishBenchmark
    \/ \E t \in Tasks : Submit(t) \/ SlotFrees(t) \/ GivesUp(t)
    \/ Take \/ Derived \/ Tick

Spec == Init /\ [][Next]_vars

(***************************************************************************)
(* Properties.                                                             *)
(***************************************************************************)
\* However many machines connect, the portal's login is not told that the
\* worker is busy: one machine at a time is let through, so the queue has a
\* place for the login.  Only the console's benchmark can keep it waiting for
\* too long (ARGUS_MACHINE_AUTH_KDF_ADMISSION_MAX).
LoginGetsItsTurn == task["http"].pc = "timeout" => left.console

\* A request lives on its caller's stack: as long as the worker or the queue
\* holds it, its caller is waiting for the answer (submit).
RequestStaysValid ==
    /\ \A i \in DOMAIN queue : task[queue[i]].pc = "queued"
    /\ worker # Nobody => task[worker.task].pc = "queued"

\* Failed logins cannot follow each other for long, whatever names and addresses
\* they come from: two counts just short of the limit and the failure that ends
\* the second may fall into one window, but of one more, made within one window,
\* two have a cooldown between them (record_failure_bucket).
FailedLoginsCoolDown ==
    LET run == 2 * FailureLimit
    IN  \A i \in DOMAIN failed :
            i + run - 1 \in DOMAIN failed /\ failed[i + run - 1] - failed[i] <= FailureWindow =>
                \E j \in i..(i + run - 2) : failed[j + 1] - failed[j] >= CooldownInitial

\* Addresses that never authenticated cannot take the derivations kept for
\* those that did, whatever the order in which they come
\* (ARGUS_MACHINE_AUTH_KDF_UNPROVEN_BURST).
ReservedShareKept ==
    Cardinality({i \in DOMAIN granted : granted[i] \notin known}) <= UnprovenBurst

(***************************************************************************)
(* A statement of the documents that the code does not meet.               *)
(***************************************************************************)
\* Five failures within 60 seconds start a cooldown of 30 seconds: of FailureLimit
\* failures within one window and the next one, two have a cooldown between them.
\* record_failure_bucket forgets a count short of the limit when its window runs
\* out, so a run of failures across the end of a window is counted in two parts.
LimitStartsCooldown ==
    \A i \in DOMAIN failed :
        LET last == i + FailureLimit - 1
        IN  last + 1 \in DOMAIN failed /\ failed[last] - failed[i] <= FailureWindow =>
                \E j \in i..last : failed[j + 1] - failed[j] >= CooldownInitial

=============================================================================
