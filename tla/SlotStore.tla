----------------------------- MODULE SlotStore -----------------------------
(***************************************************************************)
(* The four stores that keep a payload in two slots and a selector, so     *)
(* that power may be lost at any moment: the commissioning configuration   *)
(* (argus_nvs_config.c), the security manifest (argus_security_store.c),   *)
(* the directory of people (argus_security_directory.c) and the directory  *)
(* of machines (argus_machine_directory.c).  They share a protocol and     *)
(* differ in how they choose the slot to write, what a boot makes of what  *)
(* it finds, and who may write.                                            *)
(*                                                                         *)
(* kind says which store a behaviour is about.  A payload has two fields   *)
(* that different clients change, a and b, and prov, the identity lock of  *)
(* the configuration.  Everything between two writes to flash is one step. *)
(***************************************************************************)
EXTENDS Integers, Sequences, FiniteSets

CONSTANTS
    Kinds,        \* the stores to consider
    Clients,      \* who commits: see FieldsOf
    Values,       \* what a field may be set to, besides 0
    MaxGen,       \* bound on a slot's generation, 2^32 - 1 in the code
    QueueLength,  \* depth of the writer's queue
    MaxFaults     \* flash writes that may go wrong in a behaviour

ASSUME SlotStoreAssumption ==
    /\ Kinds \subseteq {"config", "security", "people", "machines"}
    /\ Clients \subseteq {"portal", "console", "recovery"}
    /\ Values \subseteq Nat \ {0}
    /\ MaxGen \in Nat \ {0}
    /\ QueueLength \in Nat \ {0}
    /\ MaxFaults \in Nat

Managed == {"security", "people", "machines"}   \* written by a writer task
Actors == Clients \cup {"writer", "net", "boot"}
Field == {"a", "b"}
NoSelector == 2

Payloads == [a : Values \cup {0}, b : Values \cup {0}, prov : BOOLEAN]
Default == [a |-> 0, b |-> 0, prov |-> FALSE]

VARIABLES
    kind,      \* which store
    flash,     \* both slots, the selector, prov_hwm and rst_pend
    core,      \* the copy in RAM: s_prod_core, s_writer_core or s_snapshot
    op,        \* what each actor is doing to the flash
    req,       \* what each client asks the writer for
    queue,     \* s_write_queue or s_queue
    closed,    \* the portal is shut down for a factory reset
    doubt,     \* payloads a boot may find while commits are undecided (history)
    acked,     \* what was acknowledged: each field, the lock, a boot (history)
    faults     \* flash writes that went wrong so far

history == <<doubt, acked>>
vars == <<kind, flash, core, op, req, queue, closed, history, faults>>

Slot(state, schema, gen, payload) ==
    [state |-> state, schema |-> schema, gen |-> gen, payload |-> payload]
Missing == Slot("missing", 3, 0, Default)
Damaged == Slot("damaged", 3, 0, Default)

\* A record of the first schema has no lock: it is read as unlocked.
Migrated(s) == IF s.schema = 1 THEN [s EXCEPT !.schema = 3, !.payload.prov = FALSE]
                               ELSE [s EXCEPT !.schema = 3]

\* is_slot_valid: the marker, a generation and the checksum.
IsSlotValid(s) == s.state = "written" /\ s.gen # 0

Idle == [pc |-> "idle", payload |-> Default, field |-> "none", target |-> 0, gen |-> 0,
         client |-> "none", err |-> FALSE]
NoRequest == [state |-> "none", payload |-> Default, expected |-> 0, field |-> "none"]
Down == [phase |-> "down", has |-> FALSE, payload |-> Default, gen |-> 0, slot |-> 0]

---------------------------------------------------------------------------
(* What a boot makes of the flash.                                         *)

Found(slot, s, repair) ==
    [ok |-> TRUE, has |-> TRUE, slot |-> slot, gen |-> s.gen,
     payload |-> s.payload, repair |-> repair]
NothingFound == [ok |-> TRUE, has |-> FALSE, slot |-> 0, gen |-> 0,
                 payload |-> Default, repair |-> FALSE]
Refused == [NothingFound EXCEPT !.ok = FALSE]

\* argus_nvs_config_gen_is_newer: a comparison of serial numbers in which 0 is
\* the oldest.  Short of the wrap it is the order of the numbers.
GenIsNewer(x, y) == x > y

\* argus_nvs_core_init: the selected slot, or the newer one, or the only one;
\* the lock is the sum of all that is known of it; a selected slot without the
\* lock gives way to one that has it if the high-water mark is set.
NvsCoreInit(f) ==
    LET s == [i \in 0..1 |-> Migrated(f.slot[i])]
        v == {i \in 0..1 : IsSlotValid(s[i])}
        lock == f.hwm \/ \E i \in v : s[i].payload.prov
        chosen == IF v # {0, 1} THEN CHOOSE i \in v : TRUE
                  ELSE IF f.selector \in v THEN f.selector
                  ELSE IF GenIsNewer(s[1].gen, s[0].gen) THEN 1 ELSE 0
        switch == /\ v = {0, 1} /\ f.hwm
                  /\ ~s[chosen].payload.prov /\ s[1 - chosen].payload.prov
        active == IF switch THEN 1 - chosen ELSE chosen
    IN  IF v = {} THEN NothingFound
        ELSE Found(active, [s[active] EXCEPT !.payload.prov = @ \/ lock], switch)

\* argus_security_store_core_init: a missing selector is corruption, a bad
\* selected slot is replaced by the other one.
SecurityCoreInit(f) ==
    LET v == {i \in 0..1 : IsSlotValid(f.slot[i])}
    IN  IF v = {}
        THEN IF \A i \in 0..1 : f.slot[i].state = "missing" THEN NothingFound ELSE Refused
        ELSE IF f.selector = NoSelector THEN Refused
        ELSE LET chosen == IF f.selector \in v THEN f.selector ELSE 1 - f.selector
             IN  Found(chosen, f.slot[chosen], FALSE)

\* argus_security_directory_init: only the selected slot will do.
SecurityDirectoryInit(f) ==
    LET v == {i \in 0..1 : IsSlotValid(f.slot[i])}
    IN  IF \A i \in 0..1 : f.slot[i].state = "missing" THEN NothingFound
        ELSE IF f.selector \in v THEN Found(f.selector, f.slot[f.selector], FALSE)
        ELSE Refused

\* argus_machine_directory_select_for_test: the selected slot, or the newer
\* one, and the selector is repaired.
MachineDirectorySelect(f) ==
    LET v == {i \in 0..1 : IsSlotValid(f.slot[i])}
        chosen == IF f.selector \in v THEN f.selector
                  ELSE IF v # {0, 1} THEN CHOOSE i \in v : TRUE
                  ELSE IF f.slot[1].gen > f.slot[0].gen THEN 1 ELSE 0
    IN  IF \A i \in 0..1 : f.slot[i].state = "missing" THEN NothingFound
        ELSE IF v = {} THEN Refused
        ELSE Found(chosen, f.slot[chosen], f.selector \notin v)

BootReads(f) ==
    CASE kind = "config"   -> NvsCoreInit(f)
      [] kind = "security" -> SecurityCoreInit(f)
      [] kind = "people"   -> SecurityDirectoryInit(f)
      [] kind = "machines" -> MachineDirectorySelect(f)

\* The payload the flash stands for.  A marked reset counts as done: the boot
\* completes it before it reads a slot.
Content(p) == [p EXCEPT !.prov = FALSE]
Durable == IF flash.pending THEN Default ELSE Content(BootReads(flash).payload)

Empty == [slot |-> [i \in 0..1 |-> Missing], selector |-> NoSelector,
          hwm |-> FALSE, pending |-> FALSE]

\* A configuration that firmware of an older schema has left.
OldConfiguration(schema, v) ==
    [Empty EXCEPT !.selector = 0, !.hwm = schema = 2,
                  !.slot[0] = Slot("written", schema, 1,
                                   [a |-> v, b |-> 0, prov |-> schema = 2])]

\* Blank flash, or one such configuration.
Shipped ==
    {Empty} \cup
    (IF kind = "config"
     THEN {OldConfiguration(schema, v) : schema \in {1, 2}, v \in Values}
     ELSE {})

Init ==
    /\ kind \in Kinds
    /\ flash \in Shipped
    /\ core = Down /\ op = [x \in Actors |-> Idle]
    /\ req = [c \in Clients |-> NoRequest] /\ queue = <<>>
    /\ closed = FALSE /\ doubt = {} /\ faults = 0
    /\ acked = [a |-> Durable.a, b |-> Durable.b, lock |-> flash.hwm, booted |-> FALSE]

---------------------------------------------------------------------------
(* A commit, write by write.                                               *)

\* One write to flash: done, or failed without effect; a blob may also come
\* out damaged, with or without an error.
WriteOutcomes(old, new, bad) ==
    {[v |-> new, ok |-> TRUE, fault |-> 0]} \cup
    (IF faults < MaxFaults
     THEN [v : {old} \cup bad, ok : {FALSE}, fault : {1}] \cup
          [v : bad, ok : {TRUE}, fault : {1}]
     ELSE {})

\* Mutant: the slot in use is written over.
TargetMutant == IF core.gen = 0 THEN 0 ELSE core.slot

\* The slot to write.  The configuration asks the selector, the others their
\* own copy in RAM.
Target == IF kind = "config" /\ flash.selector # NoSelector THEN 1 - flash.selector
          ELSE IF kind # "config" /\ core.gen = 0 THEN 0
          ELSE 1 - core.slot

\* Every commit has the next generation, up to the bound.
NextGen == core.gen + 1

Commit(p, field, client) ==
    [pc |-> "write", payload |-> p, field |-> field, target |-> Target,
     gen |-> NextGen, client |-> client, err |-> FALSE]

Writing == {x \in Actors : op[x].pc # "idle"}

\* While commits are in flight nobody knows which payload a boot would find:
\* the one before or any of those being written.
Doubting(p) == doubt \cup {Durable, Content(p)}
Decided(x) == IF Writing = {x} THEN {} ELSE doubt

\* The commit of x ends with an error: the caller is told, nothing else changes.
Fail(x) ==
    /\ op' = [op EXCEPT ![x] = Idle]
    /\ req' = IF op[x].client \in Clients
              THEN [req EXCEPT ![op[x].client] = NoRequest] ELSE req
    /\ core' = IF x = "boot" THEN Down ELSE core
    /\ UNCHANGED history

\* The commit of x ends well: the copy in RAM follows the slot, and the caller
\* learns that the payload is durable.
Succeed(x) ==
    LET o == op[x]
        s == flash.slot[o.target]
    IN  /\ core' = [phase |-> "up", has |-> TRUE, payload |-> s.payload,
                    gen |-> o.gen, slot |-> o.target]
        /\ op' = [op EXCEPT ![x] = Idle]
        /\ req' = IF o.client \in Clients
                  THEN [req EXCEPT ![o.client] = NoRequest] ELSE req
        /\ doubt' = Decided(x)
        /\ acked' = [acked EXCEPT !.a = IF o.field = "a" THEN o.payload.a ELSE @,
                                  !.b = IF o.field = "b" THEN o.payload.b ELSE @,
                                  !.lock = @ \/ o.payload.prov, !.booted = TRUE]

WriteSlot(x) ==
    LET o == op[x]
        new == Slot("written", 3, o.gen, o.payload)
    IN  /\ o.pc = "write"
        /\ \E w \in WriteOutcomes(flash.slot[o.target], new, {Damaged}) :
             /\ flash' = [flash EXCEPT !.slot[o.target] = w.v]
             /\ faults' = faults + w.fault
             /\ IF w.ok THEN /\ op' = [op EXCEPT ![x].pc = "readback"]
                             /\ UNCHANGED <<core, req, history>>
                        ELSE Fail(x)
        /\ UNCHANGED <<kind, queue, closed>>

\* Mutant: what was written is not read back.
ReadBackMutant(x) ==
    /\ op[x].pc = "readback"
    /\ op' = [op EXCEPT ![x].pc = IF kind = "config" /\ op[x].payload.prov
                                  THEN "hwm" ELSE "selector"]
    /\ UNCHANGED <<kind, flash, core, req, queue, closed, history, faults>>

ReadBack(x) ==
    LET o == op[x]
        s == flash.slot[o.target]
    IN  /\ o.pc = "readback"
        /\ IF IsSlotValid(s) /\ s.payload = o.payload
           THEN /\ op' = [op EXCEPT ![x].pc = IF kind = "config" /\ o.payload.prov
                                              THEN "hwm" ELSE "selector"]
                /\ UNCHANGED <<core, req, history>>
           ELSE Fail(x)
        /\ UNCHANGED <<kind, flash, queue, closed, faults>>

\* The high-water mark of the identity lock, before the selector.
WriteHwm(x) ==
    /\ op[x].pc = "hwm"
    /\ \E w \in WriteOutcomes(flash.hwm, TRUE, {}) :
         /\ flash' = [flash EXCEPT !.hwm = w.v]
         /\ faults' = faults + w.fault
         /\ IF w.ok THEN /\ op' = [op EXCEPT ![x].pc = "selector"]
                         /\ UNCHANGED <<core, req, history>>
                    ELSE Fail(x)
    /\ UNCHANGED <<kind, queue, closed>>

WriteSelector(x) ==
    /\ op[x].pc = "selector"
    /\ \E w \in WriteOutcomes(flash.selector, op[x].target, {}) :
         /\ flash' = [flash EXCEPT !.selector = w.v]
         /\ faults' = faults + w.fault
         /\ IF ~w.ok THEN Fail(x)
            ELSE IF kind # "config" THEN Succeed(x)
            ELSE /\ op' = [op EXCEPT ![x].pc = "final"]
                 /\ UNCHANGED <<core, req, history>>
    /\ UNCHANGED <<kind, queue, closed>>

\* The configuration reads the slot once more before it uses it.
FinalRead(x) ==
    /\ op[x].pc = "final"
    /\ IF IsSlotValid(flash.slot[op[x].target]) THEN Succeed(x) ELSE Fail(x)
    /\ UNCHANGED <<kind, flash, queue, closed, faults>>

CommitStep(x) == \/ WriteSlot(x) \/ ReadBack(x) \/ WriteHwm(x)
                 \/ WriteSelector(x) \/ FinalRead(x)

---------------------------------------------------------------------------
(* The configuration: its clients run the commit in their own task, and no *)
(* lock is held.                                                           *)

\* Mutant: saving the network forgets the lock.
OverlayMutant(field, v) ==
    CASE field = "a" -> [core.payload EXCEPT !.a = v, !.prov = TRUE]
      [] field = "b" -> [core.payload EXCEPT !.b = v, !.prov = FALSE]

\* apply_identity and apply_wifi: the payload to commit, from what is in use.
\* An identity is accepted once.
Overlay(field, v) ==
    CASE field = "a" -> [core.payload EXCEPT !.a = v, !.prov = TRUE]
      [] field = "b" -> [core.payload EXCEPT !.b = v]

\* Command A of the console builds its payload from nothing: it has the
\* identity in use, the network, and no lock.
ConsolePayload(v) == [a |-> core.payload.a, b |-> v, prov |-> FALSE]

\* config_save_handler or the console, up to the commit.
Save(c, field, v) ==
    LET p == IF c = "console" THEN ConsolePayload(v) ELSE Overlay(field, v)
    IN  /\ kind = "config" /\ core.phase = "up" /\ op[c].pc = "idle"
        /\ IF c = "console" THEN field = "b" ELSE ~closed
        /\ field = "a" => ~core.payload.prov /\ v # 0
        /\ NextGen <= MaxGen
        /\ op' = [op EXCEPT ![c] = Commit(p, field, c)]
        /\ doubt' = Doubting(p)
        /\ UNCHANGED <<kind, flash, core, req, queue, closed, acked, faults>>

\* argus_nvs_config_factory_reset, in the network task once the portal is
\* closed: first of all the marker.
ResetMark ==
    /\ kind = "config" /\ core.phase = "up"
    /\ op["portal"].pc = "idle" /\ op["net"].pc = "idle" /\ ~closed
    /\ closed' = TRUE
    /\ doubt' = Doubting(Default)
    /\ op' = [op EXCEPT !["net"] = [Idle EXCEPT !.pc = "mark"]]
    /\ UNCHANGED <<kind, flash, core, req, queue, acked, faults>>

WriteMark ==
    /\ op["net"].pc = "mark"
    /\ \E w \in WriteOutcomes(flash.pending, TRUE, {}) :
         /\ flash' = [flash EXCEPT !.pending = w.v]
         /\ faults' = faults + w.fault
         /\ op' = [op EXCEPT !["net"] = IF w.ok THEN [@ EXCEPT !.pc = "erase0"] ELSE Idle]
    /\ UNCHANGED <<kind, core, req, queue, closed, history>>

\* prod_erase_all, key by key, by a reset or by the boot that completes one.
\* Both namespaces are tried; the first error is kept.
EraseOrder == <<"erase0", "erase1", "eraseSelector", "eraseHwm", "clear">>
Erased(pc) == CASE pc = "erase0"        -> [flash EXCEPT !.slot[0] = Missing]
                [] pc = "erase1"        -> [flash EXCEPT !.slot[1] = Missing]
                [] pc = "eraseSelector" -> [flash EXCEPT !.selector = NoSelector]
                [] pc = "eraseHwm"      -> [flash EXCEPT !.hwm = FALSE]

Erase(x) ==
    \E i \in 1..4 :
      /\ op[x].pc = EraseOrder[i]
      /\ \/ /\ flash' = Erased(EraseOrder[i])
            /\ op' = [op EXCEPT ![x].pc = EraseOrder[i + 1]]
            /\ UNCHANGED faults
         \/ /\ faults < MaxFaults /\ faults' = faults + 1
            /\ op' = [op EXCEPT ![x].pc = IF i < 4 THEN "eraseHwm" ELSE "clear", ![x].err = TRUE]
            /\ flash' = flash
      /\ UNCHANGED <<kind, core, req, queue, closed, history>>

\* With an error the marker stays.  Otherwise it is cleared: should that fail,
\* the reset goes on and the next boot erases again; a boot gives up.
ClearMark(x) ==
    /\ op[x].pc = "clear"
    /\ op' = [op EXCEPT ![x] = Idle]
    /\ \/ /\ op[x].err
          /\ core' = IF x = "boot" THEN Down ELSE core
          /\ UNCHANGED <<flash, faults, history>>
       \/ /\ ~op[x].err
          /\ \E w \in WriteOutcomes(TRUE, FALSE, {}) :
               /\ flash' = [flash EXCEPT !.pending = w.v]
               /\ faults' = faults + w.fault
          /\ core' = IF x = "boot" THEN Down
                     ELSE LET r == NvsCoreInit(flash)
                          IN  [phase |-> "up", has |-> r.has, payload |-> r.payload,
                               gen |-> r.gen, slot |-> r.slot]
          /\ doubt' = Decided(x)
          /\ acked' = [acked EXCEPT !.a = 0, !.b = 0, !.lock = FALSE]
      /\ UNCHANGED <<kind, req, queue, closed>>

---------------------------------------------------------------------------
(* The other three: clients read a snapshot with its generation and ask    *)
(* the writer task to replace it.                                          *)

\* The directories hold their mutex through a commit, the manifest does not.
ReadSnapshot(c, field, v) ==
    /\ kind \in Managed /\ core.phase = "up" /\ req[c].state = "none"
    /\ kind # "security" => op["writer"].pc = "idle"
    /\ NextGen <= MaxGen
    /\ req' = [req EXCEPT ![c] = [state |-> "read", expected |-> core.gen, field |-> field,
                                  payload |-> [core.payload EXCEPT ![field] = v]]]
    /\ UNCHANGED <<kind, flash, core, op, queue, closed, history, faults>>

\* The request goes to the writer task, and the client waits.
Enqueue(c) ==
    /\ req[c].state = "read" /\ Len(queue) < QueueLength
    /\ queue' = Append(queue, c)
    /\ req' = [req EXCEPT ![c].state = "queued"]
    /\ UNCHANGED <<kind, flash, core, op, closed, history, faults>>

\* The queue is full for a second: the client gives up.
GiveUp(c) ==
    /\ req[c].state = "read" /\ Len(queue) = QueueLength
    /\ req' = [req EXCEPT ![c] = NoRequest]
    /\ UNCHANGED <<kind, flash, core, op, queue, closed, history, faults>>

\* Mutant: whatever was read, the request is carried out.
TakeMutant ==
    /\ queue # <<>> /\ op["writer"].pc = "idle"
    /\ queue' = Tail(queue)
    /\ LET r == req[Head(queue)]
       IN  /\ op' = [op EXCEPT !["writer"] = Commit(r.payload, r.field, Head(queue))]
           /\ doubt' = Doubting(r.payload)
    /\ UNCHANGED <<kind, flash, core, req, closed, acked, faults>>

\* writer_task: a request made from another generation is refused.
Take ==
    /\ queue # <<>> /\ op["writer"].pc = "idle"
    /\ queue' = Tail(queue)
    /\ LET r == req[Head(queue)]
       IN  IF r.expected # core.gen
           THEN /\ req' = [req EXCEPT ![Head(queue)] = NoRequest]
                /\ UNCHANGED <<op, doubt>>
           ELSE /\ op' = [op EXCEPT !["writer"] = Commit(r.payload, r.field, Head(queue))]
                /\ doubt' = Doubting(r.payload)
                /\ UNCHANGED req
    /\ UNCHANGED <<kind, flash, core, closed, acked, faults>>

---------------------------------------------------------------------------
(* Power.                                                                  *)

Up(r) == [phase |-> "up", has |-> r.has, payload |-> r.payload, gen |-> r.gen, slot |-> r.slot]

\* A boot that has read the flash knows what it has.
Settled ==
    /\ doubt' = {}
    /\ acked' = IF doubt = {} THEN [acked EXCEPT !.booted = TRUE]
                ELSE [acked EXCEPT !.a = Durable.a, !.b = Durable.b, !.booted = TRUE]

\* argus_nvs_core_recovery_check: a reset that was cut short is completed
\* before a slot is read.
CompleteReset ==
    /\ flash.pending
    /\ op' = [op EXCEPT !["boot"] = [Idle EXCEPT !.pc = "erase0"]]
    /\ UNCHANGED <<core, flash, history, faults>>

\* A manifest or directory that does not exist yet is created.
CreateStore ==
    /\ kind \in Managed /\ BootReads(flash).ok /\ ~BootReads(flash).has
    /\ op' = [op EXCEPT !["boot"] = Commit(Default, "none", "none")]
    /\ doubt' = Doubting(Default)
    /\ UNCHANGED <<core, flash, acked, faults>>

\* The selector is repaired where the boot did not follow it; the machine
\* directory insists on that.
OpenStore ==
    LET r == BootReads(flash)
    IN  /\ ~flash.pending /\ r.ok /\ (r.has \/ kind = "config")
        /\ \E w \in IF r.repair THEN WriteOutcomes(flash.selector, r.slot, {})
                    ELSE {[v |-> flash.selector, ok |-> TRUE, fault |-> 0]} :
             /\ flash' = [flash EXCEPT !.selector = w.v]
             /\ faults' = faults + w.fault
             /\ IF w.ok \/ kind = "config" THEN core' = Up(r) /\ Settled
                ELSE UNCHANGED <<core, history>>
        /\ UNCHANGED op

Boot ==
    /\ core.phase = "down" /\ Writing = {}
    /\ CompleteReset \/ CreateStore \/ OpenStore
    /\ UNCHANGED <<kind, req, queue, closed>>

\* Power is lost, or the controller restarts, between any two writes.
Crash ==
    /\ core.phase # "down" \/ Writing # {}
    /\ core' = Down /\ op' = [x \in Actors |-> Idle]
    /\ req' = [c \in Clients |-> NoRequest] /\ queue' = <<>> /\ closed' = FALSE
    /\ UNCHANGED <<kind, flash, history, faults>>

Next ==
    \/ \E x \in Actors : CommitStep(x) \/ Erase(x) \/ ClearMark(x)
    \/ \E c \in Clients \cap {"portal", "console"}, f \in Field, v \in Values \cup {0} :
         Save(c, f, v)
    \/ ResetMark \/ WriteMark
    \/ \E c \in Clients, f \in Field, v \in Values : ReadSnapshot(c, f, v)
    \/ \E c \in Clients : Enqueue(c) \/ GiveUp(c)
    \/ Take \/ Boot \/ Crash

Spec == Init /\ [][Next]_vars

---------------------------------------------------------------------------
TypeOK ==
    /\ kind \in Kinds
    /\ flash.selector \in 0..2 /\ flash.hwm \in BOOLEAN /\ flash.pending \in BOOLEAN
    /\ \A i \in 0..1 : flash.slot[i].payload \in Payloads
    /\ core.payload \in Payloads /\ core.gen \in 0..MaxGen
    /\ doubt \subseteq Payloads /\ faults \in 0..MaxFaults

\* Whatever is lost and when, the payload a boot will find is the last one or
\* one that was being written: the stores are atomic registers.
Register == INSTANCE AtomicRegister WITH value <- Durable, proposals <- doubt
ImplementsRegister == Register!Spec

\* What a caller was told is durable is what a boot finds and what the
\* controller works with, field by field: no commit of another client, no
\* failed commit and no crash undoes an acknowledged one (submit_payload,
\* config_save_handler).
NoLostUpdate ==
    doubt = {} =>
      \A f \in Field : /\ Durable[f] = acked[f]
                       /\ core.phase = "up" => core.payload[f] = acked[f]

\* An identity whose commit was acknowledged stays locked until a factory
\* reset, across crashes and failed commits, whichever slot a boot has to work
\* with (argus_nvs_core_init, the merge with prov_hwm).
IdentityStaysLocked ==
    kind = "config" /\ acked.lock /\ ~flash.pending /\ op["net"].pc = "idle" =>
      /\ BootReads(flash).payload.prov
      /\ core.phase = "up" => core.payload.prov

\* A store that has worked once will work again after any loss of power.
BootsAgain == acked.booted => BootReads(flash).ok

\* nvs_config.c, on a commit: "After selector: New slot active. HWM set. Fully
\* committed."  So the settings the console was told are committed are the ones
\* a boot finds.
AppliedSettingsSurvive == doubt = {} => Durable.b = acked.b

\* Phase 4B.2 walkthrough: "Identity data and its provisioned/locked state are
\* committed atomically in one dual-slot write/verify/selector sequence".  So a
\* unit whose identity is locked uses an identity somebody has given it.
IdentityAndLockAtomic ==
    kind = "config" /\ core.phase = "up" /\ core.payload.prov => core.payload.a # 0
=============================================================================
