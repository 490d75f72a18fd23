-------------------------- MODULE SlotStoreProofs --------------------------
(***************************************************************************)
(* What SlotStore promises, for any clients and values, any number of      *)
(* crashes and any number of faulty writes: a store that has worked works  *)
(* again, the three stores that a writer task owns are atomic registers    *)
(* that keep what they acknowledged, and a locked identity stays locked.   *)
(*                                                                         *)
(* The stores of kind Managed and the configuration share their actions    *)
(* but not the reason why they are right, so each has an invariant of its  *)
(* own; the types are common.                                              *)
(***************************************************************************)
EXTENDS SlotStore, TLAPS

---------------------------------------------------------------------------
(* The types.                                                              *)

Slots == [state : {"missing", "damaged", "written"}, schema : 1..3, gen : Nat,
          payload : Payloads]
Flashes == [slot : [0..1 -> Slots], selector : 0..2, hwm : BOOLEAN, pending : BOOLEAN]
Cores == [phase : {"down", "up"}, has : BOOLEAN, payload : Payloads, gen : Nat, slot : 0..1]
CommitLabels == {"write", "readback", "hwm", "selector", "final"}
EraseLabels == {"erase0", "erase1", "eraseSelector", "eraseHwm", "clear"}
Ops == [pc : {"idle", "mark"} \cup CommitLabels \cup EraseLabels, payload : Payloads,
        field : Field \cup {"none"}, target : 0..1, gen : Nat,
        client : Clients \cup {"none"}, err : BOOLEAN]
Reqs == [state : {"none", "read", "queued"}, payload : Payloads, expected : Nat,
         field : Field \cup {"none"}]
Acks == [a : Values \cup {0}, b : Values \cup {0}, lock : BOOLEAN, booted : BOOLEAN]
Reads == [ok : BOOLEAN, has : BOOLEAN, slot : 0..1, gen : Nat, payload : Payloads,
          repair : BOOLEAN]

FlashTyped == kind \in Kinds /\ flash \in Flashes
CoreTyped == core \in Cores
OpTyped == op \in [Actors -> Ops]
ReqTyped == req \in [Clients -> Reqs] /\ queue \in Seq(Clients) /\ closed \in BOOLEAN
HistoryTyped == doubt \subseteq Payloads /\ acked \in Acks /\ faults \in Nat

Typed == FlashTyped /\ CoreTyped /\ OpTyped /\ ReqTyped /\ HistoryTyped

---------------------------------------------------------------------------
(* The inductive invariant of the stores that a writer task owns.          *)

\* What x writes into its slot.
NewSlot(x) == Slot("written", 3, op[x].gen, op[x].payload)
SelectedValid == flash.selector \in 0..1 /\ IsSlotValid(flash.slot[flash.selector])
\* A request changes one field and takes the other from the copy in RAM.
KeepsOther(p, field) == field \in Field /\ \A f \in Field \ {field} : p[f] = core.payload[f]

\* Only the writer task and a boot write, and no reset is ever marked.
ManagedWho ==
    /\ ~flash.pending
    /\ \A x \in Actors \ {"writer", "boot"} : op[x].pc = "idle"
    /\ \A x \in {"writer", "boot"} : op[x].pc \in {"idle", "write", "readback", "selector"}

\* A commit has the next generation, its payload is one a boot may find, and
\* once the slot is read back it holds what was meant to be written.
ManagedCommit ==
    \A x \in {"writer", "boot"} : op[x].pc # "idle" =>
      /\ op[x].gen = core.gen + 1
      /\ Content(op[x].payload) \in doubt
      /\ op[x].pc = "readback" => flash.slot[op[x].target] \in {NewSlot(x), Damaged}
      /\ op[x].pc = "selector" => flash.slot[op[x].target] = NewSlot(x)

\* A boot writes only to create the store, before it has ever worked.
ManagedBoot ==
    op["boot"].pc # "idle" =>
      /\ ~acked.booted /\ core.phase = "down"
      /\ op["boot"].target = 0 /\ op["boot"].payload = Default
      /\ op["boot"].field = "none" /\ op["boot"].client = "none"

\* The writer works on the slot that is not in use.
ManagedWriter ==
    op["writer"].pc # "idle" =>
      /\ core.phase = "up" /\ op["writer"].target = 1 - core.slot
      /\ KeepsOther(op["writer"].payload, op["writer"].field)

\* A store that has worked has a selector that points to a valid slot.  One
\* that has not holds nothing but the default payload.
ManagedFlash ==
    /\ acked.booted => SelectedValid
    /\ ~acked.booted => /\ flash.selector = NoSelector /\ acked.a = 0 /\ acked.b = 0
                        /\ \A i \in 0..1 : flash.slot[i].payload = Default

\* The copy in RAM is that of the selected slot and has every field that was
\* acknowledged; with the power off nobody waits.
ManagedCore ==
    /\ core.phase = "down" => /\ core = Down /\ queue = <<>>
                              /\ \A c \in Clients : req[c].state = "none"
    /\ core.phase = "up" => /\ acked.booted /\ flash.selector = core.slot /\ core.gen # 0
                            /\ flash.slot[core.slot].payload = core.payload
                            /\ \A f \in Field : core.payload[f] = acked[f]

\* A request made from the current generation would undo no other commit.
ManagedRequests ==
    \A c \in Clients :
      /\ req[c].expected <= core.gen
      /\ core.phase = "up" /\ req[c].expected = core.gen =>
           KeepsOther(req[c].payload, req[c].field)

\* With nothing undecided a boot finds what was acknowledged.
ManagedSettled == doubt = {} => \A f \in Field : Durable[f] = acked[f]

ManagedBase == /\ ManagedWho /\ ManagedCommit /\ ManagedBoot /\ ManagedWriter /\ ManagedFlash
               /\ ManagedCore /\ ManagedRequests
ManagedInv == ManagedBase /\ ManagedSettled

---------------------------------------------------------------------------
(* The inductive invariant of the configuration, which has no writer task: *)
(* the portal commits, the network task resets, a boot completes a reset.  *)

\* Who does what, and when: a reset shuts the portal out first, and nothing is
\* erased before the marker is written.
ConfigWho ==
    /\ queue = <<>> /\ \A c \in Clients : req[c].state = "none"
    /\ \A x \in Actors \ {"portal", "net", "boot"} : op[x].pc = "idle"
    /\ "portal" \in Clients => op["portal"].pc \in {"idle"} \cup CommitLabels
    /\ op["net"].pc \in {"idle", "mark"} \cup EraseLabels
    /\ op["boot"].pc \in {"idle"} \cup EraseLabels
    /\ op["net"].pc # "idle" => closed /\ core.phase = "up"
    /\ op["boot"].pc # "idle" => core.phase = "down"
    /\ \A x \in {"net", "boot"} : op[x].pc \in EraseLabels => flash.pending

\* The portal never gives up a lock, never writes the selected slot, and writes
\* the mark of the lock before it moves the selector.
ConfigCommit ==
    "portal" \in Clients /\ op["portal"].pc # "idle" =>
      /\ core.phase = "up" /\ ~closed
      /\ core.payload.prov => op["portal"].payload.prov
      /\ flash.selector # NoSelector /\ op["portal"].pc # "final" =>
           op["portal"].target = 1 - flash.selector
      /\ op["portal"].pc \in {"hwm", "selector", "final"} =>
           /\ IsSlotValid(flash.slot[op["portal"].target])
           /\ flash.slot[op["portal"].target].payload = op["portal"].payload
      /\ op["portal"].pc \in {"selector", "final"} /\ op["portal"].payload.prov => flash.hwm
      /\ op["portal"].pc = "final" => flash.selector = op["portal"].target

\* An acknowledged lock is in the mark and in the copy in RAM, and there is a
\* slot to boot from, for without one the mark would be ignored.
ConfigLock ==
    acked.lock /\ ~flash.pending =>
      /\ flash.hwm /\ SelectedValid
      /\ core.phase = "up" => core.payload.prov

ConfigInv == ConfigWho /\ ConfigCommit /\ ConfigLock

---------------------------------------------------------------------------
(* Both.                                                                   *)

StoreInv == /\ Typed
            /\ kind \in Managed => ManagedInv
            /\ kind = "config" /\ "console" \notin Clients => ConfigInv

---------------------------------------------------------------------------
(* What the operators of the model return.                                 *)

LEMMA Constants ==
    /\ Default \in Payloads /\ Missing \in Slots /\ Damaged \in Slots
    /\ Idle \in Ops /\ Idle.pc = "idle" /\ NoRequest \in Reqs /\ Down \in Cores
    /\ NothingFound \in Reads /\ Refused \in Reads
<1>1. Default \in Payloads
  BY DEF Default, Payloads
<1> HIDE DEF Default, Payloads
<1>2. Missing \in Slots /\ Damaged \in Slots
  BY <1>1 DEF Missing, Damaged, Slot, Slots
<1>3. Idle \in Ops /\ Idle.pc = "idle"
  BY <1>1 DEF Idle, Ops
<1>4. NoRequest \in Reqs
  BY <1>1 DEF NoRequest, Reqs
<1>5. Down \in Cores
  BY <1>1 DEF Down, Cores
<1>6. NothingFound \in Reads /\ NothingFound.ok /\ ~NothingFound.has
  BY <1>1 DEF NothingFound, Reads
<1>7. Refused \in Reads
  BY <1>6 DEF Refused, Reads
<1> QED BY <1>1, <1>2, <1>3, <1>4, <1>5, <1>6, <1>7

\* A write does what was asked, or has no effect, or leaves damage.
LEMMA OutcomeOf ==
    ASSUME NEW old, NEW new, NEW bad, NEW w \in WriteOutcomes(old, new, bad)
    PROVE  /\ w.ok \in BOOLEAN /\ w.fault \in 0..1
           /\ w.ok => w.v = new \/ w.v \in bad
           /\ ~w.ok => w.v = old \/ w.v \in bad
<1>1. CASE w = [v |-> new, ok |-> TRUE, fault |-> 0]
  BY <1>1
<1>2. CASE w \in [v : {old} \cup bad, ok : {FALSE}, fault : {1}]
  <2>1. w.ok \in {FALSE} /\ w.v \in {old} \cup bad /\ w.fault \in {1}
    BY <1>2
  <2>2. w.fault \in 0..1
    BY <2>1
  <2> QED BY ONLY <2>1, <2>2, Zenon
<1>3. CASE w \in [v : bad, ok : {TRUE}, fault : {1}]
  <2>1. w.ok \in {TRUE} /\ w.v \in bad /\ w.fault \in {1}
    BY <1>3
  <2>2. w.fault \in 0..1
    BY <2>1
  <2> QED BY ONLY <2>1, <2>2, Zenon
<1> QED BY <1>1, <1>2, <1>3 DEF WriteOutcomes

\* A write of a single word is never damaged.
LEMMA WordOutcome ==
    ASSUME NEW old, NEW new, NEW w \in WriteOutcomes(old, new, {})
    PROVE  w.ok \in BOOLEAN /\ w.fault \in 0..1 /\ (w.ok => w.v = new) /\ (~w.ok => w.v = old)
<1> PICK bad : bad = {}
  OBVIOUS
<1>1. w \in WriteOutcomes(old, new, bad)
  OBVIOUS
<1> QED BY <1>1, OutcomeOf

\* The content of a payload has its fields.
LEMMA ContentTyped ==
    ASSUME NEW p \in Payloads
    PROVE  /\ Content(p) \in Payloads
           /\ \A f \in Field : Content(p)[f] = p[f]
  BY DEF Content, Payloads, Field

LEMMA ContentDefault == Content(Default) = Default
<1> PICK no : no = FALSE
  OBVIOUS
<1>1. Default = [a |-> 0, b |-> 0, prov |-> no] /\ Content(Default) = [Default EXCEPT !.prov = no]
  BY DEF Default, Content
<1> QED BY <1>1

\* Migration keeps a slot as valid as it was.
LEMMA MigratedTyped ==
    ASSUME NEW s \in Slots
    PROVE  /\ Migrated(s) \in Slots /\ Migrated(s).gen = s.gen
           /\ IsSlotValid(Migrated(s)) <=> IsSlotValid(s)
<1>1. PICK m : m = Migrated(s)
  OBVIOUS
<1>2. s.payload \in Payloads /\ s.state \in {"missing", "damaged", "written"}
      /\ s.gen \in Nat /\ s.schema \in 1..3
  BY DEF Slots
<1>3. PICK q \in Payloads : q = [s.payload EXCEPT !.prov = FALSE]
  BY <1>2 DEF Payloads
<1>4. CASE s.schema = 1
  <2>1. Migrated(s) = [state |-> s.state, schema |-> 3, gen |-> s.gen, payload |-> q]
    BY <1>3, <1>4 DEF Migrated, Slots
  <2>2. Migrated(s) \in Slots
    BY ONLY <1>2, <2>1, q \in Payloads DEF Slots
  <2>3. Migrated(s).gen = s.gen /\ Migrated(s).state = s.state
    BY <2>1 DEF Slots
  <2> QED BY <2>2, <2>3 DEF IsSlotValid
<1>5. CASE s.schema # 1
  BY <1>1, <1>2, <1>5 DEF Migrated, Slots, IsSlotValid
<1> QED BY <1>4, <1>5

LEMMA FoundTyped ==
    ASSUME NEW i \in 0..1, NEW s \in Slots, NEW r \in BOOLEAN
    PROVE  Found(i, s, r) \in Reads
  BY DEF Found, Slots, Reads

LEMMA SecurityTyped ==
    ASSUME NEW f \in Flashes PROVE SecurityCoreInit(f) \in Reads
<1> DEFINE v == {i \in 0..1 : IsSlotValid(f.slot[i])}
<1> DEFINE chosen == IF f.selector \in v THEN f.selector ELSE 1 - f.selector
<1>1. CASE v = {} \/ f.selector = NoSelector
  BY <1>1, Constants DEF SecurityCoreInit
<1>2. CASE v # {} /\ f.selector # NoSelector
  <2>1. chosen \in 0..1 /\ f.slot[chosen] \in Slots
    BY <1>2 DEF Flashes, NoSelector
  <2> PICK no \in BOOLEAN : no = FALSE
    OBVIOUS
  <2>2. Found(chosen, f.slot[chosen], no) \in Reads
    BY <2>1, FoundTyped
  <2> QED BY <1>2, <2>2 DEF SecurityCoreInit
<1> QED BY <1>1, <1>2

LEMMA DirectoryTyped ==
    ASSUME NEW f \in Flashes PROVE SecurityDirectoryInit(f) \in Reads
<1> DEFINE v == {i \in 0..1 : IsSlotValid(f.slot[i])}
<1>1. CASE f.selector \in v
  <2>1. f.selector \in 0..1 /\ f.slot[f.selector] \in Slots
    BY <1>1 DEF Flashes
  <2> PICK no \in BOOLEAN : no = FALSE
    OBVIOUS
  <2>2. Found(f.selector, f.slot[f.selector], no) \in Reads
    BY <2>1, FoundTyped
  <2> QED BY <1>1, <2>2, Constants DEF SecurityDirectoryInit
<1>2. CASE f.selector \notin v
  BY <1>2, Constants DEF SecurityDirectoryInit
<1> QED BY <1>1, <1>2

LEMMA MachinesTyped ==
    ASSUME NEW f \in Flashes PROVE MachineDirectorySelect(f) \in Reads
<1> DEFINE v == {i \in 0..1 : IsSlotValid(f.slot[i])}
<1> DEFINE chosen == IF f.selector \in v THEN f.selector
                     ELSE IF v # {0, 1} THEN CHOOSE i \in v : TRUE
                     ELSE IF f.slot[1].gen > f.slot[0].gen THEN 1 ELSE 0
<1>1. CASE v = {}
  BY <1>1, Constants DEF MachineDirectorySelect
<1>2. CASE v # {}
  <2>1. chosen \in 0..1
    BY <1>2
  <2>2. f.slot[chosen] \in Slots
    BY <2>1 DEF Flashes
  <2> PICK r \in BOOLEAN : r = (f.selector \notin v)
    OBVIOUS
  <2>3. Found(chosen, f.slot[chosen], r) \in Reads
    BY <2>1, <2>2, FoundTyped
  <2> HIDE DEF v, chosen
  <2>4. MachineDirectorySelect(f) \in {NothingFound, Found(chosen, f.slot[chosen], r)}
    BY <1>2 DEF MachineDirectorySelect, v, chosen
  <2> QED BY <2>3, <2>4, Constants
<1> QED BY <1>1, <1>2

\* A slot whose payload takes on the lock is still a slot.
LEMMA LockTyped ==
    ASSUME NEW w \in Slots, NEW l \in BOOLEAN
    PROVE  [w EXCEPT !.payload.prov = @ \/ l] \in Slots
<1> PICK b \in BOOLEAN : b = (w.payload.prov \/ l)
  BY Zenon
<1>1. w.payload \in Payloads
  BY DEF Slots
<1>2. PICK p \in Payloads : p = [w.payload EXCEPT !.prov = b]
  BY <1>1 DEF Payloads
<1>3. [w EXCEPT !.payload = p] \in Slots
  BY <1>2 DEF Slots
<1>4. [w EXCEPT !.payload.prov = @ \/ l] = [w EXCEPT !.payload = p]
  BY <1>2, Zenon
<1> QED BY <1>3, <1>4

LEMMA ConfigTyped ==
    ASSUME NEW f \in Flashes PROVE NvsCoreInit(f) \in Reads
<1> DEFINE s == [i \in 0..1 |-> Migrated(f.slot[i])]
           v == {i \in 0..1 : IsSlotValid(s[i])}
           lock == f.hwm \/ \E i \in v : s[i].payload.prov
           chosen == IF v # {0, 1} THEN CHOOSE i \in v : TRUE
                     ELSE IF f.selector \in v THEN f.selector
                     ELSE IF GenIsNewer(s[1].gen, s[0].gen) THEN 1 ELSE 0
           switch == /\ v = {0, 1} /\ f.hwm
                     /\ ~s[chosen].payload.prov /\ s[1 - chosen].payload.prov
           active == IF switch THEN 1 - chosen ELSE chosen
<1>1. CASE v = {}
  BY <1>1, Constants DEF NvsCoreInit
<1>2. CASE v # {}
  <2>1. chosen \in 0..1
    BY <1>2
  <2> PICK l \in BOOLEAN : l = lock
    BY Zenon
  <2> PICK r \in BOOLEAN : r = switch
    BY Zenon
  <2> HIDE DEF chosen, switch
  <2>2. active \in 0..1
    BY <2>1
  <2>3. s[active] \in Slots
    BY <2>2, MigratedTyped DEF Flashes
  <2> HIDE DEF v, lock, active, s
  <2>4. [s[active] EXCEPT !.payload.prov = @ \/ l] \in Slots
    BY <2>3, LockTyped
  <2>5. Found(active, [s[active] EXCEPT !.payload.prov = @ \/ l], r) \in Reads
    BY <2>2, <2>4, FoundTyped, Zenon
  <2>6. NvsCoreInit(f) = Found(active, [s[active] EXCEPT !.payload.prov = @ \/ lock], switch)
    BY <1>2 DEF NvsCoreInit, v, chosen, lock, switch, active, s
  <2> QED BY <2>5, <2>6
<1> QED BY <1>1, <1>2

---------------------------------------------------------------------------
(* The types are preserved, action by action.                              *)

LEMMA ReadsTyped ==
    ASSUME Typed PROVE BootReads(flash) \in Reads
<1>1. flash \in Flashes /\ kind \in {"config", "security", "people", "machines"}
  BY SlotStoreAssumption DEF Typed, FlashTyped
<1> QED BY <1>1, SecurityTyped, DirectoryTyped, MachinesTyped, ConfigTyped DEF BootReads

LEMMA DurableTyped ==
    ASSUME Typed PROVE Durable \in Payloads
<1>1. BootReads(flash).payload \in Payloads
  BY ReadsTyped DEF Reads
<1> QED BY <1>1, Constants, ContentTyped DEF Durable

\* A payload is proposed.
LEMMA DoubtingTyped ==
    ASSUME Typed, NEW p \in Payloads PROVE Doubting(p) \subseteq Payloads
  BY DurableTyped, ContentTyped DEF Doubting, Typed, HistoryTyped

LEMMA CommitTyped ==
    ASSUME Typed, NEW p \in Payloads, NEW fd \in Field \cup {"none"},
           NEW c \in Clients \cup {"none"}
    PROVE  Commit(p, fd, c) \in Ops
<1>1. NextGen \in Nat
  BY DEF NextGen, Typed, CoreTyped, Cores
<1>2. Target \in 0..1
  BY DEF Target, Typed, CoreTyped, Cores, FlashTyped, Flashes, NoSelector
<1> QED BY <1>1, <1>2 DEF Commit, Ops, CommitLabels

LEMMA FailTyped ==
    ASSUME Typed, NEW x \in Actors, Fail(x)
    PROVE  CoreTyped' /\ OpTyped' /\ req' \in [Clients -> Reqs] /\ doubt' \subseteq Payloads
           /\ acked' \in Acks
<1>1. CoreTyped'
  BY Constants DEF Fail, Typed, CoreTyped
<1>2. OpTyped'
  BY Constants DEF Fail, Typed, OpTyped
<1>3. req' \in [Clients -> Reqs]
  BY Constants DEF Fail, Typed, ReqTyped
<1>4. doubt' \subseteq Payloads /\ acked' \in Acks
  BY DEF Fail, Typed, HistoryTyped, history
<1> QED BY <1>1, <1>2, <1>3, <1>4

LEMMA SucceedTyped ==
    ASSUME Typed, NEW x \in Actors, Succeed(x)
    PROVE  CoreTyped' /\ OpTyped' /\ req' \in [Clients -> Reqs] /\ doubt' \subseteq Payloads
           /\ acked' \in Acks
<1> PICK o : o = op[x]
  OBVIOUS
<1>o. o \in Ops
  BY DEF Typed, OpTyped
<1>1. CoreTyped'
  <2>1. o.gen \in Nat /\ o.target \in 0..1
    BY <1>o DEF Ops
  <2>2. flash.slot[o.target].payload \in Payloads
    BY <2>1 DEF Typed, FlashTyped, Flashes, Slots
  <2> QED BY <2>1, <2>2 DEF Succeed, CoreTyped, Cores
<1>2. OpTyped'
  BY Constants DEF Succeed, Typed, OpTyped
<1>3. req' \in [Clients -> Reqs]
  BY Constants DEF Succeed, Typed, ReqTyped
<1>4. doubt' \subseteq Payloads
  BY DEF Succeed, Decided, Typed, HistoryTyped
<1>5. acked' \in Acks
  <2>1. PICK na \in Values \cup {0}, nb \in Values \cup {0} :
          /\ na = IF o.field = "a" THEN o.payload.a ELSE acked.a
          /\ nb = IF o.field = "b" THEN o.payload.b ELSE acked.b
    BY <1>o DEF Ops, Payloads, Typed, HistoryTyped, Acks
  <2>2. o.payload.prov \in BOOLEAN /\ acked.lock \in BOOLEAN
    BY <1>o DEF Ops, Payloads, Typed, HistoryTyped, Acks
  <2>3. PICK l \in BOOLEAN : l = (acked.lock \/ o.payload.prov)
    BY <2>2, Zenon
  <2>4. acked' = [acked EXCEPT !.a = na, !.b = nb, !.lock = l, !.booted = TRUE]
    BY <2>1, <2>3 DEF Succeed
  <2> QED BY <2>4 DEF Typed, HistoryTyped, Acks
<1> QED BY <1>1, <1>2, <1>3, <1>4, <1>5

\* A commit or an erasure goes on to its next label.
LEMMA LabelTyped ==
    ASSUME Typed, NEW x \in Actors,
           NEW l \in {"idle", "mark"} \cup CommitLabels \cup EraseLabels,
           op' = [op EXCEPT ![x].pc = l]
    PROVE  OpTyped'
  BY DEF Typed, OpTyped, Ops

LEMMA WriteSlotTyped ==
    ASSUME Typed, NEW x \in Actors, WriteSlot(x) PROVE Typed'
<1> PICK o : o = op[x]
  OBVIOUS
<1>o. o \in Ops /\ o.target \in 0..1 /\ o.gen \in Nat /\ o.payload \in Payloads
  BY DEF Typed, OpTyped, Ops
<1> DEFINE new == Slot("written", 3, o.gen, o.payload)
<1>n. new \in Slots
  BY <1>o DEF Slot, Slots
<1> HIDE DEF new
<1>1. PICK w \in WriteOutcomes(flash.slot[o.target], new, {Damaged}) :
        /\ flash' = [flash EXCEPT !.slot[o.target] = w.v]
        /\ faults' = faults + w.fault
        /\ IF w.ok THEN /\ op' = [op EXCEPT ![x].pc = "readback"]
                        /\ UNCHANGED <<core, req, history>>
                   ELSE Fail(x)
  BY DEF WriteSlot, new
<1>2. w.ok \in BOOLEAN /\ w.fault \in 0..1 /\ w.v \in {flash.slot[o.target], new, Damaged}
  BY OutcomeOf
<1>3. w.v \in Slots
  BY <1>2, <1>n, <1>o, Constants DEF Typed, FlashTyped, Flashes
<1>4. FlashTyped'
  BY <1>1, <1>3, <1>o DEF WriteSlot, Typed, FlashTyped, Flashes
<1>5. faults' \in Nat
  BY <1>1, <1>2 DEF Typed, HistoryTyped
<1>6. CoreTyped' /\ OpTyped' /\ req' \in [Clients -> Reqs] /\ doubt' \subseteq Payloads
      /\ acked' \in Acks
  <2>1. CASE w.ok
    <3> PICK l \in CommitLabels : l = "readback"
      BY DEF CommitLabels
    <3>1. op' = [op EXCEPT ![x].pc = l]
      BY <1>1, <2>1
    <3>2. OpTyped'
      BY <3>1, LabelTyped
    <3> QED BY <1>1, <2>1, <3>2 DEF Typed, CoreTyped, ReqTyped, HistoryTyped, history
  <2>2. CASE ~w.ok
    BY <1>1, <2>2, FailTyped
  <2> QED BY <2>1, <2>2
<1> QED BY <1>4, <1>5, <1>6 DEF WriteSlot, Typed, ReqTyped, HistoryTyped

LEMMA ReadBackTyped ==
    ASSUME Typed, NEW x \in Actors, ReadBack(x) PROVE Typed'
<1>1. FlashTyped' /\ faults' \in Nat
  BY DEF ReadBack, Typed, FlashTyped, HistoryTyped
<1>2. CoreTyped' /\ OpTyped' /\ req' \in [Clients -> Reqs] /\ doubt' \subseteq Payloads
      /\ acked' \in Acks
  <2>1. CASE Fail(x)
    BY <2>1, FailTyped
  <2>2. CASE ~Fail(x)
    <3>1. PICK l \in {"hwm", "selector"} : op' = [op EXCEPT ![x].pc = l]
      BY <2>2 DEF ReadBack
    <3>2. OpTyped'
      BY <3>1 DEF Typed, OpTyped, Ops, CommitLabels
    <3> QED BY <2>2, <3>2 DEF ReadBack, Typed, CoreTyped, ReqTyped, HistoryTyped, history
  <2> QED BY <2>1, <2>2
<1> QED BY <1>1, <1>2 DEF ReadBack, Typed, ReqTyped, HistoryTyped

LEMMA WriteHwmTyped ==
    ASSUME Typed, NEW x \in Actors, WriteHwm(x) PROVE Typed'
<1> PICK yes : yes = TRUE
  OBVIOUS
<1> PICK old : old = flash.hwm
  OBVIOUS
<1>1. PICK w \in WriteOutcomes(old, yes, {}) :
        /\ flash' = [flash EXCEPT !.hwm = w.v]
        /\ faults' = faults + w.fault
        /\ IF w.ok THEN /\ op' = [op EXCEPT ![x].pc = "selector"]
                        /\ UNCHANGED <<core, req, history>>
                   ELSE Fail(x)
  BY DEF WriteHwm
<1>2. w.ok \in BOOLEAN /\ w.fault \in 0..1 /\ (w.ok => w.v = yes) /\ (~w.ok => w.v = old)
  BY WordOutcome
<1>3. w.v \in BOOLEAN
  <2>1. flash.hwm \in BOOLEAN
    BY DEF Typed, FlashTyped, Flashes
  <2> QED BY <1>2, <2>1, Zenon
<1>4. FlashTyped'
  BY <1>1, <1>3 DEF WriteHwm, Typed, FlashTyped, Flashes
<1>5. faults' \in Nat
  BY <1>1, <1>2 DEF Typed, HistoryTyped
<1>6. CoreTyped' /\ OpTyped' /\ req' \in [Clients -> Reqs] /\ doubt' \subseteq Payloads
      /\ acked' \in Acks
  <2>1. CASE w.ok
    <3> PICK l \in CommitLabels : l = "selector"
      BY DEF CommitLabels
    <3>1. op' = [op EXCEPT ![x].pc = l]
      BY <1>1, <2>1
    <3>2. OpTyped'
      BY <3>1, LabelTyped
    <3> QED BY <1>1, <2>1, <3>2 DEF Typed, CoreTyped, ReqTyped, HistoryTyped, history
  <2>2. CASE ~w.ok
    BY <1>1, <2>2, FailTyped
  <2> QED BY <2>1, <2>2
<1> QED BY <1>4, <1>5, <1>6 DEF WriteHwm, Typed, ReqTyped, HistoryTyped
LEMMA WriteSelectorTyped ==
    ASSUME Typed, NEW x \in Actors, WriteSelector(x) PROVE Typed'
<1> PICK old, new : old = flash.selector /\ new = op[x].target
  OBVIOUS
<1>1. PICK w \in WriteOutcomes(old, new, {}) :
        /\ flash' = [flash EXCEPT !.selector = w.v]
        /\ faults' = faults + w.fault
        /\ IF ~w.ok THEN Fail(x)
           ELSE IF kind # "config" THEN Succeed(x)
           ELSE /\ op' = [op EXCEPT ![x].pc = "final"]
                /\ UNCHANGED <<core, req, history>>
  BY DEF WriteSelector
<1>2. w.ok \in BOOLEAN /\ w.fault \in 0..1 /\ (w.ok => w.v = new) /\ (~w.ok => w.v = old)
  BY WordOutcome
<1>3. old \in 0..2 /\ new \in 0..2
  BY DEF Typed, FlashTyped, Flashes, OpTyped, Ops
<1>4. FlashTyped'
  <2>1. w.v \in 0..2
    BY <1>2, <1>3
  <2> QED BY <1>1, <2>1 DEF WriteSelector, Typed, FlashTyped, Flashes
<1>5. faults' \in Nat
  BY <1>1, <1>2 DEF Typed, HistoryTyped
<1>6. CoreTyped' /\ OpTyped' /\ req' \in [Clients -> Reqs] /\ doubt' \subseteq Payloads
      /\ acked' \in Acks
  <2>1. CASE ~w.ok
    BY <1>1, <2>1, FailTyped
  <2>2. CASE w.ok /\ kind # "config"
    BY <1>1, <2>2, SucceedTyped
  <2>3. CASE w.ok /\ kind = "config"
    <3> PICK l \in CommitLabels : l = "final"
      BY DEF CommitLabels
    <3>1. op' = [op EXCEPT ![x].pc = l]
      BY <1>1, <2>3
    <3>2. OpTyped'
      BY <3>1, LabelTyped
    <3> QED BY <1>1, <2>3, <3>2 DEF Typed, CoreTyped, ReqTyped, HistoryTyped, history
  <2> QED BY <2>1, <2>2, <2>3
<1> QED BY <1>4, <1>5, <1>6 DEF WriteSelector, Typed, ReqTyped, HistoryTyped

LEMMA FinalReadTyped ==
    ASSUME Typed, NEW x \in Actors, FinalRead(x) PROVE Typed'
<1>1. FlashTyped' /\ faults' \in Nat
  BY DEF FinalRead, Typed, FlashTyped, HistoryTyped
<1>2. CoreTyped' /\ OpTyped' /\ req' \in [Clients -> Reqs] /\ doubt' \subseteq Payloads
      /\ acked' \in Acks
  <2>1. Succeed(x) \/ Fail(x)
    BY DEF FinalRead
  <2> QED BY <2>1, FailTyped, SucceedTyped
<1> QED BY <1>1, <1>2 DEF FinalRead, Typed, ReqTyped, HistoryTyped

LEMMA SaveTyped ==
    ASSUME Typed, NEW c \in Clients, NEW fd \in Field, NEW v \in Values \cup {0},
           Save(c, fd, v)
    PROVE  Typed'
<1> PICK p : p = IF c = "console" THEN ConsolePayload(v) ELSE Overlay(fd, v)
  OBVIOUS
<1>1. p \in Payloads
  <2>1. core.payload \in Payloads
    BY DEF Typed, CoreTyped, Cores
  <2>2. ConsolePayload(v) \in Payloads
    BY <2>1 DEF ConsolePayload, Payloads
  <2>3. Overlay(fd, v) \in Payloads
    BY <2>1 DEF Overlay, Payloads, Field
  <2> QED BY <2>2, <2>3
<1>2. Commit(p, fd, c) \in Ops
  BY <1>1, CommitTyped
<1>3. Doubting(p) \subseteq Payloads
  BY <1>1, DoubtingTyped
<1>4. op' = [op EXCEPT ![c] = Commit(p, fd, c)] /\ doubt' = Doubting(p)
      /\ UNCHANGED <<kind, flash, core, req, queue, closed, acked, faults>>
  BY DEF Save
<1>5. OpTyped'
  BY <1>2, <1>4 DEF Typed, OpTyped, Actors
<1> QED BY <1>3, <1>4, <1>5 DEF Typed, FlashTyped, CoreTyped, ReqTyped, HistoryTyped

LEMMA ResetMarkTyped ==
    ASSUME Typed, ResetMark PROVE Typed'
<1>1. [Idle EXCEPT !.pc = "mark"] \in Ops
  BY Constants DEF Ops
<1>2. Doubting(Default) \subseteq Payloads
  BY DoubtingTyped, Constants
<1>3. OpTyped'
  BY <1>1 DEF ResetMark, Typed, OpTyped
<1> QED BY <1>2, <1>3 DEF ResetMark, Typed, FlashTyped, CoreTyped, ReqTyped, HistoryTyped

LEMMA WriteMarkTyped ==
    ASSUME Typed, WriteMark PROVE Typed'
<1> PICK yes, old : yes = TRUE /\ old = flash.pending
  OBVIOUS
<1>1. PICK w \in WriteOutcomes(old, yes, {}) :
        /\ flash' = [flash EXCEPT !.pending = w.v]
        /\ faults' = faults + w.fault
        /\ op' = [op EXCEPT !["net"] = IF w.ok THEN [@ EXCEPT !.pc = "erase0"] ELSE Idle]
  BY DEF WriteMark
<1>2. w.ok \in BOOLEAN /\ w.fault \in 0..1 /\ (w.ok => w.v = yes) /\ (~w.ok => w.v = old)
  BY WordOutcome
<1>3. w.v \in BOOLEAN
  <2>1. flash.pending \in BOOLEAN
    BY DEF Typed, FlashTyped, Flashes
  <2> QED BY <1>2, <2>1, Zenon
<1>4. FlashTyped'
  BY <1>1, <1>3 DEF WriteMark, Typed, FlashTyped, Flashes
<1>5. faults' \in Nat
  BY <1>1, <1>2 DEF Typed, HistoryTyped
<1>6. OpTyped'
  <2>1. "net" \in Actors /\ op["net"] \in Ops
    BY DEF Actors, Typed, OpTyped
  <2>2. [op["net"] EXCEPT !.pc = "erase0"] \in Ops
    BY <2>1 DEF Ops, EraseLabels
  <2>3. op' = [op EXCEPT !["net"] = IF w.ok THEN [op["net"] EXCEPT !.pc = "erase0"] ELSE Idle]
    BY <1>1, <2>1 DEF Typed, OpTyped
  <2> QED BY <2>1, <2>2, <2>3, Constants DEF Typed, OpTyped
<1> QED BY <1>4, <1>5, <1>6
     DEF WriteMark, Typed, CoreTyped, ReqTyped, HistoryTyped, history

LEMMA EraseTyped ==
    ASSUME Typed, NEW x \in Actors, Erase(x) PROVE Typed'
<1>1. PICK i \in 1..4 :
        /\ \/ /\ flash' = Erased(EraseOrder[i])
              /\ op' = [op EXCEPT ![x].pc = EraseOrder[i + 1]]
              /\ UNCHANGED faults
           \/ /\ faults < MaxFaults /\ faults' = faults + 1
              /\ op' = [op EXCEPT ![x].pc = IF i < 4 THEN "eraseHwm" ELSE "clear",
                                  ![x].err = TRUE]
              /\ flash' = flash
        /\ UNCHANGED <<kind, core, req, queue, closed, history>>
  BY DEF Erase
<1>2. FlashTyped'
  <2>1. EraseOrder[i] \in {"erase0", "erase1", "eraseSelector", "eraseHwm"}
    BY DEF EraseOrder
  <2>2. Erased(EraseOrder[i]) \in Flashes
    <3> PICK pc : pc = EraseOrder[i]
      OBVIOUS
    <3>1. CASE pc \in {"erase0", "erase1"}
      <4>1. PICK j \in 0..1 : Erased(pc) = [flash EXCEPT !.slot[j] = Missing]
        BY <3>1 DEF Erased
      <4> QED BY <4>1, Constants DEF Typed, FlashTyped, Flashes
    <3>2. CASE pc = "eraseSelector"
      BY <3>2 DEF Erased, Typed, FlashTyped, Flashes, NoSelector
    <3>3. CASE pc = "eraseHwm"
      BY <3>3 DEF Erased, Typed, FlashTyped, Flashes
    <3> QED BY <2>1, <3>1, <3>2, <3>3
  <2> QED BY <1>1, <2>2 DEF Typed, FlashTyped
<1>3. OpTyped'
  <2>1. EraseOrder[i + 1] \in EraseLabels
    BY DEF EraseOrder, EraseLabels
  <2> PICK l \in EraseLabels : l = IF i < 4 THEN "eraseHwm" ELSE "clear"
    BY DEF EraseLabels
  <2>2. CASE op' = [op EXCEPT ![x].pc = EraseOrder[i + 1]]
    BY <2>1, <2>2, LabelTyped
  <2>3. CASE op' = [op EXCEPT ![x].pc = l, ![x].err = TRUE]
    <3> PICK o \in Ops : o = op[x]
      BY DEF Typed, OpTyped
    <3>1. [o EXCEPT !.pc = l, !.err = TRUE] \in Ops
      BY DEF Ops
    <3>2. op' = [op EXCEPT ![x] = [o EXCEPT !.pc = l, !.err = TRUE]]
      BY <2>3 DEF Typed, OpTyped, Ops
    <3> QED BY <3>1, <3>2 DEF Typed, OpTyped
  <2> QED BY <1>1, <2>2, <2>3
<1>4. faults' \in Nat
  BY <1>1 DEF Typed, HistoryTyped
<1> QED BY <1>1, <1>2, <1>3, <1>4 DEF Typed, CoreTyped, ReqTyped, HistoryTyped, history

LEMMA ClearMarkTyped ==
    ASSUME Typed, NEW x \in Actors, ClearMark(x) PROVE Typed'
<1>1. OpTyped'
  BY Constants DEF ClearMark, Typed, OpTyped
<1>2. CASE op[x].err
  BY <1>1, <1>2, Constants DEF ClearMark, Typed, FlashTyped, CoreTyped, ReqTyped, HistoryTyped,
     history
<1>3. CASE ~op[x].err
  <2> PICK yes, no : yes = TRUE /\ no = FALSE
    OBVIOUS
  <2>1. PICK w \in WriteOutcomes(yes, no, {}) :
          flash' = [flash EXCEPT !.pending = w.v] /\ faults' = faults + w.fault
    BY <1>3 DEF ClearMark
  <2>2. w.ok \in BOOLEAN /\ w.fault \in 0..1 /\ (w.ok => w.v = no) /\ (~w.ok => w.v = yes)
    BY WordOutcome
  <2>3. w.v \in BOOLEAN
    BY <2>2, Zenon
  <2>4. FlashTyped'
    BY <2>1, <2>3 DEF ClearMark, Typed, FlashTyped, Flashes
  <2>5. faults' \in Nat
    BY <2>1, <2>2 DEF Typed, HistoryTyped
  <2>6. CoreTyped'
    <3> PICK r : r = NvsCoreInit(flash)
      OBVIOUS
    <3>1. r \in Reads
      BY ConfigTyped DEF Typed, FlashTyped
    <3>2. core' = IF x = "boot" THEN Down
                  ELSE [phase |-> "up", has |-> r.has, payload |-> r.payload,
                        gen |-> r.gen, slot |-> r.slot]
      BY <1>3 DEF ClearMark
    <3> QED BY <3>1, <3>2, Constants DEF CoreTyped, Cores, Reads
  <2>7. doubt' \subseteq Payloads /\ acked' \in Acks
    BY <1>3 DEF ClearMark, Decided, Typed, HistoryTyped, Acks
  <2> QED BY <1>1, <2>4, <2>5, <2>6, <2>7 DEF ClearMark, Typed, ReqTyped, HistoryTyped
<1> QED BY <1>2, <1>3
LEMMA ReadSnapshotTyped ==
    ASSUME Typed, NEW c \in Clients, NEW fd \in Field, NEW v \in Values,
           ReadSnapshot(c, fd, v)
    PROVE  Typed'
<1> PICK p : p = [core.payload EXCEPT ![fd] = v]
  OBVIOUS
<1>1. p \in Payloads
  BY DEF Typed, CoreTyped, Cores, Payloads, Field
<1>2. [state |-> "read", expected |-> core.gen, field |-> fd, payload |-> p] \in Reqs
  BY <1>1 DEF Typed, CoreTyped, Cores, Reqs
<1>3. req' \in [Clients -> Reqs]
  BY <1>2 DEF ReadSnapshot, Typed, ReqTyped
<1> QED BY <1>3 DEF ReadSnapshot, Typed, FlashTyped, CoreTyped, OpTyped, ReqTyped, HistoryTyped,
        history

LEMMA EnqueueTyped ==
    ASSUME Typed, NEW c \in Clients, Enqueue(c) PROVE Typed'
<1>1. req' \in [Clients -> Reqs]
  BY DEF Enqueue, Typed, ReqTyped, Reqs
<1>2. queue' \in Seq(Clients)
  BY DEF Enqueue, Typed, ReqTyped
<1> QED BY <1>1, <1>2 DEF Enqueue, Typed, FlashTyped, CoreTyped, OpTyped, ReqTyped,
        HistoryTyped, history

LEMMA GiveUpTyped ==
    ASSUME Typed, NEW c \in Clients, GiveUp(c) PROVE Typed'
  BY Constants DEF GiveUp, Typed, FlashTyped, CoreTyped, OpTyped, ReqTyped, HistoryTyped, history

LEMMA QueueTyped ==
    ASSUME Typed, queue # <<>>
    PROVE  Head(queue) \in Clients /\ Tail(queue) \in Seq(Clients)
  BY DEF Typed, ReqTyped

LEMMA TakeTyped ==
    ASSUME Typed, Take PROVE Typed'
<1> PICK c : c = Head(queue)
  OBVIOUS
<1> PICK r : r = req[c]
  OBVIOUS
<1>1. c \in Clients /\ queue' \in Seq(Clients)
  BY QueueTyped DEF Take
<1>2. r \in Reqs
  BY <1>1 DEF Typed, ReqTyped
<1>3. CASE r.expected # core.gen
  <2>1. req' = [req EXCEPT ![c] = NoRequest] /\ UNCHANGED <<op, doubt>>
    BY <1>3 DEF Take
  <2> QED BY <1>1, <2>1, Constants DEF Take, Typed, FlashTyped, CoreTyped, OpTyped, ReqTyped,
          HistoryTyped
<1>4. CASE r.expected = core.gen
  <2>1. /\ op' = [op EXCEPT !["writer"] = Commit(r.payload, r.field, c)]
        /\ doubt' = Doubting(r.payload) /\ UNCHANGED req
    BY <1>4 DEF Take
  <2>2. r.payload \in Payloads /\ r.field \in Field \cup {"none"}
    BY <1>2 DEF Reqs
  <2>3. Commit(r.payload, r.field, c) \in Ops /\ Doubting(r.payload) \subseteq Payloads
    BY <1>1, <2>2, CommitTyped, DoubtingTyped
  <2>4. OpTyped'
    BY <2>1, <2>3 DEF Typed, OpTyped
  <2> QED BY <1>1, <2>1, <2>3, <2>4 DEF Take, Typed, FlashTyped, CoreTyped, ReqTyped,
          HistoryTyped
<1> QED BY <1>3, <1>4

LEMMA UpTyped ==
    ASSUME NEW r \in Reads PROVE Up(r) \in Cores
  BY DEF Up, Reads, Cores

\* A boot settles the account.
LEMMA SettledTyped ==
    ASSUME Typed, Settled PROVE doubt' \subseteq Payloads /\ acked' \in Acks
<1> PICK d \in Payloads : d = Durable
  BY DurableTyped
<1>1. d.a \in Values \cup {0} /\ d.b \in Values \cup {0}
  BY DEF Payloads
<1> QED BY <1>1 DEF Settled, Typed, HistoryTyped, Acks

LEMMA BootTyped ==
    ASSUME Typed, Boot PROVE Typed'
<1>1. CASE CompleteReset
  <2>1. [Idle EXCEPT !.pc = "erase0"] \in Ops
    BY Constants DEF Ops, EraseLabels
  <2>2. OpTyped'
    BY <1>1, <2>1 DEF CompleteReset, Typed, OpTyped
  <2> QED BY <1>1, <2>2 DEF Boot, CompleteReset, Typed, FlashTyped, CoreTyped, ReqTyped,
          HistoryTyped, history
<1>2. CASE CreateStore
  <2>1. Commit(Default, "none", "none") \in Ops /\ Doubting(Default) \subseteq Payloads
    BY CommitTyped, DoubtingTyped, Constants
  <2>2. OpTyped'
    BY <1>2, <2>1 DEF CreateStore, Typed, OpTyped
  <2> QED BY <1>2, <2>1, <2>2 DEF Boot, CreateStore, Typed, FlashTyped, CoreTyped, ReqTyped,
          HistoryTyped
<1>3. CASE OpenStore
  <2> PICK r \in Reads : r = BootReads(flash)
    BY ReadsTyped
  <2> PICK old \in 0..2, new \in 0..1 : old = flash.selector /\ new = r.slot
    BY DEF Typed, FlashTyped, Flashes, Reads
  <2>1. PICK w \in IF r.repair THEN WriteOutcomes(old, new, {})
                   ELSE {[v |-> old, ok |-> TRUE, fault |-> 0]} :
          /\ flash' = [flash EXCEPT !.selector = w.v]
          /\ faults' = faults + w.fault
          /\ IF w.ok \/ kind = "config" THEN core' = Up(r) /\ Settled
             ELSE UNCHANGED <<core, history>>
    BY <1>3 DEF OpenStore
  <2>2. w.v \in 0..2 /\ w.fault \in 0..1
    <3>1. CASE w \in WriteOutcomes(old, new, {})
      BY <3>1, WordOutcome
    <3>2. CASE w = [v |-> old, ok |-> TRUE, fault |-> 0]
      BY <3>2
    <3> QED BY <2>1, <3>1, <3>2
  <2>3. FlashTyped' /\ faults' \in Nat
    BY <2>1, <2>2 DEF Boot, Typed, FlashTyped, Flashes, HistoryTyped
  <2>4. CoreTyped' /\ doubt' \subseteq Payloads /\ acked' \in Acks
    BY <2>1, UpTyped, SettledTyped DEF Typed, CoreTyped, HistoryTyped, history
  <2> QED BY <1>3, <2>3, <2>4 DEF Boot, OpenStore, Typed, OpTyped, ReqTyped, HistoryTyped
<1> QED BY <1>1, <1>2, <1>3 DEF Boot

LEMMA CrashTyped ==
    ASSUME Typed, Crash PROVE Typed'
<1>1. queue' \in Seq(Clients)
  BY DEF Crash
<1> QED BY <1>1, Constants DEF Crash, Typed, FlashTyped, CoreTyped, OpTyped, ReqTyped,
        HistoryTyped, history

LEMMA ShippedTyped ==
    ASSUME flash \in Shipped
    PROVE  /\ flash \in Flashes
           /\ flash = Empty \/ /\ kind = "config" /\ flash.selector = 0
                               /\ IsSlotValid(flash.slot[0])
<1>e. Empty \in Flashes
  BY Constants DEF Empty, Flashes, NoSelector
<1>1. CASE flash = Empty
  BY <1>e, <1>1
<1>2. CASE flash # Empty
  <2>1. kind = "config" /\ \E schema \in {1, 2}, v \in Values : flash = OldConfiguration(schema, v)
    BY <1>2 DEF Shipped
  <2>2. PICK schema \in {1, 2}, v \in Values : flash = OldConfiguration(schema, v)
    BY <2>1
  <2> PICK l \in BOOLEAN : l = (schema = 2)
    OBVIOUS
  <2> PICK s : s = Slot("written", schema, 1, [a |-> v, b |-> 0, prov |-> l])
    OBVIOUS
  <2>3. s \in Slots
    BY DEF Slot, Slots, Payloads
  <2>4. IsSlotValid(s)
    BY DEF Slot, IsSlotValid
  <2>5. flash = [Empty EXCEPT !.selector = 0, !.hwm = l, !.slot[0] = s]
    BY <2>2 DEF OldConfiguration
  <2> PICK two : two = [i \in 0..1 |-> IF i = 0 THEN s ELSE Missing]
    OBVIOUS
  <2>6. two \in [0..1 -> Slots] /\ two[0] = s
    BY <2>3, Constants
  <2>7. flash = [slot |-> two, selector |-> 0, hwm |-> l, pending |-> FALSE]
    BY <2>5 DEF Empty
  <2> QED BY <2>1, <2>4, <2>6, <2>7 DEF Flashes
<1> QED BY <1>1, <1>2

LEMMA InitTyped ==
    ASSUME Init PROVE Typed
<1>2. flash \in Flashes
  BY ShippedTyped DEF Init
<1>3. FlashTyped /\ CoreTyped /\ OpTyped /\ ReqTyped
  <2>1. queue \in Seq(Clients)
    BY DEF Init
  <2> QED BY <1>2, <2>1, Constants DEF Init, FlashTyped, CoreTyped, OpTyped, ReqTyped
<1>4. Durable \in Payloads
  <2>1. kind \in {"config", "security", "people", "machines"}
    BY SlotStoreAssumption DEF Init
  <2>2. BootReads(flash) \in Reads
    BY <1>2, <2>1, SecurityTyped, DirectoryTyped, MachinesTyped, ConfigTyped DEF BootReads
  <2>3. BootReads(flash).payload \in Payloads
    BY <2>2 DEF Reads
  <2> QED BY <2>3, Constants, ContentTyped DEF Durable
<1>5. HistoryTyped
  <2> PICK d \in Payloads : d = Durable
    BY <1>4
  <2>1. d.a \in Values \cup {0} /\ d.b \in Values \cup {0}
    BY DEF Payloads
  <2>2. flash.hwm \in BOOLEAN
    BY <1>2 DEF Flashes
  <2> QED BY <2>1, <2>2 DEF Init, HistoryTyped, Acks
<1> QED BY <1>3, <1>5 DEF Typed

LEMMA NextTyped ==
    ASSUME Typed, [Next]_vars PROVE Typed'
<1>1. CASE UNCHANGED vars
  BY <1>1 DEF vars, history, Typed, FlashTyped, CoreTyped, OpTyped, ReqTyped, HistoryTyped
<1>2. CASE \E x \in Actors : CommitStep(x) \/ Erase(x) \/ ClearMark(x)
  BY <1>2, WriteSlotTyped, ReadBackTyped, WriteHwmTyped, WriteSelectorTyped, FinalReadTyped,
     EraseTyped, ClearMarkTyped DEF CommitStep
<1>3. CASE \E c \in Clients \cap {"portal", "console"}, f \in Field, v \in Values \cup {0} :
             Save(c, f, v)
  BY <1>3, SaveTyped
<1>4. CASE ResetMark \/ WriteMark
  BY <1>4, ResetMarkTyped, WriteMarkTyped
<1>5. CASE \E c \in Clients, f \in Field, v \in Values : ReadSnapshot(c, f, v)
  BY <1>5, ReadSnapshotTyped
<1>6. CASE \E c \in Clients : Enqueue(c) \/ GiveUp(c)
  BY <1>6, EnqueueTyped, GiveUpTyped
<1>7. CASE Take \/ Boot \/ Crash
  BY <1>7, TakeTyped, BootTyped, CrashTyped
<1> QED BY <1>1, <1>2, <1>3, <1>4, <1>5, <1>6, <1>7 DEF Next

---------------------------------------------------------------------------
(* What a boot of a managed store reads.                                   *)

\* All three boots agree on a store whose selector points to a valid slot: that
\* slot is used, and nothing is repaired.
LEMMA ReadsSelected ==
    ASSUME NEW f \in Flashes, f.selector \in 0..1, IsSlotValid(f.slot[f.selector])
    PROVE  /\ SecurityCoreInit(f) = Found(f.selector, f.slot[f.selector], FALSE)
           /\ SecurityDirectoryInit(f) = Found(f.selector, f.slot[f.selector], FALSE)
           /\ MachineDirectorySelect(f) = Found(f.selector, f.slot[f.selector], FALSE)
<1> DEFINE v == {i \in 0..1 : IsSlotValid(f.slot[i])}
<1>1. f.selector \in v /\ v # {}
  OBVIOUS
<1>2. ~(\A i \in 0..1 : f.slot[i].state = "missing")
  BY DEF IsSlotValid
<1>3. f.selector # NoSelector
  BY DEF NoSelector
<1>4. SecurityCoreInit(f) = Found(f.selector, f.slot[f.selector], FALSE)
  BY <1>1, <1>3 DEF SecurityCoreInit
<1>5. SecurityDirectoryInit(f) = Found(f.selector, f.slot[f.selector], FALSE)
  BY <1>1, <1>2 DEF SecurityDirectoryInit
<1>6. MachineDirectorySelect(f) = Found(f.selector, f.slot[f.selector], FALSE)
  <2> PICK r : r = (f.selector \notin v)
    OBVIOUS
  <2>1. r = FALSE
    BY <1>1, Zenon
  <2>2. MachineDirectorySelect(f) = Found(f.selector, f.slot[f.selector], r)
    BY <1>1, <1>2 DEF MachineDirectorySelect
  <2> QED BY <2>1, <2>2
<1> QED BY <1>4, <1>5, <1>6

\* A boot that finds no selector reads the default payload; if it goes on at
\* all it repairs the selector with a valid slot.
Unselected(r, f) ==
    /\ r.payload = Default
    /\ r.ok /\ r.has => /\ r.repair /\ r.slot \in 0..1 /\ IsSlotValid(f.slot[r.slot])
                        /\ r.gen = f.slot[r.slot].gen

LEMMA NothingUnselected ==
    ASSUME NEW f PROVE Unselected(NothingFound, f) /\ Unselected(Refused, f)
<1>1. NothingFound.payload = Default /\ ~NothingFound.has
  BY DEF NothingFound
<1>2. Refused.payload = Default /\ ~Refused.ok
  BY DEF Refused, NothingFound
<1> QED BY <1>1, <1>2 DEF Unselected

\* So do the three boots on a store that was never finished.
LEMMA ReadsUnselected ==
    ASSUME NEW f \in Flashes, f.selector = NoSelector,
           \A i \in 0..1 : f.slot[i].payload = Default
    PROVE  /\ Unselected(SecurityCoreInit(f), f)
           /\ Unselected(SecurityDirectoryInit(f), f)
           /\ Unselected(MachineDirectorySelect(f), f)
<1> DEFINE v == {i \in 0..1 : IsSlotValid(f.slot[i])}
<1>1. f.selector \notin v
  BY DEF NoSelector
<1>2. SecurityCoreInit(f) \in {NothingFound, Refused}
  BY DEF SecurityCoreInit
<1>3. SecurityDirectoryInit(f) \in {NothingFound, Refused}
  BY <1>1 DEF SecurityDirectoryInit
<1>4. Unselected(MachineDirectorySelect(f), f)
  <2>1. CASE v = {} \/ \A i \in 0..1 : f.slot[i].state = "missing"
    <3>1. MachineDirectorySelect(f) \in {NothingFound, Refused}
      BY <2>1 DEF MachineDirectorySelect
    <3> QED BY <3>1, NothingUnselected
  <2>2. CASE v # {} /\ ~ \A i \in 0..1 : f.slot[i].state = "missing"
    <3> DEFINE chosen == IF v # {0, 1} THEN CHOOSE i \in v : TRUE
                         ELSE IF f.slot[1].gen > f.slot[0].gen THEN 1 ELSE 0
    <3>1. chosen \in v
      BY <2>2
    <3> PICK r : r = (f.selector \notin v)
      OBVIOUS
    <3>2. r
      BY <1>1, Zenon
    <3>3. MachineDirectorySelect(f) = Found(chosen, f.slot[chosen], r)
      BY <1>1, <2>2 DEF MachineDirectorySelect
    <3> HIDE DEF chosen
    <3> PICK m : m = MachineDirectorySelect(f)
      OBVIOUS
    <3>4. m.payload = Default /\ m.slot = chosen /\ m.gen = f.slot[chosen].gen /\ m.repair
      BY <3>1, <3>2, <3>3 DEF Found
    <3> QED BY <3>1, <3>4 DEF Unselected
  <2> QED BY <2>1, <2>2
<1> QED BY <1>2, <1>3, <1>4, NothingUnselected

\* The same in terms of the state, and of the next state.
LEMMA ManagedReads ==
    ASSUME Typed, kind \in Managed
    PROVE  /\ SelectedValid =>
                BootReads(flash) = Found(flash.selector, flash.slot[flash.selector], FALSE)
           /\ flash.selector = NoSelector /\ (\A i \in 0..1 : flash.slot[i].payload = Default)
                => Unselected(BootReads(flash), flash)
<1> USE DEF Managed
<1>1. flash \in Flashes
  BY DEF Typed, FlashTyped
<1>2. ASSUME SelectedValid
      PROVE  BootReads(flash) = Found(flash.selector, flash.slot[flash.selector], FALSE)
  BY <1>1, <1>2, ReadsSelected DEF SelectedValid, BootReads
<1>3. ASSUME flash.selector = NoSelector, \A i \in 0..1 : flash.slot[i].payload = Default
      PROVE  Unselected(BootReads(flash), flash)
  BY <1>1, <1>3, ReadsUnselected DEF BootReads
<1> QED BY <1>2, <1>3

LEMMA ManagedReadsNext ==
    ASSUME Typed', kind' \in Managed
    PROVE  /\ SelectedValid' =>
                BootReads(flash)' = Found(flash.selector, flash.slot[flash.selector], FALSE)'
           /\ (flash.selector = NoSelector /\ \A i \in 0..1 : flash.slot[i].payload = Default)'
                => Unselected(BootReads(flash), flash)'
<1> USE DEF Managed
<1>1. flash' \in Flashes
  BY DEF Typed, FlashTyped
<1>2. ASSUME SelectedValid'
      PROVE  BootReads(flash)' = Found(flash.selector, flash.slot[flash.selector], FALSE)'
  BY <1>1, <1>2, ReadsSelected DEF SelectedValid, BootReads
<1>3. ASSUME flash'.selector = NoSelector, \A i \in 0..1 : flash'.slot[i].payload = Default
      PROVE  Unselected(BootReads(flash), flash)'
  BY <1>1, <1>3, ReadsUnselected DEF BootReads
<1> QED BY <1>2, <1>3

\* The durable payload is that of the selected slot.
LEMMA DurableNow ==
    ASSUME Typed, kind \in Managed, ManagedBase
    PROVE  /\ acked.booted => Durable = Content(flash.slot[flash.selector].payload)
           /\ ~acked.booted => Durable = Default
<1>1. ~flash.pending
  BY DEF ManagedBase, ManagedWho
<1>2. ASSUME acked.booted PROVE Durable = Content(flash.slot[flash.selector].payload)
  BY <1>1, <1>2, ManagedReads DEF ManagedBase, ManagedFlash, Durable, Found
<1>3. ASSUME ~acked.booted PROVE Durable = Default
  <2>1. BootReads(flash).payload = Default
    BY <1>3, ManagedReads DEF ManagedBase, ManagedFlash, Unselected
  <2> QED BY <1>1, <2>1, ContentDefault DEF Durable
<1> QED BY <1>2, <1>3

LEMMA DurableNext ==
    ASSUME Typed', kind' \in Managed, ManagedBase'
    PROVE  /\ acked'.booted => Durable' = Content(flash'.slot[flash'.selector].payload)
           /\ ~acked'.booted => Durable' = Default
<1>1. ~flash'.pending
  BY DEF ManagedBase, ManagedWho
<1>2. ASSUME acked'.booted PROVE Durable' = Content(flash'.slot[flash'.selector].payload)
  BY <1>1, <1>2, ManagedReadsNext DEF ManagedBase, ManagedFlash, Durable, Found
<1>3. ASSUME ~acked'.booted PROVE Durable' = Default
  <2>1. BootReads(flash)'.payload = Default
    BY <1>3, ManagedReadsNext DEF ManagedBase, ManagedFlash, Unselected
  <2> QED BY <1>1, <2>1, ContentDefault DEF Durable
<1> QED BY <1>2, <1>3
---------------------------------------------------------------------------
(* The managed stores, step by step.                                       *)

\* A step that leaves alone what a boot would find.
SameContent ==
    /\ flash'.pending = flash.pending /\ flash'.selector = flash.selector
    /\ acked.booted => flash'.slot[flash.selector] = flash.slot[flash.selector]
    /\ ~acked.booted => \A i \in 0..1 : flash'.slot[i].payload = Default

\* A commit has the store to itself, and its slot is not the selected one.
LEMMA Alone ==
    ASSUME Typed, ManagedBase, NEW x \in Actors, op[x].pc # "idle"
    PROVE  /\ x \in {"writer", "boot"} /\ Writing = {x}
           /\ op[x].pc \in {"write", "readback", "selector"}
           /\ op[x].target \in 0..1
           /\ acked.booted => op[x].target # flash.selector
           /\ ~acked.booted => x = "boot" /\ op[x].payload = Default
<1>1. x \in {"writer", "boot"} /\ op[x].pc \in {"write", "readback", "selector"}
  BY DEF ManagedBase, ManagedWho
<1>2. Writing = {x}
  BY <1>1 DEF Writing, ManagedBase, ManagedWho, ManagedBoot, ManagedWriter
<1>3. op[x].target \in 0..1
  BY DEF Typed, OpTyped, Ops
<1>4. /\ acked.booted => op[x].target # flash.selector
      /\ ~acked.booted => x = "boot" /\ op[x].payload = Default
  BY <1>1 DEF ManagedBase, ManagedBoot, ManagedWriter, ManagedCore, Typed, CoreTyped, Cores
<1> QED BY <1>1, <1>2, <1>3, <1>4

LEMMA DurableSame ==
    ASSUME Typed, Typed', kind \in Managed, kind' = kind, ManagedBase, ManagedBase',
           SameContent, acked'.booted = acked.booted
    PROVE  Durable' = Durable
  BY DurableNow, DurableNext DEF SameContent

\* A commit that fails has changed nothing that counts.
LEMMA FailManaged ==
    ASSUME Typed, ManagedBase, NEW x \in Actors, op[x].pc # "idle", Fail(x), SameContent,
           UNCHANGED <<kind, queue, closed>>
    PROVE  ManagedBase' /\ doubt' # {} /\ UNCHANGED history
<1>x. x \in {"writer", "boot"} /\ Writing = {x}
  BY Alone
<1>c. core' = core
  BY DEF Fail, ManagedBase, ManagedBoot, ManagedCore
<1>o. op' = [op EXCEPT ![x] = Idle] /\ \A y \in Actors : op'[y].pc = "idle"
  BY <1>x, Constants DEF Fail, Writing, Typed, OpTyped
<1>h. acked' = acked /\ doubt' = doubt
  BY DEF Fail, history
<1>r. \A c \in Clients : req'[c] = req[c] \/ req'[c] = NoRequest
  BY DEF Fail, Typed, ReqTyped
<1>a. {"writer", "boot"} \subseteq Actors
  BY DEF Actors
<1>1. ManagedWho'
  BY <1>o, <1>a DEF ManagedBase, ManagedWho, SameContent
<1>2. ManagedCommit' /\ ManagedBoot' /\ ManagedWriter'
  BY <1>o, <1>a DEF ManagedCommit, ManagedBoot, ManagedWriter
<1>3. ManagedFlash'
  BY <1>h DEF ManagedBase, ManagedFlash, SelectedValid, SameContent
<1>4. ManagedCore'
  BY <1>c, <1>h, <1>r DEF ManagedBase, ManagedCore, SameContent, NoRequest
<1>5. ManagedRequests'
  BY <1>c, <1>r DEF ManagedBase, ManagedRequests, ManagedCore, KeepsOther, NoRequest, Typed,
     CoreTyped, Cores
<1>6. doubt' # {}
  BY <1>h, <1>x DEF ManagedBase, ManagedCommit
<1> QED BY <1>1, <1>2, <1>3, <1>4, <1>5, <1>6 DEF ManagedBase, Fail

\* The slot that is written, or damaged, is not in use.
LEMMA WriteSlotManaged ==
    ASSUME Typed, ManagedBase, NEW x \in Actors, WriteSlot(x)
    PROVE  ManagedBase' /\ SameContent /\ doubt' # {} /\ UNCHANGED <<kind, history>>
<1> PICK o : o = op[x]
  OBVIOUS
<1>x. /\ x \in {"writer", "boot"} /\ Writing = {x} /\ o.target \in 0..1 /\ o.pc = "write"
      /\ acked.booted => o.target # flash.selector
      /\ ~acked.booted => x = "boot" /\ o.payload = Default
  BY Alone DEF WriteSlot
<1>k. UNCHANGED <<kind, queue, closed>>
  BY DEF WriteSlot
<1> PICK new : new = Slot("written", 3, o.gen, o.payload)
  OBVIOUS
<1>1. PICK w \in WriteOutcomes(flash.slot[o.target], new, {Damaged}) :
        /\ flash' = [flash EXCEPT !.slot[o.target] = w.v]
        /\ IF w.ok THEN /\ op' = [op EXCEPT ![x].pc = "readback"]
                        /\ UNCHANGED <<core, req, history>>
                   ELSE Fail(x)
  BY DEF WriteSlot
<1>2. /\ w.ok => w.v \in {new, Damaged}
      /\ ~w.ok => w.v \in {flash.slot[o.target], Damaged}
  BY OutcomeOf
<1>3. SameContent
  <2>0. flash \in Flashes
    BY DEF Typed, FlashTyped
  <2>1. /\ flash'.pending = flash.pending /\ flash'.selector = flash.selector
        /\ \A i \in 0..1 : flash'.slot[i] = IF i = o.target THEN w.v ELSE flash.slot[i]
    BY <1>1, <1>x, <2>0 DEF Flashes
  <2>2. ~acked.booted => w.v.payload = Default
    <3>1. Damaged.payload = Default /\ new.payload = o.payload
      BY DEF Damaged, Slot
    <3> QED BY <1>2, <1>x, <3>1 DEF ManagedBase, ManagedFlash
  <2> QED BY <1>x, <2>0, <2>1, <2>2 DEF SameContent, ManagedBase, ManagedFlash, SelectedValid
<1>4. CASE ~w.ok
  BY <1>1, <1>3, <1>4, <1>k, <1>x, FailManaged DEF WriteSlot
<1>5. CASE w.ok
  <2>1. op' = [op EXCEPT ![x].pc = "readback"] /\ UNCHANGED <<core, req, history>>
    BY <1>1, <1>5
  <2>2. /\ op'[x] = [o EXCEPT !.pc = "readback"]
        /\ \A y \in Actors : y # x => op'[y].pc = "idle"
        /\ o \in Ops
    BY <1>x, <2>1 DEF Typed, OpTyped, Writing
  <2>3. /\ op'[x].pc = "readback" /\ op'[x].target = o.target /\ op'[x].payload = o.payload
        /\ op'[x].gen = o.gen /\ op'[x].field = o.field /\ op'[x].client = o.client
    BY <2>2 DEF Ops
  <2>a. {"writer", "boot"} \subseteq Actors
    BY DEF Actors
  <2>4. ManagedWho'
    BY <1>3, <1>x, <2>2, <2>3, <2>a DEF ManagedBase, ManagedWho, SameContent
  <2>5. ManagedCommit'
    <3>1. flash'.slot[o.target] = w.v
      BY <1>1, <1>x DEF Typed, FlashTyped, Flashes
    <3>2. w.v \in {NewSlot(x)', Damaged}
      BY <1>2, <1>5, <2>3 DEF NewSlot
    <3> QED BY <1>x, <2>1, <2>2, <2>3, <2>a, <3>1, <3>2 DEF ManagedBase, ManagedCommit, history
  <2>6. ManagedBoot'
    BY <1>x, <2>1, <2>2, <2>3, <2>a DEF ManagedBase, ManagedBoot, history
  <2>7. ManagedWriter'
    BY <1>x, <2>1, <2>2, <2>3, <2>a DEF ManagedBase, ManagedWriter, KeepsOther
  <2>8. ManagedFlash'
    BY <1>3, <2>1 DEF ManagedBase, ManagedFlash, SelectedValid, SameContent, history
  <2>9. ManagedCore'
    BY <1>3, <1>k, <2>1 DEF ManagedBase, ManagedCore, SameContent, history
  <2>10. ManagedRequests'
    BY <2>1 DEF ManagedBase, ManagedRequests, KeepsOther
  <2>11. doubt' # {}
    BY <1>x, <2>1 DEF ManagedBase, ManagedCommit, history
  <2> QED BY <1>3, <1>k, <2>1, <2>4, <2>5, <2>6, <2>7, <2>8, <2>9, <2>10, <2>11
          DEF ManagedBase
<1> QED BY <1>4, <1>5, <1>2
LEMMA ReadBackManaged ==
    ASSUME Typed, kind \in Managed, ManagedBase, NEW x \in Actors, ReadBack(x)
    PROVE  ManagedBase' /\ SameContent /\ doubt' # {} /\ UNCHANGED <<kind, history>>
<1> PICK o : o = op[x]
  OBVIOUS
<1>x. x \in {"writer", "boot"} /\ Writing = {x} /\ o.target \in 0..1 /\ o.pc = "readback"
  BY Alone DEF ReadBack
<1>k. UNCHANGED <<kind, flash, queue, closed>>
  BY DEF ReadBack
<1>3. SameContent
  BY <1>k DEF SameContent, ManagedBase, ManagedFlash
<1>4. CASE Fail(x)
  BY <1>3, <1>4, <1>k, <1>x, FailManaged
<1>5. CASE ~Fail(x)
  <2>1. /\ op' = [op EXCEPT ![x].pc = "selector"] /\ UNCHANGED <<core, req, history>>
        /\ IsSlotValid(flash.slot[o.target])
    BY <1>5 DEF ReadBack, Managed
  <2>2. /\ op'[x] = [o EXCEPT !.pc = "selector"]
        /\ \A y \in Actors : y # x => op'[y].pc = "idle"
        /\ o \in Ops
    BY <1>x, <2>1 DEF Typed, OpTyped, Writing
  <2>3. /\ op'[x].pc = "selector" /\ op'[x].target = o.target /\ op'[x].payload = o.payload
        /\ op'[x].gen = o.gen /\ op'[x].field = o.field /\ op'[x].client = o.client
    BY <2>2 DEF Ops
  <2>a. {"writer", "boot"} \subseteq Actors
    BY DEF Actors
  <2>4. ManagedWho'
    BY <1>3, <1>x, <2>2, <2>3, <2>a DEF ManagedBase, ManagedWho, SameContent
  <2>5. ManagedCommit'
    <3>1. flash.slot[o.target] # Damaged
      BY <2>1 DEF IsSlotValid, Damaged, Slot
    <3>2. flash.slot[o.target] = NewSlot(x)
      BY <1>x, <3>1 DEF ManagedBase, ManagedCommit
    <3>3. NewSlot(x)' = NewSlot(x)
      BY <2>3 DEF NewSlot
    <3> QED BY <1>k, <1>x, <2>1, <2>2, <2>3, <2>a, <3>2, <3>3
            DEF ManagedBase, ManagedCommit, history
  <2>6. ManagedBoot'
    BY <1>x, <2>1, <2>2, <2>3, <2>a DEF ManagedBase, ManagedBoot, history
  <2>7. ManagedWriter'
    BY <1>x, <2>1, <2>2, <2>3, <2>a DEF ManagedBase, ManagedWriter, KeepsOther
  <2>8. ManagedFlash'
    BY <1>3, <2>1 DEF ManagedBase, ManagedFlash, SelectedValid, SameContent, history
  <2>9. ManagedCore'
    BY <1>3, <1>k, <2>1 DEF ManagedBase, ManagedCore, SameContent, history
  <2>10. ManagedRequests'
    BY <2>1 DEF ManagedBase, ManagedRequests, KeepsOther
  <2>11. doubt' # {}
    BY <1>x, <2>1 DEF ManagedBase, ManagedCommit, history
  <2> QED BY <1>3, <1>k, <2>1, <2>4, <2>5, <2>6, <2>7, <2>8, <2>9, <2>10, <2>11
          DEF ManagedBase
<1> QED BY <1>4, <1>5

\* The selector moves: this is where a commit takes effect.
LEMMA SelectManaged ==
    ASSUME Typed, ManagedBase, NEW x \in Actors, op[x].pc = "selector", Succeed(x),
           flash' = [flash EXCEPT !.selector = op[x].target], UNCHANGED <<kind, queue, closed>>
    PROVE  /\ ManagedBase' /\ acked'.booted
           /\ flash'.slot[flash'.selector].payload = op[x].payload
           /\ Content(op[x].payload) \in doubt
           /\ doubt' = {} /\ core'.phase = "up" /\ core'.payload = op[x].payload
<1> PICK o : o = op[x]
  OBVIOUS
<1>x. x \in {"writer", "boot"} /\ Writing = {x} /\ o.target \in 0..1 /\ o \in Ops
  BY Alone DEF Typed, OpTyped
<1>s. /\ o.gen = core.gen + 1 /\ Content(o.payload) \in doubt
      /\ flash.slot[o.target] = Slot("written", 3, o.gen, o.payload)
  BY <1>x DEF ManagedBase, ManagedCommit, NewSlot
<1>f. /\ flash'.selector = o.target /\ flash'.slot = flash.slot /\ flash'.pending = flash.pending
      /\ flash'.slot[o.target].payload = o.payload /\ IsSlotValid(flash'.slot[o.target])
  <2>1. flash \in Flashes /\ core.gen \in Nat
    BY DEF Typed, FlashTyped, CoreTyped, Cores
  <2>2. flash'.selector = o.target /\ flash'.slot = flash.slot /\ flash'.pending = flash.pending
    BY <2>1 DEF Flashes
  <2> QED BY <1>s, <2>1, <2>2 DEF Slot, IsSlotValid
<1>c. core'.phase = "up" /\ core'.payload = o.payload /\ core'.gen = o.gen
      /\ core'.slot = o.target
  BY <1>s DEF Succeed, Slot
<1>o. \A y \in Actors : op'[y].pc = "idle"
  BY <1>x, Constants DEF Succeed, Writing, Typed, OpTyped
<1>r. \A c \in Clients : req'[c] = req[c] \/ req'[c] = NoRequest
  BY DEF Succeed, Typed, ReqTyped
<1>d. doubt' = {}
  BY <1>x DEF Succeed, Decided
<1>k. /\ acked'.booted
      /\ acked'.a = IF o.field = "a" THEN o.payload.a ELSE acked.a
      /\ acked'.b = IF o.field = "b" THEN o.payload.b ELSE acked.b
  <2>1. acked \in Acks
    BY DEF Typed, HistoryTyped
  <2> QED BY <2>1 DEF Succeed, Acks
<1>p. \A f \in Field : o.payload[f] = acked'[f]
  <2>1. CASE x = "writer"
    BY <1>k, <2>1 DEF ManagedBase, ManagedWriter, ManagedCore, KeepsOther, Field
  <2>2. CASE x = "boot"
    BY <1>k, <2>2 DEF ManagedBase, ManagedBoot, ManagedFlash, Field, Default
  <2> QED BY <1>x, <2>1, <2>2
<1>a. {"writer", "boot"} \subseteq Actors
  BY DEF Actors
<1>1. ManagedWho'
  BY <1>o, <1>a, <1>f DEF ManagedBase, ManagedWho
<1>2. ManagedCommit' /\ ManagedBoot' /\ ManagedWriter'
  BY <1>o, <1>a DEF ManagedCommit, ManagedBoot, ManagedWriter
<1>3. ManagedFlash'
  BY <1>k, <1>f, <1>x DEF ManagedFlash, SelectedValid
<1>4. ManagedCore'
  <2>1. core'.gen # 0
    BY <1>c, <1>s DEF Typed, CoreTyped, Cores
  <2> QED BY <1>c, <1>k, <1>p, <1>f, <2>1 DEF ManagedCore
<1>5. ManagedRequests'
  <2>1. \A c \in Clients : req'[c].expected < core'.gen
    <3>1. core.gen \in Nat /\ core'.gen = core.gen + 1 /\ NoRequest.expected = 0
      BY <1>c, <1>s DEF Typed, CoreTyped, Cores, NoRequest
    <3>2. \A c \in Clients : req[c].expected \in Nat /\ req[c].expected <= core.gen
      BY DEF ManagedBase, ManagedRequests, Typed, ReqTyped, Reqs
    <3> QED BY <1>r, <3>1, <3>2
  <2>2. core'.gen \in Nat /\ \A c \in Clients : req'[c].expected \in Nat
    BY <1>c, <1>x, <1>r DEF Ops, NoRequest, Typed, ReqTyped, Reqs
  <2> QED BY <2>1, <2>2 DEF ManagedRequests
<1> QED BY <1>1, <1>2, <1>3, <1>4, <1>5, <1>k, <1>f, <1>s, <1>d, <1>c DEF ManagedBase

LEMMA WriteSelectorManaged ==
    ASSUME Typed, Typed', kind \in Managed, ManagedInv, NEW x \in Actors, WriteSelector(x)
    PROVE  /\ ManagedInv' /\ kind' = kind
           /\ \/ Durable' = Durable /\ doubt' = doubt
              \/ Durable' \in doubt /\ doubt' = {}
<1>k. UNCHANGED <<kind, queue, closed>> /\ op[x].pc = "selector" /\ ManagedBase
  BY DEF WriteSelector, ManagedInv
<1> PICK old, new : old = flash.selector /\ new = op[x].target
  OBVIOUS
<1>1. PICK w \in WriteOutcomes(old, new, {}) :
        /\ flash' = [flash EXCEPT !.selector = w.v]
        /\ IF ~w.ok THEN Fail(x) ELSE Succeed(x)
  BY DEF WriteSelector, Managed
<1>2. (w.ok => w.v = new) /\ (~w.ok => w.v = old)
  BY WordOutcome
<1>3. CASE ~w.ok
  <2>1. flash' = flash
    BY <1>1, <1>2, <1>3 DEF Typed, FlashTyped, Flashes
  <2>2. SameContent
    BY <2>1, <1>k DEF SameContent, ManagedBase, ManagedFlash
  <2>3. ManagedBase' /\ doubt' # {} /\ UNCHANGED history
    BY <1>1, <1>3, <1>k, <2>2, FailManaged
  <2>4. Durable' = Durable
    BY <1>k, <2>2, <2>3, DurableSame DEF history
  <2> QED BY <1>k, <2>3, <2>4 DEF ManagedInv, ManagedSettled, history
<1>4. CASE w.ok
  <2>1. /\ ManagedBase' /\ acked'.booted
        /\ flash'.slot[flash'.selector].payload = op[x].payload
        /\ Content(op[x].payload) \in doubt
        /\ doubt' = {} /\ core'.phase = "up" /\ core'.payload = op[x].payload
    BY <1>1, <1>2, <1>4, <1>k, SelectManaged
  <2>2. Durable' = Content(op[x].payload)
    BY <1>k, <2>1, DurableNext
  <2>3. \A f \in Field : Durable'[f] = acked'[f]
    <3>1. op[x].payload \in Payloads
      BY DEF Typed, OpTyped, Ops
    <3>2. \A f \in Field : Durable'[f] = op[x].payload[f]
      BY <2>2, <3>1, ContentTyped
    <3> QED BY <2>1, <3>2 DEF ManagedBase, ManagedCore
  <2> QED BY <1>k, <2>1, <2>2, <2>3 DEF ManagedInv, ManagedSettled
<1> QED BY <1>3, <1>4
\* What clients do before the writer takes a request.
LEMMA ClientManaged ==
    ASSUME Typed, ManagedBase, UNCHANGED <<kind, flash, core, op, closed, history>>,
           ManagedRequests', core.phase = "up"
    PROVE  ManagedBase' /\ SameContent
<1> USE DEF history
<1>1. ManagedWho' /\ ManagedCommit' /\ ManagedBoot' /\ ManagedWriter' /\ ManagedFlash'
  BY DEF ManagedBase, ManagedWho, ManagedCommit, ManagedBoot, ManagedWriter, ManagedFlash,
     NewSlot, SelectedValid, KeepsOther
<1>2. ManagedCore'
  BY DEF ManagedBase, ManagedCore
<1>3. SameContent
  BY DEF SameContent, ManagedBase, ManagedFlash
<1> QED BY <1>1, <1>2, <1>3 DEF ManagedBase

LEMMA UpWhen ==
    ASSUME Typed, ManagedBase,
           queue # <<>> \/ (\E c \in Clients : req[c].state # "none") \/ core.phase # "down"
    PROVE  core.phase = "up" /\ acked.booted
  BY DEF ManagedBase, ManagedCore, Typed, CoreTyped, Cores

LEMMA ReadSnapshotManaged ==
    ASSUME Typed, ManagedBase, NEW c \in Clients, NEW fd \in Field, NEW v \in Values,
           ReadSnapshot(c, fd, v)
    PROVE  ManagedBase' /\ SameContent /\ UNCHANGED <<kind, history>>
<1>1. UNCHANGED <<kind, flash, core, op, closed, history>> /\ core.phase = "up"
  BY DEF ReadSnapshot
<1> PICK p : p = [core.payload EXCEPT ![fd] = v]
  OBVIOUS
<1>2. req' = [req EXCEPT ![c] = [state |-> "read", expected |-> core.gen, field |-> fd,
                                 payload |-> p]]
  BY DEF ReadSnapshot
<1>3. \A f \in Field \ {fd} : p[f] = core.payload[f]
  BY DEF Typed, CoreTyped, Cores, Payloads, Field
<1>4. ManagedRequests'
  BY <1>1, <1>2, <1>3 DEF ManagedBase, ManagedRequests, KeepsOther, Typed, CoreTyped, Cores,
     ReqTyped
<1> QED BY <1>1, <1>4, ClientManaged

LEMMA EnqueueManaged ==
    ASSUME Typed, ManagedBase, NEW c \in Clients, Enqueue(c)
    PROVE  ManagedBase' /\ SameContent /\ UNCHANGED <<kind, history>>
<1>1. UNCHANGED <<kind, flash, core, op, closed, history>> /\ core.phase = "up"
  BY UpWhen DEF Enqueue
<1>2. \A d \in Clients : /\ req'[d].expected = req[d].expected
                         /\ req'[d].payload = req[d].payload /\ req'[d].field = req[d].field
  BY DEF Enqueue, Typed, ReqTyped, Reqs
<1>3. ManagedRequests'
  BY <1>1, <1>2 DEF ManagedBase, ManagedRequests, KeepsOther
<1> QED BY <1>1, <1>3, ClientManaged

\* A request is answered with an error.
LEMMA DropManaged ==
    ASSUME Typed, ManagedBase, NEW c \in Clients, req' = [req EXCEPT ![c] = NoRequest],
           core' = core, core.phase = "up"
    PROVE  ManagedRequests'
<1>1. NoRequest.expected = 0 /\ core.gen \in Nat /\ core.gen # 0
  BY DEF NoRequest, Typed, CoreTyped, Cores, ManagedBase, ManagedCore
<1>2. \A d \in Clients : req'[d] = IF d = c THEN NoRequest ELSE req[d]
  BY DEF Typed, ReqTyped
<1> QED BY <1>1, <1>2 DEF ManagedBase, ManagedRequests, KeepsOther

LEMMA GiveUpManaged ==
    ASSUME Typed, ManagedBase, NEW c \in Clients, GiveUp(c)
    PROVE  ManagedBase' /\ SameContent /\ UNCHANGED <<kind, history>>
<1>1. UNCHANGED <<kind, flash, core, op, closed, history>> /\ core.phase = "up"
  BY UpWhen DEF GiveUp
<1>2. ManagedRequests'
  BY <1>1, DropManaged DEF GiveUp
<1> QED BY <1>1, <1>2, ClientManaged

\* A request that is carried out was made from the current generation.
LEMMA TakeManaged ==
    ASSUME Typed, kind \in Managed, ManagedBase, Take
    PROVE  /\ ManagedBase' /\ SameContent /\ kind' = kind /\ acked' = acked
           /\ doubt' = doubt \/ \E p \in Payloads : doubt' = doubt \cup {Durable, p}
<1> PICK c : c = Head(queue)
  OBVIOUS
<1> PICK r : r = req[c]
  OBVIOUS
<1>1. /\ c \in Clients /\ core.phase = "up" /\ op["writer"].pc = "idle"
      /\ UNCHANGED <<kind, flash, core, closed, acked>>
  BY QueueTyped, UpWhen DEF Take
<1>2. CASE r.expected # core.gen
  <2>1. req' = [req EXCEPT ![c] = NoRequest] /\ UNCHANGED <<op, doubt>>
    BY <1>2 DEF Take
  <2>2. ManagedRequests'
    BY <1>1, <2>1, DropManaged
  <2>3. UNCHANGED <<kind, flash, core, op, closed, history>>
    BY <1>1, <2>1 DEF history
  <2> QED BY <1>1, <2>1, <2>2, <2>3, ClientManaged
<1>3. CASE r.expected = core.gen
  <2>0. r \in Reqs /\ r.payload \in Payloads
    BY <1>1 DEF Typed, ReqTyped, Reqs
  <2>1. /\ op' = [op EXCEPT !["writer"] = Commit(r.payload, r.field, c)]
        /\ doubt' = Doubting(r.payload) /\ UNCHANGED req
    BY <1>3 DEF Take
  <2>2. Target = 1 - core.slot
    BY <1>1 DEF Target, Managed, ManagedBase, ManagedCore
  <2>3. op'["writer"] = Commit(r.payload, r.field, c) /\ "writer" \in Actors
        /\ \A y \in Actors \ {"writer"} : op'[y] = op[y]
    BY <2>1 DEF Typed, OpTyped, Actors
  <2>4. /\ op'["writer"].pc = "write" /\ op'["writer"].payload = r.payload
        /\ op'["writer"].field = r.field /\ op'["writer"].target = 1 - core.slot
        /\ op'["writer"].gen = core.gen + 1
    BY <2>2, <2>3 DEF Commit, NextGen
  <2>5. op'["boot"] = op["boot"] /\ op["boot"].pc = "idle" /\ "boot" \in Actors
    BY <1>1, <2>3 DEF Actors, ManagedBase, ManagedBoot
  <2>6. KeepsOther(r.payload, r.field)
    BY <1>1, <1>3 DEF ManagedBase, ManagedRequests
  <2>7. Content(r.payload) \in doubt'
    BY <2>1 DEF Doubting
  <2>8. ManagedWho'
    BY <1>1, <2>3, <2>4, <2>5 DEF ManagedBase, ManagedWho
  <2>9. ManagedCommit' /\ ManagedBoot'
    BY <1>1, <2>4, <2>5, <2>7 DEF ManagedCommit, ManagedBoot
  <2>10. ManagedWriter'
    BY <1>1, <2>4, <2>6 DEF ManagedWriter, KeepsOther
  <2>11. ManagedFlash' /\ ManagedCore' /\ ManagedRequests'
    BY <1>1, <2>1 DEF ManagedBase, ManagedFlash, ManagedCore, ManagedRequests, SelectedValid,
       KeepsOther
  <2>12. SameContent
    BY <1>1 DEF SameContent, ManagedBase, ManagedFlash
  <2>13. \E p \in Payloads : doubt' = doubt \cup {Durable, p}
    BY <2>0, <2>1, ContentTyped DEF Doubting
  <2> QED BY <1>1, <2>8, <2>9, <2>10, <2>11, <2>12, <2>13 DEF ManagedBase
<1> QED BY <1>2, <1>3

LEMMA CrashManaged ==
    ASSUME Typed, ManagedBase, Crash
    PROVE  ManagedBase' /\ SameContent /\ UNCHANGED <<kind, history>>
<1>1. /\ core' = Down /\ queue' = <<>> /\ UNCHANGED <<kind, flash, history>>
      /\ \A x \in Actors : op'[x].pc = "idle"
      /\ \A c \in Clients : req'[c] = NoRequest
  BY Constants DEF Crash
<1>2. Down.phase = "down" /\ Down.gen = 0 /\ NoRequest.state = "none" /\ NoRequest.expected = 0
  BY DEF Down, NoRequest
<1>3. {"writer", "boot"} \subseteq Actors
  BY DEF Actors
<1>4. ManagedWho' /\ ManagedCommit' /\ ManagedBoot' /\ ManagedWriter'
  BY <1>1, <1>3 DEF ManagedBase, ManagedWho, ManagedCommit, ManagedBoot, ManagedWriter
<1>5. ManagedFlash' /\ ManagedCore' /\ ManagedRequests'
  BY <1>1, <1>2 DEF ManagedBase, ManagedFlash, ManagedCore, ManagedRequests, SelectedValid,
     history
<1>6. SameContent
  BY <1>1 DEF SameContent, ManagedBase, ManagedFlash
<1> QED BY <1>1, <1>4, <1>5, <1>6 DEF ManagedBase
\* Only a store that has never worked is created.
LEMMA CreateManaged ==
    ASSUME Typed, kind \in Managed, ManagedBase, Boot, CreateStore
    PROVE  /\ ManagedBase' /\ SameContent /\ kind' = kind /\ acked' = acked
           /\ \E p \in Payloads : doubt' = doubt \cup {Durable, p}
<1>1. core = Down /\ core.phase = "down" /\ Writing = {}
      /\ UNCHANGED <<kind, req, queue, closed, core, flash, acked>>
  BY DEF Boot, CreateStore, ManagedBase, ManagedCore
<1>2. ~acked.booted
  <2>1. SelectedValid => BootReads(flash).has
    BY ManagedReads DEF Found
  <2> QED BY <2>1 DEF CreateStore, ManagedBase, ManagedFlash
<1>3. Target = 0 /\ NextGen = core.gen + 1
  BY <1>1 DEF Target, Managed, Down, NextGen
<1>4. /\ op'["boot"] = Commit(Default, "none", "none") /\ doubt' = Doubting(Default)
      /\ {"writer", "boot"} \subseteq Actors
      /\ \A y \in Actors \ {"boot"} : op'[y] = op[y]
  BY DEF CreateStore, Typed, OpTyped, Actors
<1>5. /\ op'["boot"].pc = "write" /\ op'["boot"].payload = Default
      /\ op'["boot"].field = "none" /\ op'["boot"].client = "none" /\ op'["boot"].target = 0
      /\ op'["boot"].gen = core.gen + 1
  BY <1>3, <1>4 DEF Commit
<1>6. Content(Default) \in doubt' /\ op["writer"].pc = "idle"
  BY <1>1, <1>4 DEF Doubting, Writing
<1>7. ManagedWho'
  BY <1>1, <1>4, <1>5 DEF ManagedBase, ManagedWho
<1>8. ManagedCommit' /\ ManagedBoot' /\ ManagedWriter'
  BY <1>1, <1>2, <1>4, <1>5, <1>6 DEF ManagedCommit, ManagedBoot, ManagedWriter
<1>9. ManagedFlash' /\ ManagedCore' /\ ManagedRequests'
  BY <1>1 DEF ManagedBase, ManagedFlash, ManagedCore, ManagedRequests, SelectedValid, KeepsOther
<1>10. SameContent
  BY <1>1 DEF SameContent, ManagedBase, ManagedFlash
<1>11. \E p \in Payloads : doubt' = doubt \cup {Durable, p}
  BY <1>4, Constants, ContentTyped DEF Doubting
<1> QED BY <1>1, <1>7, <1>8, <1>9, <1>10, <1>11 DEF ManagedBase

\* A boot settles what was undecided.
LEMMA OpenedManaged ==
    ASSUME Typed, ManagedInv, NEW r \in Reads, core.phase = "down", Writing = {},
           UNCHANGED <<kind, req, queue, closed, op>>,
           flash' = [flash EXCEPT !.selector = r.slot], IsSlotValid(flash.slot[r.slot]),
           r.payload = flash.slot[r.slot].payload, r.gen = flash.slot[r.slot].gen,
           \A f \in Field : r.payload[f] = Durable[f], core' = Up(r), Settled
    PROVE  ManagedBase' /\ acked'.booted /\ flash'.slot[flash'.selector].payload = r.payload
<1>r. r.slot \in 0..1 /\ r.gen \in Nat /\ r.gen # 0
  BY DEF Reads, IsSlotValid
<1>f. /\ flash'.selector = r.slot /\ flash'.slot = flash.slot /\ flash'.pending = flash.pending
  BY DEF Typed, FlashTyped, Flashes
<1>c. core'.phase = "up" /\ core'.payload = r.payload /\ core'.gen = r.gen /\ core'.slot = r.slot
  BY DEF Up
<1>a. acked'.booted /\ \A f \in Field : acked'[f] = Durable[f]
  <2>1. acked \in Acks
    BY DEF Typed, HistoryTyped
  <2>2. CASE doubt = {}
    BY <2>1, <2>2 DEF Settled, Acks, Field, ManagedInv, ManagedSettled
  <2>3. CASE doubt # {}
    BY <2>1, <2>3 DEF Settled, Acks, Field
  <2> QED BY <2>2, <2>3
<1>o. {"writer", "boot"} \subseteq Actors /\ \A y \in Actors : op'[y].pc = "idle"
  BY DEF Actors, Writing
<1>1. ManagedWho'
  BY <1>o, <1>f DEF ManagedInv, ManagedBase, ManagedWho
<1>2. ManagedCommit' /\ ManagedBoot' /\ ManagedWriter'
  BY <1>o DEF ManagedCommit, ManagedBoot, ManagedWriter
<1>3. ManagedFlash'
  BY <1>a, <1>f, <1>r DEF ManagedFlash, SelectedValid
<1>4. ManagedCore'
  BY <1>a, <1>c, <1>f, <1>r DEF ManagedCore
<1>5. ManagedRequests'
  <2>1. \A c \in Clients : req[c].expected \in Nat /\ req[c].expected <= core.gen
    BY DEF ManagedInv, ManagedBase, ManagedRequests, Typed, ReqTyped, Reqs
  <2>2. core.gen = 0
    BY DEF ManagedInv, ManagedBase, ManagedCore, Down
  <2> QED BY <1>c, <1>r, <2>1, <2>2 DEF ManagedRequests
<1> QED BY <1>1, <1>2, <1>3, <1>4, <1>5, <1>a, <1>f DEF ManagedBase

LEMMA OpenManaged ==
    ASSUME Typed, Typed', kind \in Managed, ManagedInv, Boot, OpenStore
    PROVE  ManagedInv' /\ kind' = kind /\ Durable' = Durable /\ doubt' \subseteq doubt
<1> PICK r \in Reads : r = BootReads(flash)
  BY ReadsTyped
<1>b. /\ core.phase = "down" /\ Writing = {} /\ UNCHANGED <<kind, req, queue, closed, op>>
      /\ r.ok /\ r.has /\ ManagedBase /\ flash \in Flashes
  BY DEF Boot, OpenStore, Managed, ManagedInv, Typed, FlashTyped
<1> PICK old, new : old = flash.selector /\ new = r.slot
  OBVIOUS
<1>1. PICK w \in IF r.repair THEN WriteOutcomes(old, new, {})
                 ELSE {[v |-> old, ok |-> TRUE, fault |-> 0]} :
        /\ flash' = [flash EXCEPT !.selector = w.v]
        /\ IF w.ok THEN core' = Up(r) /\ Settled ELSE UNCHANGED <<core, history>>
  BY DEF OpenStore, Managed
<1>2. /\ r.slot \in 0..1 /\ IsSlotValid(flash.slot[r.slot])
      /\ r.payload = flash.slot[r.slot].payload /\ r.gen = flash.slot[r.slot].gen
      /\ ~r.repair => r.slot = flash.selector
  <2>1. CASE acked.booted
    BY <1>b, <2>1, ManagedReads DEF ManagedBase, ManagedFlash, SelectedValid, Found
  <2>2. CASE ~acked.booted
    BY <1>b, <2>2, ManagedReads DEF ManagedBase, ManagedFlash, Unselected
  <2> QED BY <2>1, <2>2
<1>3. (w.ok => w.v = new) /\ (~w.ok => w.v = old)
  <2>1. CASE r.repair
    BY <1>1, <2>1, WordOutcome
  <2>2. CASE ~r.repair
    BY <1>1, <1>2, <2>2
  <2> QED BY <2>1, <2>2
<1>4. Durable = Content(r.payload) /\ \A f \in Field : r.payload[f] = Durable[f]
  <2>1. Durable = Content(r.payload)
    BY <1>b DEF Durable, ManagedBase, ManagedWho
  <2> QED BY <2>1, ContentTyped DEF Reads
<1>5. CASE ~w.ok
  <2>1. flash' = flash /\ UNCHANGED <<core, history>>
    BY <1>1, <1>3, <1>5, <1>b DEF Flashes
  <2>2. ManagedBase'
    BY <1>b, <2>1 DEF ManagedBase, ManagedWho, ManagedCommit, ManagedBoot, ManagedWriter,
       ManagedFlash, ManagedCore, ManagedRequests, NewSlot, SelectedValid, KeepsOther, history
  <2>3. SameContent
    BY <1>b, <2>1 DEF SameContent, ManagedBase, ManagedFlash
  <2>4. Durable' = Durable
    BY <1>b, <2>1, <2>2, <2>3, DurableSame DEF history
  <2> QED BY <1>b, <2>1, <2>2, <2>4 DEF ManagedInv, ManagedSettled, history
<1>6. CASE w.ok
  <2>1. flash' = [flash EXCEPT !.selector = r.slot] /\ core' = Up(r) /\ Settled
    BY <1>1, <1>3, <1>6
  <2>2. ManagedBase' /\ acked'.booted /\ flash'.slot[flash'.selector].payload = r.payload
    BY <1>b, <1>2, <1>4, <2>1, OpenedManaged
  <2>3. Durable' = Durable
    BY <1>b, <1>4, <2>2, DurableNext
  <2>4. \A f \in Field : Durable'[f] = acked'[f]
    <3>1. core'.phase = "up" /\ core'.payload = r.payload
      BY <2>1 DEF Up
    <3> QED BY <1>4, <2>2, <2>3, <3>1 DEF ManagedBase, ManagedCore
  <2>5. doubt' = {}
    BY <2>1 DEF Settled
  <2> QED BY <1>b, <2>2, <2>3, <2>4, <2>5 DEF ManagedInv, ManagedSettled
<1> QED BY <1>5, <1>6

RegisterStep == Register!Next \/ UNCHANGED <<Durable, doubt>>

\* A step that changes no content may still propose a payload.
LEMMA QuietManaged ==
    ASSUME Typed, Typed', kind \in Managed, kind' = kind, ManagedInv, ManagedBase', SameContent,
           acked' = acked,
           doubt' = doubt \/ \E p \in Payloads : doubt' = doubt \cup {Durable, p}
    PROVE  ManagedInv' /\ RegisterStep
<1>1. Durable' = Durable
  BY DurableSame DEF ManagedInv
<1>2. ManagedSettled'
  BY <1>1 DEF ManagedInv, ManagedSettled
<1>3. RegisterStep
  BY <1>1 DEF RegisterStep, Register!Next, Register!Propose
<1> QED BY <1>2, <1>3 DEF ManagedInv

LEMMA EraseLabel ==
    ASSUME NEW x \in Actors, Erase(x) \/ ClearMark(x) PROVE op[x].pc \in EraseLabels
<1>1. \A i \in 1..4 : EraseOrder[i] \in EraseLabels
  BY DEF EraseOrder, EraseLabels
<1>2. CASE Erase(x)
  BY <1>1, <1>2 DEF Erase
<1>3. CASE ClearMark(x)
  BY <1>3 DEF ClearMark, EraseLabels
<1> QED BY <1>2, <1>3

LEMMA StepManaged ==
    ASSUME Typed, Typed', kind \in Managed, ManagedInv, [Next]_vars
    PROVE  ManagedInv' /\ RegisterStep
<1>b. ManagedBase
  BY DEF ManagedInv
<1>i. "net" \in Actors /\ op["net"].pc = "idle"
  BY <1>b, SlotStoreAssumption DEF Actors, ManagedBase, ManagedWho
<1>1. CASE UNCHANGED vars
  <2>1. UNCHANGED <<kind, flash, core, op, req, queue, acked, doubt>>
    BY <1>1 DEF vars, history
  <2>2. ManagedBase'
    BY <1>b, <2>1 DEF ManagedBase, ManagedWho, ManagedCommit, ManagedBoot, ManagedWriter,
       ManagedFlash, ManagedCore, ManagedRequests, NewSlot, SelectedValid, KeepsOther
  <2>3. SameContent
    BY <1>b, <2>1 DEF SameContent, ManagedBase, ManagedFlash
  <2> QED BY <2>1, <2>2, <2>3, QuietManaged
<1>2. ASSUME NEW x \in Actors, CommitStep(x) \/ Erase(x) \/ ClearMark(x)
      PROVE  ManagedInv' /\ RegisterStep
  <2>1. op[x].pc # "idle"
    BY <1>2, EraseLabel DEF CommitStep, WriteSlot, ReadBack, WriteHwm, WriteSelector, FinalRead,
       EraseLabels
  <2>2. op[x].pc \in {"write", "readback", "selector"}
    BY <1>b, <2>1, Alone
  <2>3. WriteSlot(x) \/ ReadBack(x) \/ WriteSelector(x)
    BY <1>2, <2>2, EraseLabel DEF CommitStep, WriteHwm, FinalRead, EraseLabels
  <2>4. CASE WriteSlot(x)
    BY <1>b, <2>4, WriteSlotManaged, QuietManaged DEF history
  <2>5. CASE ReadBack(x)
    BY <1>b, <2>5, ReadBackManaged, QuietManaged DEF history
  <2>6. CASE WriteSelector(x)
    <3>1. /\ ManagedInv' /\ kind' = kind
          /\ \/ Durable' = Durable /\ doubt' = doubt
             \/ Durable' \in doubt /\ doubt' = {}
      BY <2>6, WriteSelectorManaged
    <3> QED BY <3>1 DEF RegisterStep, Register!Next, Register!TakesEffect
  <2> QED BY <2>3, <2>4, <2>5, <2>6
<1>3. CASE \E c \in Clients \cap {"portal", "console"}, f \in Field, v \in Values \cup {0} :
             Save(c, f, v)
  BY <1>3 DEF Save, Managed
<1>4. CASE ResetMark \/ WriteMark
  BY <1>4, <1>i DEF ResetMark, WriteMark, Managed
<1>5. CASE \E c \in Clients, f \in Field, v \in Values : ReadSnapshot(c, f, v)
  BY <1>b, <1>5, ReadSnapshotManaged, QuietManaged DEF history
<1>6. CASE \E c \in Clients : Enqueue(c) \/ GiveUp(c)
  BY <1>b, <1>6, EnqueueManaged, GiveUpManaged, QuietManaged DEF history
<1>7. CASE Take
  BY <1>b, <1>7, TakeManaged, QuietManaged
<1>8. CASE Boot
  <2>1. CASE CompleteReset
    BY <1>b, <2>1 DEF CompleteReset, ManagedBase, ManagedWho
  <2>2. CASE CreateStore
    BY <1>b, <1>8, <2>2, CreateManaged, QuietManaged
  <2>3. CASE OpenStore
    <3>1. ManagedInv' /\ Durable' = Durable /\ doubt' \subseteq doubt
      BY <1>8, <2>3, OpenManaged
    <3> QED BY <3>1 DEF RegisterStep, Register!Next, Register!Settle
  <2> QED BY <1>8, <2>1, <2>2, <2>3 DEF Boot
<1>9. CASE Crash
  BY <1>b, <1>9, CrashManaged, QuietManaged DEF history
<1> QED BY <1>1, <1>2, <1>3, <1>4, <1>5, <1>6, <1>7, <1>8, <1>9 DEF Next
---------------------------------------------------------------------------
(* The managed stores at the start.                                        *)

LEMMA InitManaged ==
    ASSUME Init, Typed, kind \in Managed PROVE ManagedInv
<1>1. flash = Empty
  BY ShippedTyped DEF Init, Managed
<1>2. /\ flash.selector = NoSelector /\ ~flash.pending
      /\ \A i \in 0..1 : flash.slot[i].payload = Default
  BY <1>1 DEF Empty, Missing, Slot
<1>3. Durable = Default
  <2>1. BootReads(flash).payload = Default
    BY <1>2, ManagedReads DEF Unselected
  <2> QED BY <1>2, <2>1, ContentDefault DEF Durable
<1>4. ~acked.booted /\ acked.a = 0 /\ acked.b = 0
  BY <1>3 DEF Init, Default
<1>5. /\ core = Down /\ queue = <<>> /\ \A x \in Actors : op[x].pc = "idle"
      /\ \A c \in Clients : req[c] = NoRequest
  BY Constants DEF Init
<1>6. Down.phase = "down" /\ Down.gen = 0 /\ NoRequest.state = "none" /\ NoRequest.expected = 0
  BY DEF Down, NoRequest
<1>7. {"writer", "boot"} \subseteq Actors
  BY DEF Actors
<1>8. ManagedWho /\ ManagedCommit /\ ManagedBoot /\ ManagedWriter
  BY <1>2, <1>5, <1>7 DEF ManagedWho, ManagedCommit, ManagedBoot, ManagedWriter
<1>9. ManagedFlash /\ ManagedCore /\ ManagedRequests
  BY <1>2, <1>4, <1>5, <1>6 DEF ManagedFlash, ManagedCore, ManagedRequests
<1>10. ManagedSettled
  BY <1>3, <1>4 DEF ManagedSettled, Field, Default
<1> QED BY <1>8, <1>9, <1>10 DEF ManagedInv, ManagedBase

---------------------------------------------------------------------------
(* The configuration, step by step.                                        *)

\* The boot of the configuration always succeeds, repairs the selector with a
\* valid slot only, and takes the lock from the high-water mark.
LEMMA ConfigReads ==
    ASSUME NEW f \in Flashes
    PROVE  /\ NvsCoreInit(f).ok
           /\ NvsCoreInit(f).repair => /\ NvsCoreInit(f).slot \in 0..1
                                       /\ IsSlotValid(f.slot[NvsCoreInit(f).slot])
           /\ f.hwm /\ (\E i \in 0..1 : IsSlotValid(f.slot[i])) => NvsCoreInit(f).payload.prov
<1> DEFINE s == [i \in 0..1 |-> Migrated(f.slot[i])]
           v == {i \in 0..1 : IsSlotValid(s[i])}
           lock == f.hwm \/ \E i \in v : s[i].payload.prov
           chosen == IF v # {0, 1} THEN CHOOSE i \in v : TRUE
                     ELSE IF f.selector \in v THEN f.selector
                     ELSE IF GenIsNewer(s[1].gen, s[0].gen) THEN 1 ELSE 0
           switch == /\ v = {0, 1} /\ f.hwm
                     /\ ~s[chosen].payload.prov /\ s[1 - chosen].payload.prov
           active == IF switch THEN 1 - chosen ELSE chosen
<1>0. \A i \in 0..1 : s[i] \in Slots /\ (IsSlotValid(s[i]) <=> IsSlotValid(f.slot[i]))
  BY MigratedTyped DEF Flashes
<1>1. CASE v = {}
  <2>1. NvsCoreInit(f) = NothingFound
    BY <1>1 DEF NvsCoreInit
  <2>2. NothingFound.ok /\ ~NothingFound.repair
    BY DEF NothingFound
  <2> HIDE DEF s
  <2>3. \A i \in 0..1 : ~IsSlotValid(f.slot[i])
    BY <1>0, <1>1
  <2> HIDE DEF v
  <2> QED BY <2>1, <2>2, <2>3, Zenon
<1>2. CASE v # {}
  <2>1. chosen \in v
    <3>1. CASE v # {0, 1}
      <4>1. (CHOOSE i \in v : TRUE) \in v
        BY <1>2, Zenon
      <4> QED BY <3>1, <4>1, Zenon
    <3>2. CASE v = {0, 1}
      BY <3>2, Zenon
    <3> QED BY <3>1, <3>2, Zenon
  <2>a. switch => v = {0, 1}
    OBVIOUS
  <2>b. lock \in BOOLEAN /\ switch \in BOOLEAN /\ (f.hwm => lock)
    BY Zenon
  <2> HIDE DEF chosen, switch
  <2>2. active \in v
    BY <2>1, <2>a
  <2> PICK l \in BOOLEAN : l = lock
    BY <2>b
  <2> PICK r \in BOOLEAN : r = switch
    BY <2>b
  <2>3. v \subseteq 0..1
    OBVIOUS
  <2>4. \A i \in v : IsSlotValid(s[i])
    OBVIOUS
  <2>6. NvsCoreInit(f) = Found(active, [s[active] EXCEPT !.payload.prov = @ \/ lock], switch)
    BY <1>2 DEF NvsCoreInit, chosen, switch
  <2> HIDE DEF v, lock, active, s
  <2>7. NvsCoreInit(f) = Found(active, [s[active] EXCEPT !.payload.prov = @ \/ l], r)
    BY <2>6
  <2> PICK n : n = NvsCoreInit(f)
    OBVIOUS
  <2> PICK t \in Slots : t = s[active]
    BY <1>0, <2>2, <2>3
  <2> PICK q \in BOOLEAN : q = (t.payload.prov \/ l)
    BY Zenon
  <2>8. t.payload \in Payloads
    BY DEF Slots
  <2>9. [t EXCEPT !.payload.prov = @ \/ l] = [t EXCEPT !.payload = [t.payload EXCEPT !.prov = q]]
    BY <2>8 DEF Slots, Payloads
  <2>10. n = Found(active, [t EXCEPT !.payload = [t.payload EXCEPT !.prov = q]], r)
    BY <2>7, <2>9
  <2>11. n.ok /\ n.slot = active /\ n.payload.prov = q
    BY <2>10, <2>8 DEF Found, Slots, Payloads
  <2>12. n.ok /\ n.slot \in 0..1 /\ IsSlotValid(f.slot[n.slot])
    BY <1>0, <2>2, <2>3, <2>4, <2>11
  <2>13. f.hwm => n.payload.prov
    BY <2>11, <2>b, Zenon
  <2> QED BY <2>12, <2>13
<1> QED BY <1>1, <1>2
\* Labels tell who is at them.
LEMMA ConfigActor ==
    ASSUME Typed, ConfigWho, NEW x \in Actors
    PROVE  /\ {"net", "boot"} \subseteq Actors
           /\ "portal" \in Actors <=> "portal" \in Clients
           /\ op[x].pc \in CommitLabels => x = "portal" /\ "portal" \in Clients
           /\ op[x].pc \in EraseLabels => x \in {"net", "boot"}
<1>1. {"net", "boot"} \subseteq Actors /\ ("portal" \in Actors <=> "portal" \in Clients)
  BY SlotStoreAssumption DEF Actors
<1> QED BY <1>1 DEF ConfigWho, CommitLabels, EraseLabels

\* While the portal commits neither a reset nor a boot is under way.
LEMMA PortalConfig ==
    ASSUME Typed, ConfigWho, "portal" \in Clients, op["portal"].pc # "idle",
           ConfigCommit, NEW o \in Ops, o.pc \in {"idle"} \cup CommitLabels,
           op' = [op EXCEPT !["portal"] = o],
           flash'.pending = flash.pending, core'.phase = "up",
           UNCHANGED <<kind, queue, closed>>,
           \A c \in Clients : req'[c] = req[c] \/ req'[c] = NoRequest
    PROVE  /\ ConfigWho' /\ op'["portal"] = o /\ core.phase = "up" /\ closed' = FALSE
<1>1. \A y \in Actors : op'[y] = IF y = "portal" THEN o ELSE op[y]
  BY DEF Typed, OpTyped
<1>2. {"net", "boot"} \subseteq Actors /\ "portal" \in Actors
  BY DEF Actors
<1>3. core.phase = "up" /\ ~closed
  BY DEF ConfigCommit
<1>4. op["net"].pc = "idle" /\ op["boot"].pc = "idle"
  BY <1>3 DEF ConfigWho
<1>5. NoRequest.state = "none"
  BY DEF NoRequest
<1>6. ConfigWho'
  BY <1>1, <1>2, <1>4, <1>5 DEF ConfigWho, EraseLabels
<1>7. closed' = FALSE
  BY <1>3 DEF Typed, ReqTyped
<1> QED BY <1>1, <1>2, <1>3, <1>6, <1>7

\* The commit of the portal fails.
LEMMA FailConfig ==
    ASSUME Typed, ConfigWho, ConfigCommit, "portal" \in Clients, op["portal"].pc # "idle",
           Fail("portal"), flash'.pending = flash.pending, UNCHANGED <<kind, queue, closed>>
    PROVE  ConfigWho' /\ ConfigCommit' /\ UNCHANGED <<core, acked>>
<1>1. core' = core /\ acked' = acked /\ op' = [op EXCEPT !["portal"] = Idle]
  BY DEF Fail, history
<1>2. \A c \in Clients : req'[c] = req[c] \/ req'[c] = NoRequest
  BY DEF Fail, Typed, ReqTyped
<1>3. core'.phase = "up"
  BY <1>1 DEF ConfigCommit
<1>4. ConfigWho' /\ op'["portal"] = Idle
  BY <1>1, <1>2, <1>3, Constants, PortalConfig
<1>5. ConfigCommit'
  BY <1>4, Constants DEF ConfigCommit
<1> QED BY <1>1, <1>4, <1>5

\* The commit of the portal goes on.
LEMMA AdvanceConfig ==
    ASSUME Typed, ConfigWho, ConfigCommit, "portal" \in Clients, op["portal"].pc # "idle",
           NEW l \in CommitLabels, op' = [op EXCEPT !["portal"].pc = l],
           flash'.pending = flash.pending, UNCHANGED <<kind, queue, closed, core, req>>
    PROVE  /\ ConfigWho' /\ core'.phase = "up" /\ ~closed' /\ op'["portal"].pc = l
           /\ op'["portal"].payload = op["portal"].payload
           /\ op'["portal"].target = op["portal"].target
           /\ op["portal"].target \in 0..1
<1> PICK o \in Ops : o = op["portal"]
  BY DEF Typed, OpTyped, Actors
<1> PICK n : n = [o EXCEPT !.pc = l]
  OBVIOUS
<1>1. n \in Ops /\ n.pc = l /\ n.payload = o.payload /\ n.target = o.target /\ o.target \in 0..1
  BY DEF Ops
<1>2. op' = [op EXCEPT !["portal"] = n]
  BY DEF Typed, OpTyped, Actors
<1>3. core'.phase = "up" /\ ~closed'
  BY DEF ConfigCommit
<1>4. ConfigWho' /\ op'["portal"] = n
  BY <1>1, <1>2, <1>3, PortalConfig
<1> QED BY <1>1, <1>3, <1>4

LEMMA WriteSlotConfig ==
    ASSUME Typed, Typed', ConfigInv, NEW x \in Actors, WriteSlot(x) PROVE ConfigInv'
<1>i. ConfigWho /\ ConfigCommit /\ ConfigLock
  BY DEF ConfigInv
<1>x. x = "portal" /\ "portal" \in Clients /\ op["portal"].pc = "write"
  BY <1>i, ConfigActor DEF WriteSlot, CommitLabels
<1> PICK o : o = op["portal"]
  OBVIOUS
<1>o. o.target \in 0..1
  BY <1>x DEF Typed, OpTyped, Ops, Actors
<1>1. PICK w : /\ flash' = [flash EXCEPT !.slot[o.target] = w.v]
               /\ \/ /\ op' = [op EXCEPT !["portal"].pc = "readback"]
                     /\ UNCHANGED <<core, req, history>>
                  \/ Fail("portal")
  BY <1>x DEF WriteSlot
<1>2. /\ flash'.pending = flash.pending /\ flash'.hwm = flash.hwm
      /\ flash'.selector = flash.selector /\ flash.selector \in 0..2
      /\ \A i \in 0..1 : i # o.target => flash'.slot[i] = flash.slot[i]
  BY <1>1, <1>o DEF Typed, FlashTyped, Flashes
<1>3. o.target # flash.selector
  BY <1>i, <1>x, <1>o, <1>2 DEF ConfigCommit, NoSelector
<1>4. ConfigWho' /\ ConfigCommit' /\ core' = core /\ acked' = acked
  <2>1. CASE Fail("portal")
    BY <1>i, <1>x, <1>2, <2>1, FailConfig DEF WriteSlot
  <2>2. CASE op' = [op EXCEPT !["portal"].pc = "readback"] /\ UNCHANGED <<core, req, history>>
    <3> PICK l \in CommitLabels : l = "readback"
      BY DEF CommitLabels
    <3>1. /\ ConfigWho' /\ core'.phase = "up" /\ ~closed' /\ op'["portal"].pc = "readback"
          /\ op'["portal"].payload = o.payload /\ op'["portal"].target = o.target
      BY <1>i, <1>x, <1>2, <2>2, AdvanceConfig DEF WriteSlot
    <3>2. ConfigCommit'
      BY <1>i, <1>x, <1>2, <2>2, <3>1 DEF ConfigCommit
    <3> QED BY <2>2, <3>1, <3>2 DEF history
  <2> QED BY <1>1, <2>1, <2>2
<1>5. ConfigLock'
  BY <1>i, <1>2, <1>3, <1>4 DEF ConfigLock, SelectedValid
<1> QED BY <1>4, <1>5 DEF ConfigInv

LEMMA ReadBackConfig ==
    ASSUME Typed, Typed', kind = "config", ConfigInv, NEW x \in Actors, ReadBack(x)
    PROVE  ConfigInv'
<1>i. ConfigWho /\ ConfigCommit /\ ConfigLock
  BY DEF ConfigInv
<1>x. x = "portal" /\ "portal" \in Clients /\ op["portal"].pc = "readback"
  BY <1>i, ConfigActor DEF ReadBack, CommitLabels
<1> PICK o : o = op["portal"]
  OBVIOUS
<1>1. UNCHANGED <<kind, flash, queue, closed>>
  BY DEF ReadBack
<1>2. CASE Fail(x)
  <2>1. ConfigWho' /\ ConfigCommit' /\ UNCHANGED <<core, acked>>
    BY <1>i, <1>x, <1>1, <1>2, FailConfig
  <2> QED BY <1>i, <1>1, <2>1 DEF ConfigInv, ConfigLock, SelectedValid
<1>3. CASE ~Fail(x)
  <2> PICK l : l = IF o.payload.prov THEN "hwm" ELSE "selector"
    OBVIOUS
  <2>1. /\ l \in {"hwm", "selector"} /\ (l = "selector" => ~o.payload.prov)
        /\ l \in CommitLabels
    BY DEF CommitLabels
  <2>2. /\ op' = [op EXCEPT !["portal"].pc = l] /\ UNCHANGED <<core, req, history>>
        /\ IsSlotValid(flash.slot[o.target]) /\ flash.slot[o.target].payload = o.payload
    BY <1>3, <1>x DEF ReadBack
  <2>3. /\ ConfigWho' /\ core'.phase = "up" /\ ~closed' /\ op'["portal"].pc = l
        /\ op'["portal"].payload = o.payload /\ op'["portal"].target = o.target
    BY <1>i, <1>x, <1>1, <2>1, <2>2, AdvanceConfig
  <2>4. ConfigCommit'
    BY <1>i, <1>x, <1>1, <2>1, <2>2, <2>3 DEF ConfigCommit
  <2> QED BY <1>i, <1>1, <2>2, <2>3, <2>4 DEF ConfigInv, ConfigLock, SelectedValid, history
<1> QED BY <1>2, <1>3

LEMMA WriteHwmConfig ==
    ASSUME Typed, Typed', ConfigInv, NEW x \in Actors, WriteHwm(x) PROVE ConfigInv'
<1>i. ConfigWho /\ ConfigCommit /\ ConfigLock
  BY DEF ConfigInv
<1>x. x = "portal" /\ "portal" \in Clients /\ op["portal"].pc = "hwm"
  BY <1>i, ConfigActor DEF WriteHwm, CommitLabels
<1> PICK o : o = op["portal"]
  OBVIOUS
<1> PICK yes, old : yes = TRUE /\ old = flash.hwm
  OBVIOUS
<1>1. PICK w \in WriteOutcomes(old, yes, {}) :
        /\ flash' = [flash EXCEPT !.hwm = w.v]
        /\ IF w.ok THEN /\ op' = [op EXCEPT !["portal"].pc = "selector"]
                        /\ UNCHANGED <<core, req, history>>
                   ELSE Fail("portal")
  BY <1>x DEF WriteHwm
<1>2. (w.ok => w.v = yes) /\ (~w.ok => w.v = old)
  BY WordOutcome
<1>3. /\ flash'.pending = flash.pending /\ flash'.selector = flash.selector
      /\ flash'.slot = flash.slot /\ flash'.hwm = w.v
  BY <1>1 DEF Typed, FlashTyped, Flashes
<1>4. (flash.hwm => flash'.hwm) /\ (w.ok => flash'.hwm)
  BY <1>2, <1>3, Zenon
<1>5. ConfigWho' /\ ConfigCommit' /\ core' = core /\ acked' = acked
  <2>1. CASE ~w.ok
    BY <1>i, <1>x, <1>1, <1>3, <2>1, FailConfig DEF WriteHwm
  <2>2. CASE w.ok
    <3> PICK l \in CommitLabels : l = "selector"
      BY DEF CommitLabels
    <3>0. op' = [op EXCEPT !["portal"].pc = l] /\ UNCHANGED <<core, req, history>>
      BY <1>1, <2>2
    <3>1. /\ ConfigWho' /\ core'.phase = "up" /\ ~closed' /\ op'["portal"].pc = "selector"
          /\ op'["portal"].payload = o.payload /\ op'["portal"].target = o.target
      BY <1>i, <1>x, <1>3, <3>0, AdvanceConfig DEF WriteHwm
    <3>2. ConfigCommit'
      BY <1>i, <1>x, <1>3, <1>4, <2>2, <3>0, <3>1 DEF ConfigCommit
    <3> QED BY <3>0, <3>1, <3>2 DEF history
  <2> QED BY <2>1, <2>2
<1>6. ConfigLock'
  BY <1>i, <1>3, <1>4, <1>5 DEF ConfigLock, SelectedValid
<1> QED BY <1>5, <1>6 DEF ConfigInv

LEMMA WriteSelectorConfig ==
    ASSUME Typed, Typed', kind = "config", ConfigInv, NEW x \in Actors, WriteSelector(x)
    PROVE  ConfigInv'
<1>i. ConfigWho /\ ConfigCommit /\ ConfigLock
  BY DEF ConfigInv
<1>x. x = "portal" /\ "portal" \in Clients /\ op["portal"].pc = "selector"
  BY <1>i, ConfigActor DEF WriteSelector, CommitLabels
<1> PICK o : o = op["portal"]
  OBVIOUS
<1> PICK old, new : old = flash.selector /\ new = o.target
  OBVIOUS
<1>1. PICK w \in WriteOutcomes(old, new, {}) :
        /\ flash' = [flash EXCEPT !.selector = w.v]
        /\ IF ~w.ok THEN Fail("portal")
           ELSE /\ op' = [op EXCEPT !["portal"].pc = "final"]
                /\ UNCHANGED <<core, req, history>>
  BY <1>x DEF WriteSelector
<1>2. (w.ok => w.v = new) /\ (~w.ok => w.v = old)
  BY WordOutcome
<1>3. /\ flash'.pending = flash.pending /\ flash'.selector = w.v
      /\ flash'.slot = flash.slot /\ flash'.hwm = flash.hwm
  BY <1>1 DEF Typed, FlashTyped, Flashes
<1>4. CASE ~w.ok
  <2>1. ConfigWho' /\ ConfigCommit' /\ UNCHANGED <<core, acked>>
    BY <1>i, <1>x, <1>1, <1>3, <1>4, FailConfig DEF WriteSelector
  <2> QED BY <1>i, <1>2, <1>3, <1>4, <2>1 DEF ConfigInv, ConfigLock, SelectedValid
<1>5. CASE w.ok
  <2> PICK l \in CommitLabels : l = "final"
    BY DEF CommitLabels
  <2>0. op' = [op EXCEPT !["portal"].pc = l] /\ UNCHANGED <<core, req, history>>
    BY <1>1, <1>5
  <2>1. /\ ConfigWho' /\ core'.phase = "up" /\ ~closed' /\ op'["portal"].pc = "final"
        /\ op'["portal"].payload = o.payload /\ op'["portal"].target = o.target
        /\ o.target \in 0..1
    BY <1>i, <1>x, <1>3, <2>0, AdvanceConfig DEF WriteSelector
  <2>2. ConfigCommit'
    BY <1>i, <1>x, <1>2, <1>3, <1>5, <2>0, <2>1 DEF ConfigCommit
  <2>3. ConfigLock'
    BY <1>i, <1>x, <1>2, <1>3, <1>5, <2>0, <2>1
       DEF ConfigLock, ConfigCommit, SelectedValid, history
  <2> QED BY <2>1, <2>2, <2>3 DEF ConfigInv
<1> QED BY <1>4, <1>5

LEMMA FinalReadConfig ==
    ASSUME Typed, Typed', ConfigInv, NEW x \in Actors, FinalRead(x) PROVE ConfigInv'
<1>i. ConfigWho /\ ConfigCommit /\ ConfigLock
  BY DEF ConfigInv
<1>x. x = "portal" /\ "portal" \in Clients /\ op["portal"].pc = "final"
  BY <1>i, ConfigActor DEF FinalRead, CommitLabels
<1> PICK o : o = op["portal"]
  OBVIOUS
<1>1. UNCHANGED <<kind, flash, queue, closed>> /\ o \in Ops
  BY <1>x DEF FinalRead, Typed, OpTyped, Actors
<1>2. Succeed("portal")
  BY <1>i, <1>x DEF FinalRead, ConfigCommit
<1>3. /\ flash.slot[o.target].payload = o.payload /\ IsSlotValid(flash.slot[o.target])
      /\ flash.selector = o.target /\ (o.payload.prov => flash.hwm)
      /\ core.phase = "up" /\ (core.payload.prov => o.payload.prov)
  BY <1>i, <1>x DEF ConfigCommit
<1>4. core'.phase = "up" /\ core'.payload = o.payload /\ op' = [op EXCEPT !["portal"] = Idle]
  BY <1>2, <1>3 DEF Succeed
<1>5. \A c \in Clients : req'[c] = req[c] \/ req'[c] = NoRequest
  BY <1>2 DEF Succeed, Typed, ReqTyped
<1>6. ConfigWho' /\ op'["portal"] = Idle
  BY <1>i, <1>x, <1>1, <1>4, <1>5, Constants, PortalConfig
<1>7. ConfigCommit'
  BY <1>6, Constants DEF ConfigCommit
<1>8. acked'.lock => acked.lock \/ o.payload.prov
  <2>1. acked \in Acks
    BY DEF Typed, HistoryTyped
  <2> PICK l : l = (acked.lock \/ o.payload.prov)
    OBVIOUS
  <2>2. acked'.lock = l
    BY <1>2, <2>1 DEF Succeed, Acks
  <2> QED BY <2>2, Zenon
<1>9. ConfigLock'
  <2>1. o.target \in 0..1
    BY <1>1 DEF Ops
  <2> QED BY <1>i, <1>1, <1>3, <1>4, <1>8, <2>1 DEF ConfigLock, SelectedValid
<1> QED BY <1>6, <1>7, <1>9 DEF ConfigInv
LEMMA EraseConfig ==
    ASSUME Typed, ConfigInv, NEW x \in Actors, Erase(x) PROVE ConfigInv'
<1>i. ConfigWho /\ ConfigCommit /\ ConfigLock
  BY DEF ConfigInv
<1>x. x \in {"net", "boot"} /\ op[x].pc \in EraseLabels /\ {"net", "boot"} \subseteq Actors
      /\ flash.pending
  BY <1>i, EraseLabel, ConfigActor DEF ConfigWho
<1>p. "portal" \in Clients => op["portal"].pc = "idle"
  BY <1>i, <1>x DEF ConfigWho, ConfigCommit, EraseLabels
<1>1. PICK i \in 1..4 :
        /\ op[x].pc = EraseOrder[i]
        /\ \/ /\ flash' = Erased(EraseOrder[i])
              /\ op' = [op EXCEPT ![x].pc = EraseOrder[i + 1]]
           \/ /\ op' = [op EXCEPT ![x].pc = IF i < 4 THEN "eraseHwm" ELSE "clear",
                                  ![x].err = TRUE]
              /\ flash' = flash
        /\ UNCHANGED <<kind, core, req, queue, closed, history>>
  BY DEF Erase
<1>2. flash'.pending
  <2>1. EraseOrder[i] \in {"erase0", "erase1", "eraseSelector", "eraseHwm"}
    BY DEF EraseOrder
  <2>2. Erased(EraseOrder[i]).pending = flash.pending
    BY <2>1 DEF Erased, Typed, FlashTyped, Flashes
  <2> QED BY <1>1, <1>x, <2>2
<1>3. op'[x].pc \in EraseLabels
  <2>1. EraseOrder[i + 1] \in EraseLabels /\ "eraseHwm" \in EraseLabels /\ "clear" \in EraseLabels
    BY DEF EraseOrder, EraseLabels
  <2> QED BY <1>1, <2>1 DEF Typed, OpTyped, Ops
<1>4. \A y \in Actors : y # x => op'[y] = op[y]
  BY <1>1 DEF Typed, OpTyped
<1>5. ConfigWho'
  BY <1>i, <1>x, <1>1, <1>2, <1>3, <1>4, <1>p DEF ConfigWho, EraseLabels, Actors
<1>6. ConfigCommit'
  BY <1>x, <1>4, <1>p, SlotStoreAssumption DEF ConfigCommit, Actors
<1>7. ConfigLock'
  BY <1>2 DEF ConfigLock
<1> QED BY <1>5, <1>6, <1>7 DEF ConfigInv

\* A reset, or the boot that completes one, ends.
LEMMA IdleConfig ==
    ASSUME Typed, ConfigInv, NEW x \in {"net", "boot"}, NEW o, o.pc = "idle",
           op' = [op EXCEPT ![x] = o], UNCHANGED <<req, queue, closed>>,
           flash.pending => flash'.pending \/ op[x].pc \in EraseLabels,
           core'.phase = core.phase, "portal" \in Clients => op["portal"].pc = "idle",
           x = "net" => op["boot"].pc = "idle", x = "boot" => op["net"].pc = "idle"
    PROVE  ConfigWho' /\ ConfigCommit'
<1>1. {"net", "boot"} \subseteq Actors /\ "portal" \notin {"net", "boot"}
      /\ ("portal" \in Clients => "portal" \in Actors)
  BY DEF Actors
<1>2. op'[x].pc = "idle" /\ \A y \in Actors : y # x => op'[y] = op[y]
  BY <1>1 DEF Typed, OpTyped
<1>3. ConfigWho'
  BY <1>1, <1>2 DEF ConfigInv, ConfigWho, EraseLabels
<1>4. ConfigCommit'
  BY <1>1, <1>2 DEF ConfigCommit
<1> QED BY <1>3, <1>4

LEMMA ClearMarkConfig ==
    ASSUME Typed, Typed', ConfigInv, NEW x \in Actors, ClearMark(x) PROVE ConfigInv'
<1>i. ConfigWho /\ ConfigCommit /\ ConfigLock
  BY DEF ConfigInv
<1>x. x \in {"net", "boot"} /\ op[x].pc \in EraseLabels /\ flash.pending
  BY <1>i, EraseLabel, ConfigActor DEF ConfigWho
<1>p. /\ "portal" \in Clients => op["portal"].pc = "idle"
      /\ x = "net" => op["boot"].pc = "idle" /\ core.phase = "up"
      /\ x = "boot" => op["net"].pc = "idle" /\ core.phase = "down"
  BY <1>i, <1>x DEF ConfigWho, ConfigCommit, EraseLabels
<1>c. core'.phase = core.phase
  <2>1. CASE x = "boot"
    <3>1. core' = Down
      BY <2>1 DEF ClearMark
    <3> QED BY <1>p, <2>1, <3>1 DEF Down
  <2>2. CASE x = "net" /\ op[x].err
    BY <2>2 DEF ClearMark
  <2>3. CASE x = "net" /\ ~op[x].err
    <3> PICK r : r = NvsCoreInit(flash)
      OBVIOUS
    <3>1. core' = [phase |-> "up", has |-> r.has, payload |-> r.payload,
                   gen |-> r.gen, slot |-> r.slot]
      BY <2>3 DEF ClearMark
    <3> QED BY <1>p, <2>3, <3>1
  <2> QED BY <1>x, <2>1, <2>2, <2>3
<1>1. ConfigWho' /\ ConfigCommit'
  <2>1. op' = [op EXCEPT ![x] = Idle] /\ UNCHANGED <<req, queue, closed>>
    BY DEF ClearMark
  <2> QED BY <1>x, <1>p, <1>c, <2>1, Constants, IdleConfig
<1>2. ConfigLock'
  <2>1. CASE op[x].err
    BY <1>x, <2>1 DEF ClearMark, ConfigLock
  <2>2. CASE ~op[x].err
    <3>1. acked' = [acked EXCEPT !.a = 0, !.b = 0, !.lock = FALSE] /\ acked \in Acks
      BY <2>2 DEF ClearMark, Typed, HistoryTyped
    <3>2. ~acked'.lock
      BY <3>1 DEF Acks
    <3> QED BY <3>2 DEF ConfigLock
  <2> QED BY <2>1, <2>2
<1> QED BY <1>1, <1>2 DEF ConfigInv

LEMMA SaveConfig ==
    ASSUME Typed, ConfigInv, "console" \notin Clients,
           NEW c \in Clients \cap {"portal", "console"}, NEW fd \in Field,
           NEW v \in Values \cup {0}, Save(c, fd, v)
    PROVE  ConfigInv'
<1>i. ConfigWho /\ ConfigCommit /\ ConfigLock
  BY DEF ConfigInv
<1>c. c = "portal" /\ "portal" \in Actors /\ {"net", "boot"} \subseteq Actors
  BY DEF Actors
<1> PICK p : p = Overlay(fd, v)
  OBVIOUS
<1>1. /\ op' = [op EXCEPT !["portal"] = Commit(p, fd, "portal")]
      /\ core.phase = "up" /\ ~closed /\ kind = "config" /\ op["portal"].pc = "idle"
      /\ UNCHANGED <<kind, flash, core, req, queue, closed, acked>>
  BY <1>c DEF Save
<1>2. core.payload.prov => p.prov
  <2>1. core.payload \in Payloads
    BY DEF Typed, CoreTyped, Cores
  <2>2. CASE fd = "a"
    BY <2>1, <2>2 DEF Overlay, Payloads
  <2>3. CASE fd = "b"
    BY <2>1, <2>3 DEF Overlay, Payloads
  <2> QED BY <2>2, <2>3 DEF Field
<1>3. \A y \in Actors : op'[y] = IF y = "portal" THEN Commit(p, fd, "portal") ELSE op[y]
  BY <1>1, <1>c DEF Typed, OpTyped
<1>4. /\ op'["portal"].pc = "write" /\ op'["portal"].payload = p
      /\ flash.selector # NoSelector => op'["portal"].target = 1 - flash.selector
  BY <1>1, <1>3, <1>c DEF Commit, Target
<1>5. op["net"].pc = "idle" /\ op["boot"].pc = "idle"
  BY <1>1, <1>i DEF ConfigWho
<1>6. ConfigWho'
  BY <1>i, <1>c, <1>1, <1>3, <1>4, <1>5 DEF ConfigWho, CommitLabels, EraseLabels
<1>7. ConfigCommit'
  BY <1>1, <1>2, <1>4 DEF ConfigCommit
<1>8. ConfigLock'
  BY <1>i, <1>1 DEF ConfigLock, SelectedValid
<1> QED BY <1>6, <1>7, <1>8 DEF ConfigInv

LEMMA ResetMarkConfig ==
    ASSUME Typed, ConfigInv, ResetMark PROVE ConfigInv'
<1>i. ConfigWho /\ ConfigCommit /\ ConfigLock
  BY DEF ConfigInv
<1>a. {"net", "boot"} \subseteq Actors /\ ("portal" \in Clients => "portal" \in Actors)
  BY DEF Actors
<1> PICK o : o = [Idle EXCEPT !.pc = "mark"]
  OBVIOUS
<1>o. o.pc = "mark"
  BY Constants DEF Ops
<1>1. /\ op' = [op EXCEPT !["net"] = o] /\ closed' = TRUE
      /\ core.phase = "up" /\ op["portal"].pc = "idle" /\ op["net"].pc = "idle"
      /\ UNCHANGED <<kind, flash, core, req, queue, acked>>
  BY DEF ResetMark
<1>2. op'["net"] = o /\ \A y \in Actors : y # "net" => op'[y] = op[y]
  BY <1>1, <1>a DEF Typed, OpTyped
<1>3. ConfigWho'
  BY <1>i, <1>a, <1>o, <1>1, <1>2 DEF ConfigWho, EraseLabels
<1>4. ConfigCommit'
  BY <1>a, <1>1, <1>2 DEF ConfigCommit
<1>5. ConfigLock'
  BY <1>i, <1>1 DEF ConfigLock, SelectedValid
<1> QED BY <1>3, <1>4, <1>5 DEF ConfigInv

LEMMA WriteMarkConfig ==
    ASSUME Typed, ConfigInv, WriteMark PROVE ConfigInv'
<1>i. ConfigWho /\ ConfigCommit /\ ConfigLock
  BY DEF ConfigInv
<1>a. {"net", "boot"} \subseteq Actors /\ ("portal" \in Clients => "portal" \in Actors)
  BY DEF Actors
<1>b. /\ op["net"].pc = "mark" /\ closed /\ core.phase = "up" /\ op["boot"].pc = "idle"
      /\ "portal" \in Clients => op["portal"].pc = "idle"
      /\ UNCHANGED <<kind, core, req, queue, closed, history>>
  BY <1>i DEF WriteMark, ConfigWho, ConfigCommit
<1> PICK yes, old : yes = TRUE /\ old = flash.pending
  OBVIOUS
<1>1. PICK w \in WriteOutcomes(old, yes, {}) :
        /\ flash' = [flash EXCEPT !.pending = w.v]
        /\ op' = [op EXCEPT !["net"] = IF w.ok THEN [@ EXCEPT !.pc = "erase0"] ELSE Idle]
  BY DEF WriteMark
<1>2. (w.ok => w.v = yes) /\ (~w.ok => w.v = old)
  BY WordOutcome
<1>3. /\ flash'.selector = flash.selector /\ flash'.slot = flash.slot
      /\ flash'.hwm = flash.hwm /\ flash'.pending = w.v
  BY <1>1 DEF Typed, FlashTyped, Flashes
<1>4. (flash.pending => flash'.pending) /\ (w.ok => flash'.pending)
  BY <1>2, <1>3, Zenon
<1>5. /\ op'["net"].pc = IF w.ok THEN "erase0" ELSE "idle"
      /\ \A y \in Actors : y # "net" => op'[y] = op[y]
  BY <1>1, <1>a, Constants DEF Typed, OpTyped, Ops
<1>6. ConfigWho'
  BY <1>i, <1>a, <1>b, <1>4, <1>5 DEF ConfigWho, EraseLabels
<1>7. ConfigCommit'
  BY <1>a, <1>b, <1>5 DEF ConfigCommit
<1>8. ConfigLock'
  BY <1>i, <1>b, <1>3, <1>4 DEF ConfigLock, SelectedValid, history
<1> QED BY <1>6, <1>7, <1>8 DEF ConfigInv

LEMMA BootConfig ==
    ASSUME Typed, Typed', kind = "config", ConfigInv, Boot PROVE ConfigInv'
<1>i. ConfigWho /\ ConfigCommit /\ ConfigLock
  BY DEF ConfigInv
<1>a. {"net", "boot"} \subseteq Actors /\ ("portal" \in Clients => "portal" \in Actors)
  BY DEF Actors
<1>b. core.phase = "down" /\ (\A y \in Actors : op[y].pc = "idle")
      /\ UNCHANGED <<kind, req, queue, closed>>
  BY DEF Boot, Writing
<1>1. CASE CompleteReset
  <2> PICK o : o = [Idle EXCEPT !.pc = "erase0"]
    OBVIOUS
  <2>0. o.pc = "erase0"
    BY Constants DEF Ops
  <2>1. op' = [op EXCEPT !["boot"] = o] /\ flash.pending /\ UNCHANGED <<core, flash, history>>
    BY <1>1 DEF CompleteReset
  <2>2. op'["boot"] = o /\ \A y \in Actors : y # "boot" => op'[y] = op[y]
    BY <1>a, <2>1 DEF Typed, OpTyped
  <2>3. ConfigWho'
    BY <1>i, <1>a, <1>b, <2>0, <2>1, <2>2 DEF ConfigWho, EraseLabels
  <2>4. ConfigCommit' /\ ConfigLock'
    BY <1>i, <1>a, <1>b, <2>1, <2>2 DEF ConfigCommit, ConfigLock
  <2> QED BY <2>3, <2>4 DEF ConfigInv
<1>2. CASE CreateStore
  BY <1>2 DEF CreateStore, Managed
<1>3. CASE OpenStore
  <2> PICK r \in Reads : r = NvsCoreInit(flash)
    BY ReadsTyped DEF BootReads
  <2> PICK old, new : old = flash.selector /\ new = r.slot
    OBVIOUS
  <2>r. BootReads(flash) = r
    BY DEF BootReads
  <2>1. PICK w \in IF r.repair THEN WriteOutcomes(old, new, {})
                   ELSE {[v |-> old, ok |-> TRUE, fault |-> 0]} :
          flash' = [flash EXCEPT !.selector = w.v]
    BY <1>3, <2>r DEF OpenStore
  <2>2. core' = Up(r) /\ Settled /\ UNCHANGED op
    BY <1>3, <2>r DEF OpenStore
  <2>3. w.v = old \/ (r.repair /\ w.v = new)
    <3>1. CASE r.repair
      BY <2>1, <3>1, WordOutcome
    <3>2. CASE ~r.repair
      BY <2>1, <3>2
    <3> QED BY <3>1, <3>2
  <2>4. /\ flash'.selector = w.v /\ flash'.slot = flash.slot
        /\ flash'.hwm = flash.hwm /\ flash'.pending = flash.pending /\ flash \in Flashes
    BY <2>1 DEF Typed, FlashTyped, Flashes
  <2>5. acked'.lock = acked.lock
    BY <2>2 DEF Settled, Typed, HistoryTyped, Acks
  <2>6. core'.phase = "up" /\ core'.payload = r.payload
    BY <2>2 DEF Up
  <2>7. ConfigWho'
    BY <1>i, <1>a, <1>b, <2>2 DEF ConfigWho, EraseLabels
  <2>8. ConfigCommit'
    BY <1>a, <1>b, <2>2 DEF ConfigCommit
  <2>9. ConfigLock'
    <3>1. /\ r.repair => r.slot \in 0..1 /\ IsSlotValid(flash.slot[r.slot])
          /\ flash.hwm /\ SelectedValid => r.payload.prov
      BY <2>4, ConfigReads DEF SelectedValid
    <3> QED BY <1>i, <2>3, <2>4, <2>5, <2>6, <3>1 DEF ConfigLock, SelectedValid
  <2> QED BY <2>7, <2>8, <2>9 DEF ConfigInv
<1> QED BY <1>1, <1>2, <1>3 DEF Boot

LEMMA CrashConfig ==
    ASSUME Typed, ConfigInv, Crash PROVE ConfigInv'
<1>1. /\ core' = Down /\ queue' = <<>> /\ UNCHANGED <<kind, flash, history>>
      /\ \A x \in Actors : op'[x].pc = "idle"
      /\ \A c \in Clients : req'[c] = NoRequest
  BY Constants DEF Crash
<1>2. Down.phase = "down" /\ NoRequest.state = "none"
  BY DEF Down, NoRequest
<1>3. {"net", "boot"} \subseteq Actors /\ ("portal" \in Clients => "portal" \in Actors)
  BY DEF Actors
<1>4. ConfigWho' /\ ConfigCommit'
  BY <1>1, <1>2, <1>3 DEF ConfigWho, ConfigCommit, EraseLabels
<1>5. ConfigLock'
  BY <1>1, <1>2 DEF ConfigInv, ConfigLock, SelectedValid, history
<1> QED BY <1>4, <1>5 DEF ConfigInv

LEMMA InitConfig ==
    ASSUME Init PROVE ConfigInv
<1>1. /\ core = Down /\ queue = <<>> /\ acked.lock = flash.hwm
      /\ \A x \in Actors : op[x].pc = "idle"
      /\ \A c \in Clients : req[c] = NoRequest
  BY Constants DEF Init
<1>2. Down.phase = "down" /\ NoRequest.state = "none"
  BY DEF Down, NoRequest
<1>3. {"net", "boot"} \subseteq Actors /\ ("portal" \in Clients => "portal" \in Actors)
  BY DEF Actors
<1>4. ConfigWho /\ ConfigCommit
  BY <1>1, <1>2, <1>3 DEF ConfigWho, ConfigCommit, EraseLabels
<1>5. flash = Empty \/ (flash.selector = 0 /\ IsSlotValid(flash.slot[0]))
  BY ShippedTyped DEF Init
<1>6. ConfigLock
  <2>1. CASE flash = Empty
    BY <1>1, <2>1 DEF ConfigLock, Empty
  <2>2. CASE flash.selector = 0 /\ IsSlotValid(flash.slot[0])
    BY <1>1, <1>2, <2>2 DEF ConfigLock, SelectedValid
  <2> QED BY <1>5, <2>1, <2>2
<1> QED BY <1>4, <1>6 DEF ConfigInv

LEMMA StepConfig ==
    ASSUME Typed, Typed', kind = "config", "console" \notin Clients, ConfigInv, [Next]_vars
    PROVE  ConfigInv'
<1>1. CASE UNCHANGED vars
  BY <1>1 DEF vars, history, ConfigInv, ConfigWho, ConfigCommit, ConfigLock, SelectedValid
<1>2. ASSUME NEW x \in Actors, CommitStep(x) \/ Erase(x) \/ ClearMark(x)
      PROVE  ConfigInv'
  BY <1>2, WriteSlotConfig, ReadBackConfig, WriteHwmConfig, WriteSelectorConfig,
     FinalReadConfig, EraseConfig, ClearMarkConfig DEF CommitStep
<1>3. CASE \E c \in Clients \cap {"portal", "console"}, f \in Field, v \in Values \cup {0} :
             Save(c, f, v)
  BY <1>3, SaveConfig
<1>4. CASE ResetMark \/ WriteMark
  BY <1>4, ResetMarkConfig, WriteMarkConfig
<1>5. CASE \E c \in Clients, f \in Field, v \in Values : ReadSnapshot(c, f, v)
  BY <1>5 DEF ReadSnapshot, Managed
<1>6. CASE \E c \in Clients : Enqueue(c) \/ GiveUp(c)
  BY <1>6 DEF Enqueue, GiveUp, ConfigInv, ConfigWho
<1>7. CASE Take
  BY <1>7 DEF Take, ConfigInv, ConfigWho
<1>8. CASE Boot
  BY <1>8, BootConfig
<1>9. CASE Crash
  BY <1>9, CrashConfig
<1> QED BY <1>1, <1>2, <1>3, <1>4, <1>5, <1>6, <1>7, <1>8, <1>9 DEF Next
---------------------------------------------------------------------------
(* The theorems.                                                           *)

\* A store does not change its kind.
LEMMA KindKept ==
    ASSUME [Next]_vars PROVE kind' = kind
  BY DEF Next, vars, CommitStep, WriteSlot, ReadBack, WriteHwm, WriteSelector, FinalRead, Erase,
     ClearMark, Save, ResetMark, WriteMark, ReadSnapshot, Enqueue, GiveUp, Take, Boot, Crash

LEMMA StoreInvInit == Init => StoreInv
  BY InitTyped, InitManaged, InitConfig DEF StoreInv

LEMMA StoreInvStep == StoreInv /\ [Next]_vars => StoreInv'
<1> SUFFICES ASSUME StoreInv, [Next]_vars PROVE StoreInv'
  OBVIOUS
<1>1. Typed /\ Typed' /\ kind' = kind
  BY NextTyped, KindKept DEF StoreInv
<1>2. kind \in Managed => ManagedInv'
  BY <1>1, StepManaged DEF StoreInv
<1>3. kind = "config" /\ "console" \notin Clients => ConfigInv'
  BY <1>1, StepConfig DEF StoreInv
<1> QED BY <1>1, <1>2, <1>3 DEF StoreInv

\* StoreInv holds in every state: of the four stores, whatever their clients do
\* and wherever power is lost (argus_nvs_config.c, argus_security_store.c,
\* argus_security_directory.c, argus_machine_directory.c).
THEOREM StoreInvHolds == Spec => []StoreInv
  BY StoreInvInit, StoreInvStep, PTL DEF Spec

\* What submit_payload acknowledged is what a boot finds and what the
\* controller works with: in the stores that a writer task owns no other commit,
\* no failed commit and no crash undoes it, however many writes go wrong.
THEOREM AcknowledgedSurvives == Spec => [](kind \in Managed => NoLostUpdate)
<1>1. StoreInv => (kind \in Managed => NoLostUpdate)
  <2> SUFFICES ASSUME StoreInv, kind \in Managed PROVE NoLostUpdate
    OBVIOUS
  <2> QED BY DEF StoreInv, ManagedInv, ManagedBase, ManagedSettled, ManagedCore, NoLostUpdate
<1> QED BY <1>1, StoreInvHolds, PTL

\* Unless the diagnostic console writes the configuration, an identity whose
\* commit was acknowledged stays locked until a factory reset, across crashes
\* and any number of faulty writes (argus_nvs_core_init, prov_hwm).
THEOREM IdentityLocked == "console" \notin Clients => (Spec => []IdentityStaysLocked)
<1> SUFFICES ASSUME "console" \notin Clients PROVE Spec => []IdentityStaysLocked
  OBVIOUS
<1>1. StoreInv => IdentityStaysLocked
  <2> SUFFICES ASSUME StoreInv, kind = "config", acked.lock, ~flash.pending
               PROVE  BootReads(flash).payload.prov /\ (core.phase = "up" => core.payload.prov)
    BY DEF IdentityStaysLocked
  <2>1. /\ flash \in Flashes /\ flash.hwm /\ SelectedValid
        /\ core.phase = "up" => core.payload.prov
    BY DEF StoreInv, Typed, FlashTyped, ConfigInv, ConfigLock
  <2>2. NvsCoreInit(flash).payload.prov
    BY <2>1, ConfigReads DEF SelectedValid
  <2> QED BY <2>1, <2>2 DEF BootReads
<1> QED BY <1>1, StoreInvHolds, PTL

\* A store that has worked once is never refused by a later boot
\* (argus_security_store_core_init, argus_security_directory_init,
\* argus_machine_directory_select_for_test, argus_nvs_core_init).
THEOREM StoresBootAgain == Spec => []BootsAgain
<1>1. StoreInv => BootsAgain
  <2> SUFFICES ASSUME StoreInv, acked.booted PROVE BootReads(flash).ok
    BY DEF BootsAgain
  <2>1. Typed /\ flash \in Flashes /\ (kind = "config" \/ kind \in Managed)
    BY SlotStoreAssumption DEF StoreInv, Typed, FlashTyped, Managed
  <2>2. CASE kind = "config"
    BY <2>1, <2>2, ConfigReads DEF BootReads
  <2>3. CASE kind \in Managed
    <3>1. SelectedValid
      BY <2>3 DEF StoreInv, ManagedInv, ManagedBase, ManagedFlash
    <3> QED BY <2>1, <2>3, <3>1, ManagedReads DEF Found
  <2> QED BY <2>1, <2>2, <2>3
<1> QED BY <1>1, StoreInvHolds, PTL

\* The three stores that a writer task owns implement the atomic register: a
\* request that is taken proposes, the selector that is written takes effect,
\* the boot that opens the store settles, and every other step changes nothing.
THEOREM ManagedStoresAreRegisters == Spec /\ kind \in Managed => ImplementsRegister
<1>1. Init /\ kind \in Managed => Register!Init
  <2> SUFFICES ASSUME Init, kind \in Managed PROVE Register!Init
    OBVIOUS
  <2>1. Durable \in Payloads
    BY InitTyped, DurableTyped
  <2> QED BY <2>1 DEF Init, Register!Init
<1>2. StoreInv /\ StoreInv' /\ kind \in Managed /\ [Next]_vars
        => [Register!Next]_<<Durable, doubt>>
  <2> SUFFICES ASSUME StoreInv, StoreInv', kind \in Managed, [Next]_vars
               PROVE  [Register!Next]_<<Durable, doubt>>
    OBVIOUS
  <2>1. RegisterStep
    BY StepManaged DEF StoreInv
  <2> QED BY <2>1 DEF RegisterStep
<1>3. kind \in Managed /\ [Next]_vars => (kind \in Managed)'
  BY KindKept
<1> QED BY <1>1, <1>2, <1>3, StoreInvHolds, PTL DEF Spec, ImplementsRegister, Register!Spec
============================================================================
