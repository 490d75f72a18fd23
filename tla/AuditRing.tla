----------------------------- MODULE AuditRing -----------------------------
(***************************************************************************)
(* The ring of argus_security_audit.c: Capacity records in Capacity + 1    *)
(* slots of flash, so that a record is always written to a slot that the   *)
(* current metadata does not count, and becomes part of the log with the   *)
(* write of the new metadata.                                              *)
(***************************************************************************)
EXTENDS Naturals, Sequences, SequencesExt

CONSTANT Capacity    \* ARGUS_AUDIT_CAPACITY

ASSUME AuditRingAssumption == Capacity \in Nat \ {0}

Slots == 0..Capacity
NoRecord == [seq |-> 0, outcome |-> "none", life |-> 0]

EmptyMeta == [next |-> 1, count |-> 0, oldest |-> 0, spare |-> 0]

\* argus_security_audit_init refuses metadata that is not like this.
MetaValid(meta) ==
    meta.next # 0 /\ meta.count <= Capacity /\ meta.oldest \in Slots /\ meta.spare \in Slots

\* lifecycle_id has 16 bits: append_locked folds the record's 64-bit number into
\* them and makes 1 of 0.  Up to this many records of a device the fold is the
\* number itself; 65536 and 65537 both become 1 again.
MaxLifecycleId == 65535

\* The record append_locked makes of a request: a prepared record gives its own
\* number, at most MaxLifecycleId, to the mutation it opens.
Stamped(meta, request) ==
    [seq |-> meta.next, outcome |-> request.outcome,
     life |-> IF request.outcome = "prepared" THEN meta.next ELSE request.life]

\* A plausible slip: the next record goes where the oldest one counted is.
NextMetaMutant(meta) ==
    IF meta.count < Capacity
    THEN [meta EXCEPT !.next = @ + 1, !.count = @ + 1,
                      !.spare = (@ + 1) % (Capacity + 1)]
    ELSE [meta EXCEPT !.next = @ + 1, !.oldest = (@ + 1) % (Capacity + 1),
                      !.spare = (meta.oldest + 1) % (Capacity + 1)]

NextMeta(meta) ==
    IF meta.count < Capacity
    THEN [meta EXCEPT !.next = @ + 1, !.count = @ + 1,
                      !.spare = (@ + 1) % (Capacity + 1)]
    ELSE [meta EXCEPT !.next = @ + 1, !.oldest = (@ + 1) % (Capacity + 1),
                      !.spare = meta.oldest]

ReadSlot(ring, meta, offset) == ring[(meta.oldest + offset) % (Capacity + 1)]

\* argus_security_audit_read_page: the records before a cursor, newest first; 0
\* starts at the end.  more says that the page is not the last one.
ReadPage(ring, meta, before, limit) ==
    LET boundary == IF before = 0 THEN meta.next ELSE before
        newest == [i \in 1..meta.count |-> ReadSlot(ring, meta, meta.count - i)]
        older == SelectSeq(newest, LAMBDA r : r.seq < boundary)
        more == Len(older) > limit
        records == SubSeq(older, 1, IF more THEN limit ELSE Len(older))
    IN  [records |-> records, more |-> more,
         next |-> IF more THEN Last(records).seq ELSE 0]

\* What a reader who follows next_before from page to page is shown.
AllPages(ring, meta, limit) ==
    LET from[before \in 0..meta.next] ==
            LET page == ReadPage(ring, meta, before, limit)
            IN  page.records \o (IF page.more THEN from[page.next] ELSE <<>>)
    IN  from[0]

=============================================================================
