----------------------------- MODULE StoredHistory -----------------------------
(* How the NATS event store lays commits and transactions out in its stream, and *)
(* how a history read, an audit and a directory listing rebuild them from there  *)
(* while more is appended.  Messages may have been removed, republished or       *)
(* altered since: what a read then accepts is what this module is about.         *)
EXTENDS Integers, Sequences, FiniteSets, SequencesExt, FiniteSetsExt

CONSTANTS
    Aggregates,
    Listed,      \* the aggregates of the type a directory listing asks for
    MaxEvents,   \* bound of the model: events of one aggregate in one commit
    MaxBatches,  \* bound of the model: atomic batches ever appended
    MaxDamage    \* bound of the model: messages tampered with

HistoryAssumption == Listed \subseteq Aggregates /\ MaxEvents \in Nat \ {0}

VARIABLES
    log,        \* the messages in the stream; seq is JetStream's sequence
    last,       \* the stream's last sequence
    committed,  \* what was appended to each aggregate: operation and ordinal (history)
    batches,    \* the messages each operation appended (history)
    damage,     \* how many messages have been tampered with (history)
    reader      \* the read in progress

vars == <<log, last, committed, batches, damage, reader>>

None == -1

Idle == [pc |-> "idle", kind |-> "load", agg |-> "none", cut |-> 0, raw |-> <<>>, expect |-> <<>>, result |-> "none"]

Init ==
    /\ log = {} /\ last = 0 /\ damage = 0 /\ batches = <<>>
    /\ committed = [a \in Aggregates |-> <<>>]
    /\ reader = Idle

-----------------------------------------------------------------------------
(* What the writer publishes. *)

LastOf(a) == Max({0} \cup {m.seq : m \in {x \in log : x.kind = "event" /\ x.agg = a}})

\* Items of a batch become messages: sequence and batch coordinates by position,
\* the expected stream on the first, the commit header on the last.
Published(items, batch) ==
    [i \in 1..Len(items) |->
        items[i] @@ [seq |-> last + i, batch |-> batch, bseq |-> i, stream |-> i = 1, final |-> i = Len(items),
                     sum |-> TRUE]]

\* record_batch: versions go on from the aggregate's last.
VersionOf(a, i) == Len(committed[a]) + i

EventItems(a, op, count, tx, before, total) ==
    [i \in 1..count |->
        [kind |-> "event", agg |-> a, op |-> op, ver |-> VersionOf(a, i), ord |-> i - 1, cnt |-> count, tx |-> tx,
         tord |-> before + i - 1, tcnt |-> total, expect |-> IF i = 1 THEN LastOf(a) ELSE None]]

Sum(counts) == FoldLeft(LAMBDA x, y : x + y, 0, counts)

Counts(parts) == [i \in 1..Len(parts) |-> parts[i].count]

Before(parts, i) == Sum(Counts(SubSeq(parts, 1, i - 1)))

Receipt(op, parts) ==
    [kind |-> "receipt", op |-> op, expect |-> 0,
     parts |-> [i \in 1..Len(parts) |-> [agg |-> parts[i].agg, count |-> parts[i].count,
                                         base |-> Len(committed[parts[i].agg])]]]

\* Events of the writers, a guard per reader, then the receipt.
TransactionItems(op, parts) ==
    LET total == Sum(Counts(parts))
        readers == SelectSeq(parts, LAMBDA p : p.count = 0)
        events == FoldLeft(LAMBDA acc, i : acc \o EventItems(parts[i].agg, op, parts[i].count, TRUE, Before(parts, i), total),
                           <<>>, [i \in 1..Len(parts) |-> i])
        guards == [g \in 1..Len(readers) |->
                      [kind |-> "guard", agg |-> readers[g].agg, op |-> op, idx |-> g - 1, expect |-> LastOf(readers[g].agg)]]
    IN  events \o guards \o <<Receipt(op, parts)>>

\* A writer first reads what it appends to; the model's writers stop at the first
\* damage, which may have cut what they would build on.
Publish(items, op, added) ==
    /\ Len(batches) < MaxBatches /\ damage = 0
    /\ LET messages == Published(items, op)
       IN  log' = log \cup Range(messages) /\ batches' = Append(batches, Range(messages))
    /\ last' = last + Len(items)
    /\ committed' = [a \in Aggregates |-> committed[a] \o [i \in 1..added[a] |-> [op |-> op, ord |-> i - 1]]]
    /\ UNCHANGED <<damage, reader>>

\* The next operation; its batch identity is as fresh.
Op == Len(batches) + 1

AppendCommit(a, count) ==
    Publish(EventItems(a, Op, count, FALSE, 0, count), Op, [b \in Aggregates |-> IF b = a THEN count ELSE 0])

AppendTransaction(parts) ==
    Publish(TransactionItems(Op, parts), Op,
            [b \in Aggregates |-> Sum(Counts(SelectSeq(parts, LAMBDA p : p.agg = b)))])

-----------------------------------------------------------------------------
(* Damage, with no read in progress. *)

Tamper(next) ==
    /\ damage < MaxDamage /\ reader.pc \in {"idle", "done"}
    /\ log' = next
    /\ damage' = damage + 1
    /\ UNCHANGED <<committed, batches, reader>>

Purge(m) == Tamper(log \ {m}) /\ UNCHANGED last

Republish(m) == Tamper(log \cup {[m EXCEPT !.seq = last + 1]}) /\ last' = last + 1

Rewrite(m, n) == Tamper((log \ {m}) \cup {n}) /\ UNCHANGED last

\* The payload no longer has its checksum, or a header another value.
Alter(m) ==
    \/ Rewrite(m, [m EXCEPT !.sum = FALSE])
    \/ Rewrite(m, [m EXCEPT !.bseq = @ + 1])
    \/ Rewrite(m, [m EXCEPT !.batch = 0])
    \/ Rewrite(m, [m EXCEPT !.expect = @ + 1])
    \/ Rewrite(m, [m EXCEPT !.final = ~@])

-----------------------------------------------------------------------------
(* Decoding and rebuilding one aggregate's history. *)

\* validate_atomic_headers: the headers against the envelope's coordinates.
HeadersHold(m) ==
    /\ m.bseq = m.tord + 1
    /\ IF m.ord = 0 THEN (m.tord = 0 <=> m.stream) /\ m.expect # None ELSE ~m.stream /\ m.expect = None
    /\ m.final <=> (~m.tx /\ m.ord + 1 = m.cnt)

Decodes(m) == m.sum /\ HeadersHold(m)

NewBuilder == [ok |-> TRUE, ver |-> 0, end |-> 0, pending |-> <<>>, commits |-> <<>>]

\* PendingCommit::push: the next event of the same commit.
Continues(pending, m) ==
    LET first == pending[1]
    IN  /\ m.ord = Len(pending) /\ m.cnt = first.cnt /\ m.batch = first.batch /\ m.op = first.op
        /\ m.tx = first.tx /\ (m.tx => m.tcnt = first.tcnt /\ m.tord = first.tord + m.ord)

\* PendingCommit::finish: one stretch of the stream, inside its transaction.
Contiguous(commit) ==
    /\ \A i \in DOMAIN commit : commit[i].seq = commit[1].seq + i - 1
    /\ commit[1].tx => commit[1].seq > commit[1].tord

\* PendingCommit::new: a transaction's commit lies within its events.
Opens(b, m) == b.pending = <<>> /\ (m.tx => m.tord + m.cnt <= m.tcnt)

Joins(b, m) == b.pending # <<>> /\ Continues(b.pending, m)

\* Fault: commits are taken in stream order, whatever they were appended to.
FitsLoosely(b, m) == IF m.ord = 0 THEN b.pending = <<>> ELSE Joins(b, m)

\* The next version; and a new commit's expectation is where the previous one of
\* this aggregate ended, under an operation that committed nothing here yet.
Fits(b, m) ==
    /\ m.ver = b.ver + 1
    /\ IF m.ord # 0 THEN Joins(b, m)
       ELSE /\ Opens(b, m) /\ m.expect = b.end
            /\ \A i \in DOMAIN b.commits : b.commits[i][1].op # m.op

\* HistoryBuilder::push; a commit is finished by its last event.
Push(b, m) ==
    LET grown == Append(b.pending, m)
    IN  IF ~(b.ok /\ Decodes(m) /\ Fits(b, m)) THEN [b EXCEPT !.ok = FALSE]
        ELSE IF Len(grown) < m.cnt THEN [b EXCEPT !.ver = m.ver, !.pending = grown]
        ELSE [b EXCEPT !.ok = Contiguous(grown), !.ver = m.ver, !.end = m.seq, !.pending = <<>>,
                       !.commits = Append(@, grown)]

EventsThrough(a, cut) ==
    SetToSortSeq({m \in log : m.kind = "event" /\ m.agg = a /\ m.seq <= cut}, LAMBDA x, y : x.seq < y.seq)

Whole(b) == b.ok /\ b.pending = <<>>

\* load_raw_history_through: no events make an empty history.
Load(a, cut) == FoldLeft(Push, NewBuilder, EventsThrough(a, cut))

\* Where the event of a version is in the stream.
SequenceAt(b, version) ==
    IF version = 0 THEN 0
    ELSE LET events == FlattenSeq(b.commits) IN IF version \in DOMAIN events THEN events[version].seq ELSE None

-----------------------------------------------------------------------------
(* The audit of transactions. *)

Items(parts) == Sum([i \in DOMAIN parts |-> IF parts[i].count = 0 THEN 1 ELSE parts[i].count])

\* decode_transaction_receipt
ReceiptDecodes(m) ==
    /\ m.sum /\ m.final /\ m.expect = 0
    /\ m.stream <=> m.bseq = 1
    /\ m.bseq = Items(m.parts) + 1

\* The last message on the operation's receipt subject, if it is a receipt.
Receipts(op) ==
    LET found == {m \in log : m.kind = "receipt" /\ m.op = op}
    IN  {m \in found : (\A n \in found : n.seq <= m.seq) /\ ReceiptDecodes(m)}

Start(r) == r.seq - (r.bseq - 1)

\* materialize_transaction_participant, of a participant that wrote.
WriterMatches(r, i, history) ==
    LET p == r.parts[i]
        ordinal == Before(r.parts, i)
    IN  \E c \in Range(history.commits) :
            /\ c[1].ver = p.base + 1 /\ Len(c) = p.count
            /\ c[1].op = r.op /\ c[1].tx /\ c[1].batch = r.batch
            /\ c[1].tord = ordinal /\ c[1].tcnt = Sum(Counts(r.parts))
            /\ c[1].seq = Start(r) + ordinal

\* verify_transaction_guard, of a participant that was only read.
GuardMatches(r, i, history) ==
    LET p == r.parts[i]
        ordinal == Len(SelectSeq(SubSeq(r.parts, 1, i - 1), LAMBDA q : q.count = 0))
        slot == Sum(Counts(r.parts)) + ordinal
    IN  /\ p.base <= history.ver
        /\ \E g \in log : /\ g.kind = "guard" /\ g.seq = Start(r) + slot /\ g.idx = ordinal
                          /\ g.op = r.op /\ g.batch = r.batch /\ g.bseq = slot + 1
                          /\ (g.stream <=> slot = 0) /\ ~g.final /\ g.sum
                          /\ g.agg = p.agg /\ g.expect = SequenceAt(history, p.base)

\* load_cached_raw_history: what the read already holds, else the participant
\* through the cutoff.
Cached(raw, a, cut) == IF a \in DOMAIN raw THEN raw[a] ELSE Load(a, cut)

\* materialize_transaction_receipt
Materializes(r, raw, cut) ==
    /\ Start(r) > 0
    /\ \A i \in DOMAIN r.parts :
          LET history == Cached(raw, r.parts[i].agg, cut)
          IN  Whole(history) /\ (IF r.parts[i].count = 0 THEN GuardMatches(r, i, history) ELSE WriterMatches(r, i, history))

\* load_transaction_first_stream: the batch starts with the transaction's first event.
FirstPresent(c) ==
    c[1].tord # 0 =>
        \E m \in log : /\ m.seq = c[1].seq - c[1].tord /\ m.kind = "event"
                       /\ Decodes(m) /\ m.tx /\ m.batch = c[1].batch /\ m.op = c[1].op
                       /\ m.tord = 0 /\ m.tcnt = c[1].tcnt

\* transaction_receipt_covers_commit
Covers(r, c) ==
    /\ c[1].batch = r.batch /\ c[1].op = r.op /\ c[1].tcnt = Sum(Counts(r.parts))
    /\ c[1].seq - c[1].tord = Start(r)
    /\ \E p \in Range(r.parts) : p.agg = c[1].agg /\ p.base + 1 = c[1].ver /\ p.count = Len(c)

\* validate_transaction_history
Audited(raw, a, cut) ==
    \A c \in Range(raw[a].commits) :
        c[1].tx => FirstPresent(c) /\ \E r \in Receipts(c[1].op) : Covers(r, c) /\ Materializes(r, raw, cut)

-----------------------------------------------------------------------------
(* Reads. *)

\* The cutoff is the aggregate's last message, or for a listing the stream's.
ReadBegin(kind, a) ==
    /\ reader.pc = "idle"
    /\ reader' = [Idle EXCEPT !.pc = "raw", !.kind = kind, !.agg = a,
                              !.cut = IF kind \in {"load", "audit"} THEN LastOf(a) ELSE last,
                              !.expect = committed]
    /\ UNCHANGED <<log, last, committed, batches, damage>>

Asked == IF reader.kind \in {"load", "audit"} THEN {reader.agg} ELSE Listed

\* A listing decodes every aggregate's events on its way.
Readable ==
    /\ \A a \in Asked : Whole(Load(a, reader.cut))
    /\ reader.kind \in {"list", "auditlist"} =>
          \A m \in log : m.kind = "event" /\ m.seq <= reader.cut => Decodes(m)

ReadRaw ==
    /\ reader.pc = "raw"
    /\ reader' = IF ~Readable THEN [reader EXCEPT !.pc = "done", !.result = "corrupt"]
                 ELSE [reader EXCEPT !.raw = [a \in Asked |-> Load(a, reader.cut)],
                                     !.pc = IF reader.kind \in {"load", "list"} THEN "done" ELSE "audit",
                                     !.result = IF reader.kind \in {"load", "list"} THEN "ok" ELSE "none"]
    /\ UNCHANGED <<log, last, committed, batches, damage>>

\* A listing shares its cutoff with the participants it loads; a single audit
\* reads them as they are by now.
ParticipantCutoff == IF reader.kind = "auditlist" THEN reader.cut ELSE last

ReadAudit ==
    /\ reader.pc = "audit"
    /\ reader' = [reader EXCEPT !.pc = "done",
                                !.result = IF \A a \in Asked : Audited(reader.raw, a, ParticipantCutoff)
                                           THEN "ok" ELSE "corrupt"]
    /\ UNCHANGED <<log, last, committed, batches, damage>>

ReadAgain ==
    /\ reader.pc = "done"
    /\ reader' = Idle
    /\ UNCHANGED <<log, last, committed, batches, damage>>

Parts ==
    LET part == [agg : Aggregates, count : 0..1]
    IN  {s \in {<<p>> : p \in part} \cup (part \X part) : Len(s) = 2 => s[1].agg # s[2].agg}

Next ==
    \/ \E a \in Aggregates, count \in 1..MaxEvents : AppendCommit(a, count)
    \/ \E parts \in Parts : AppendTransaction(parts)
    \/ \E m \in log : Purge(m) \/ Republish(m) \/ Alter(m)
    \/ \E kind \in {"load", "audit", "list", "auditlist"}, a \in Aggregates : ReadBegin(kind, a)
    \/ ReadRaw \/ ReadAudit \/ ReadAgain

Spec == Init /\ [][Next]_vars

-----------------------------------------------------------------------------
(* Properties. *)

Identities(b) == [i \in DOMAIN FlattenSeq(b.commits) |-> [op |-> FlattenSeq(b.commits)[i].op, ord |-> FlattenSeq(b.commits)[i].ord]]

\* Whatever was done to the stream, a history that is accepted, audited or not,
\* is a beginning of what was appended, and ends with a whole commit.
AcceptedIsTrue ==
    reader.pc = "done" /\ reader.result = "ok" =>
        \A a \in Asked :
            LET read == Identities(reader.raw[a])
                real == reader.expect[a]
            IN  /\ IsPrefix(read, real)
                /\ Len(read) < Len(real) => real[Len(read) + 1].ord = 0
===============================================================================
