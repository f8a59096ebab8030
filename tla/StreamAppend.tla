----------------------------- MODULE StreamAppend -----------------------------
(* Appends to one aggregate of the NATS event store: the direct append and the   *)
(* append session, which caches the histories it loads and is tied to one        *)
(* incarnation of the stream.  Writers race each other, transactions and their   *)
(* own requests that arrive late; acknowledgements are lost; an administrator    *)
(* recreates the stream, whose sequences then repeat.                            *)
EXTENDS Naturals, Sequences, FiniteSets, FiniteSetsExt, Functions

CONSTANTS
    Writers,
    Sessions,    \* the writers that append through a session
    Aggregates,
    Ops,         \* operation identities
    Contents,    \* what a batch of events may hold
    MaxLog,      \* capacity of the stream, in entries
    MaxEpoch,    \* bound of the model: incarnations of the stream
    MaxBatches   \* bound of the model: batches ever published

Receipt == "receipt"

AppendAssumption ==
    /\ Sessions \subseteq Writers /\ {MaxLog, MaxEpoch, MaxBatches} \subseteq Nat
    /\ IsFiniteSet(Aggregates) /\ Receipt \notin Aggregates

VARIABLES
    log,       \* the stream: the commits of aggregates, and receipts; positions are sequences
    epoch,     \* the stream's creation time
    delayed,   \* batches on their way whose sender gave up
    batches,   \* batch identities given out
    refused,   \* batches whose writer was told of a definite failure (history)
    writer     \* the append of each writer

vars == <<log, epoch, delayed, batches, refused, writer>>

\* from is the epoch the history was loaded in (history).
Unstarted ==
    [pc |-> "idle", agg |-> Receipt, op |-> "none", content |-> "none", expected |-> 0,
     incarnation |-> 0, from |-> 0, hist |-> <<>>, batch |-> 0, ack |-> 0, result |-> "none"]

Init ==
    /\ log = <<>> /\ epoch = 1 /\ delayed = {} /\ batches = 0 /\ refused = {}
    /\ writer = [w \in Writers |-> Unstarted]

-----------------------------------------------------------------------------
(* Reads. *)

Positions(a) == {i \in DOMAIN log : log[i].agg = a}

\* load_history: the commits of an aggregate by their sequences.
History(a) == [i \in Positions(a) |-> log[i]]

Versions(hist) == Cardinality(DOMAIN hist)
LastSequence(hist) == IF DOMAIN hist = {} THEN 0 ELSE Max(DOMAIN hist)

\* A transaction's receipt that writes the aggregate.
ReceiptWrites(op, a) == \E i \in DOMAIN log : log[i].agg = Receipt /\ log[i].op = op /\ a \in log[i].writes

-----------------------------------------------------------------------------
(* Steps of a writer. *)

At(w, pc) == writer[w].pc = pc

Move(w, next) == writer' = [writer EXCEPT ![w] = next]

\* Failures that say nothing was appended.
Definite == {"conflict", "identity", "capacity", "recreated"}

Answer(w, next, result) ==
    /\ Move(w, [Unstarted EXCEPT !.pc = "done", !.agg = next.agg, !.op = next.op, !.content = next.content,
                                 !.result = result])
    /\ refused' = IF result \in Definite THEN refused \cup {next.batch} ELSE refused

Begin(w, a, op, content, expected) ==
    /\ At(w, "idle") \/ At(w, "done")
    /\ Move(w, [Unstarted EXCEPT !.pc = "load", !.agg = a, !.op = op, !.content = content,
                                 !.expected = expected, !.incarnation = epoch])
    /\ UNCHANGED <<log, epoch, delayed, batches, refused>>

\* Any read may fail; the append then ends as unavailable.
ReadFails(w) ==
    /\ writer[w].pc \in {"load", "loaded", "fence", "receipt", "verify", "race", "race receipt"}
    /\ Answer(w, writer[w], "unavailable")
    /\ UNCHANGED <<log, epoch, delayed, batches>>

\* load_session_history, load_history: a session's caller decides on what it loaded.
Load(w) ==
    /\ At(w, "load")
    /\ LET hist == History(writer[w].agg)
       IN  Move(w, [writer[w] EXCEPT !.hist = hist, !.from = epoch,
                                     !.pc = IF w \in Sessions THEN "loaded" ELSE "receipt",
                                     !.expected = IF w \in Sessions THEN Versions(hist) ELSE @])
    /\ UNCHANGED <<log, epoch, delayed, batches, refused>>

SameIncarnation(w) == epoch = writer[w].incarnation

\* validate_incarnation, after the load and again before the append.
ValidateIncarnation(w, pc, next) ==
    /\ At(w, pc)
    /\ IF SameIncarnation(w) THEN Move(w, [writer[w] EXCEPT !.pc = next]) /\ UNCHANGED refused
       ELSE Answer(w, writer[w], "recreated")
    /\ UNCHANGED <<log, epoch, delayed, batches>>

\* resolve_existing
Existing(hist, op, content) ==
    LET same == {i \in DOMAIN hist : hist[i].op = op}
    IN  IF same = {} THEN "none"
        ELSE IF \E i \in same : ~hist[i].tx /\ hist[i].content = content THEN "replayed" ELSE "identity"

\* append_with_history up to the publication.
CheckAppend(w) ==
    /\ At(w, "receipt")
    /\ LET x == writer[w]
           existing == Existing(x.hist, x.op, x.content)
       IN  IF ReceiptWrites(x.op, x.agg) THEN Answer(w, x, "identity") /\ UNCHANGED batches
           ELSE IF existing # "none" THEN Answer(w, x, existing) /\ UNCHANGED batches
           ELSE IF x.expected # Versions(x.hist) THEN Answer(w, x, "conflict") /\ UNCHANGED batches
           ELSE /\ batches < MaxBatches
                /\ batches' = batches + 1
                /\ Move(w, [x EXCEPT !.pc = "publish", !.batch = batches + 1])
                /\ UNCHANGED refused
    /\ UNCHANGED <<log, epoch, delayed>>

Expectation(x) == LastSequence(x.hist)

\* The batch of an append: its events, versions and expectation.
Batch(x) ==
    [entry |-> [agg |-> x.agg, op |-> x.op, content |-> x.content, tx |-> FALSE, writes |-> {},
                ver |-> Versions(x.hist) + 1, batch |-> x.batch, from |-> x.from],
     expectation |-> Expectation(x)]

\* What the server compares with the aggregate's last sequence.
Current(b) == b.expectation = LastSequence(History(b.entry.agg))

HasCapacity == Len(log) < MaxLog

\* The server takes the batch, and the acknowledgement arrives or is lost.
PublishAccepted(w) ==
    /\ At(w, "publish") /\ Current(Batch(writer[w])) /\ HasCapacity
    /\ log' = Append(log, Batch(writer[w]).entry)
    /\ \/ Move(w, [writer[w] EXCEPT !.pc = "verify", !.ack = Len(log) + 1])
       \/ Move(w, [writer[w] EXCEPT !.pc = "race", !.ack = 0])
    /\ UNCHANGED <<epoch, delayed, batches, refused>>

\* The request is lost, or arrives after its sender gave up.
PublishUnanswered(w) ==
    /\ At(w, "publish")
    /\ delayed' \in {delayed, delayed \cup {Batch(writer[w])}}
    /\ Move(w, [writer[w] EXCEPT !.pc = "race"])
    /\ UNCHANGED <<log, epoch, batches, refused>>

\* A batch whose expectation is not current; an event the server still remembers
\* may be refused as a duplicate instead, which is no expectation failure.
PublishRejected(w) ==
    /\ At(w, "publish") /\ ~Current(Batch(writer[w]))
    /\ \E known \in {FALSE, \E i \in Positions(writer[w].agg) : log[i].op = writer[w].op} :
          Move(w, [writer[w] EXCEPT !.pc = "race", !.ack = IF known THEN 0 ELSE 1])
    /\ UNCHANGED <<log, epoch, delayed, batches, refused>>

PublishExhausted(w) ==
    /\ At(w, "publish") /\ ~HasCapacity
    /\ Answer(w, writer[w], "capacity")
    /\ UNCHANGED <<log, epoch, delayed, batches>>

\* resolve_expectation_race: the history, then the receipt.  ack is 1 after an
\* expectation failure and 0 after an answer that never came.
LoadRace(w) ==
    /\ At(w, "race")
    /\ Move(w, [writer[w] EXCEPT !.pc = "race receipt", !.hist = History(writer[w].agg)])
    /\ UNCHANGED <<log, epoch, delayed, batches, refused>>

\* Fault: what the reconciliation found replaces the original failure.
ReconciledPlainly(x, outcome) == outcome

\* Without an answer a conflict proves nothing: the original failure stands.
Reconciled(x, outcome) == IF x.ack = 0 /\ outcome = "conflict" THEN "unavailable" ELSE outcome

ResolveRace(w) ==
    /\ At(w, "race receipt")
    /\ LET x == writer[w]
           existing == Existing(x.hist, x.op, x.content)
       IN  Answer(w, x, Reconciled(x, IF ReceiptWrites(x.op, x.agg) THEN "identity"
                                      ELSE IF existing = "none" THEN "conflict" ELSE existing))
    /\ UNCHANGED <<log, epoch, delayed, batches>>

\* verify_published_commit: the first entry after the history is this batch, at
\* the acknowledged sequence.
Verify(w) ==
    /\ At(w, "verify")
    /\ LET x == writer[w]
           after == {i \in Positions(x.agg) : i > LastSequence(x.hist)}
           first == CHOOSE i \in after : \A j \in after : i <= j
       IN  Answer(w, x, IF after # {} /\ first = x.ack /\ log[first].batch = x.batch THEN "appended" ELSE "corrupt")
    /\ UNCHANGED <<log, epoch, delayed, batches>>

-----------------------------------------------------------------------------
(* The rest of the system. *)

\* A transaction over current histories that do not hold its operation.
Transaction(op, written) ==
    /\ written # {} /\ Len(log) + Cardinality(written) < MaxLog
    /\ \A i \in DOMAIN log : log[i].op = op => log[i].agg \notin written \cup {Receipt}
    /\ LET Commit(a) == [agg |-> a, op |-> op, content |-> "transaction", tx |-> TRUE, writes |-> {},
                         ver |-> Versions(History(a)) + 1, batch |-> 0, from |-> epoch]
           receipt == [agg |-> Receipt, op |-> op, content |-> "transaction", tx |-> TRUE, writes |-> written,
                       ver |-> 0, batch |-> 0, from |-> epoch]
       IN  \E order \in Bijection(1..Cardinality(written), written) :
              log' = log \o Append([i \in DOMAIN order |-> Commit(order[i])], receipt)
    /\ UNCHANGED <<epoch, delayed, batches, refused, writer>>

Arrives(b) ==
    /\ delayed' = delayed \ {b}
    /\ log' = IF Current(b) /\ HasCapacity THEN Append(log, b.entry) ELSE log
    /\ UNCHANGED <<epoch, batches, refused, writer>>

\* The stream is deleted and created again, with publications drained; sessions
\* and their histories may still be around.
Recreate ==
    /\ epoch < MaxEpoch /\ delayed = {}
    /\ \A w \in Writers : \/ writer[w].pc \in {"idle", "done"}
                          \/ w \in Sessions /\ writer[w].pc \in {"load", "loaded", "fence"}
    /\ epoch' = epoch + 1 /\ log' = <<>>
    /\ UNCHANGED <<delayed, batches, refused, writer>>

Next ==
    \/ \E w \in Writers :
          \/ \E a \in Aggregates, op \in Ops, content \in Contents, expected \in 0..1 : Begin(w, a, op, content, expected)
          \/ ReadFails(w) \/ Load(w)
          \/ ValidateIncarnation(w, "loaded", "fence") \/ ValidateIncarnation(w, "fence", "receipt")
          \/ CheckAppend(w)
          \/ PublishAccepted(w) \/ PublishUnanswered(w) \/ PublishRejected(w) \/ PublishExhausted(w)
          \/ LoadRace(w) \/ ResolveRace(w) \/ Verify(w)
    \/ \E op \in Ops, written \in SUBSET Aggregates : Transaction(op, written)
    \/ \E b \in delayed : Arrives(b)
    \/ Recreate

Spec == Init /\ [][Next]_vars

-----------------------------------------------------------------------------
(* Properties. *)

\* A batch whose writer was told of a conflict, of a reused identity, of exhausted
\* capacity or of a recreated stream is not in the stream and never gets there.
RefusedIsAbsent == \A i \in DOMAIN log : log[i].batch = 0 \/ log[i].batch \notin refused
===============================================================================
