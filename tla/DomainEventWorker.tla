--------------------------- MODULE DomainEventWorker ---------------------------
(* Replicas of one domain-event subscriber share a durable pull consumer over    *)
(* the journal.  A committed transaction's first event stands for all of its     *)
(* work: its acknowledgement certifies that every handler of the transaction     *)
(* succeeded, and the later events only drain the durable, on whichever worker.  *)
(*                                                                               *)
(* A journal position is a stream sequence.  The server redelivers the pending   *)
(* event whenever its acknowledgement wait ran out, also while the worker that   *)
(* received it first is still handling it.                                       *)
EXTENDS Naturals, Sequences, FiniteSets

CONSTANTS
    Workers,    \* replicas of the subscriber
    Prior,      \* the journal when the durable was created
    Migrated,   \* start_sequence - 1 of a migrated durable, 0 without one
    MaxBatch,   \* events of one transaction
    MaxJournal  \* bound of the model: messages of the journal

\* A stored message: an event with the start and length of its transaction, or a
\* receipt or guard, which the durable's subject filter leaves out.
Other == [start |-> 0, count |-> 0]
Messages == [start : 0..MaxJournal, count : 0..MaxBatch]
IsEvent(j, n) == n \in 1..Len(j) /\ j[n].start > 0

\* Every transaction of j is contiguous and complete.
WellFormed(j) ==
    \A n \in 1..Len(j) : IsEvent(j, n) =>
        /\ j[n].start <= n /\ n < j[n].start + j[n].count
        /\ j[n].start + j[n].count <= Len(j) + 1
        /\ \A k \in j[n].start..(j[n].start + j[n].count - 1) : j[k] = j[n]

\* A migration saves the confirmed sequence of stopped workers.
ASSUME PriorAssumption ==
    /\ Prior \in Seq(Messages) /\ WellFormed(Prior) /\ Len(Prior) <= MaxJournal
    /\ Migrated \in 0..Len(Prior)
    /\ \A n \in 1..Migrated : IsEvent(Prior, n) => Prior[n].start + Prior[n].count <= Migrated + 1
ASSUME SizeAssumption == MaxBatch \in Nat \ {0} /\ MaxJournal \in Nat

PCs == {"idle", "received", "inspected", "located", "handling", "done", "failed", "invalid"}

VARIABLES
    journal,  \* the journal stream
    pending,  \* the durable's one unacknowledged delivery, 0 without one
    floor,    \* the durable's acknowledgement floor
    handled,  \* positions whose handlers have run at least once
    calm,     \* the environment has stopped failing
    pc,       \* where each worker is
    msg,      \* the position each worker was delivered
    seen,     \* the acknowledgement floor it inspected
    next      \* the position whose handlers it runs next

durable == <<pending, floor>>
local == <<msg, seen, next>>
vars == <<journal, pending, floor, handled, calm, pc, msg, seen, next>>

Events == {n \in 1..Len(journal) : IsEvent(journal, n)}
Transaction(n) == journal[n].start..(journal[n].start + journal[n].count - 1)

\* n is the first event after position f.
IsFirstAfter(n, f) == n \in Events /\ n > f /\ \A m \in Events : m > f => n <= m

Init ==
    /\ journal = Prior
    /\ pending = 0
    /\ floor = 0
    /\ handled = {n \in 1..Migrated : IsEvent(Prior, n)}
    /\ calm = FALSE
    /\ pc = [w \in Workers |-> "idle"]
    /\ msg = [w \in Workers |-> 0]
    /\ seen = [w \in Workers |-> 0]
    /\ next = [w \in Workers |-> 0]

Goto(w, l) == pc' = [pc EXCEPT ![w] = l]

\* One atomic batch of the event store: c events, then k receipts or guards.
Commit(c, k) ==
    LET event == [start |-> Len(journal) + 1, count |-> c] IN
    /\ c + k > 0
    /\ Len(journal) + c + k <= MaxJournal
    /\ journal' = journal \o [i \in 1..(c + k) |-> IF i <= c THEN event ELSE Other]
    /\ UNCHANGED <<durable, handled, calm, pc, local>>

-----------------------------------------------------------------------------
(* The durable consumer: explicit acknowledgement, one pending delivery. *)

\* The confirmed progress: a migrated durable starts after its saved sequence.
Position == IF floor > Migrated THEN floor ELSE Migrated

\* A pull gets the pending event again, or the next one when none is pending.
Deliver(w, n) ==
    /\ pc[w] = "idle"
    /\ IF pending = 0 THEN IsFirstAfter(n, Position) ELSE n = pending
    /\ pending' = n
    /\ msg' = [msg EXCEPT ![w] = n]
    /\ Goto(w, "received")
    /\ UNCHANGED <<journal, floor, handled, calm, seen, next>>

-----------------------------------------------------------------------------
(* process_event. *)

\* Fault: the floor of a migrated durable is taken as the server reports it.
FloorReported == floor

\* The acknowledgement floor a worker computes from the durable's information.
AckFloor == IF floor > Migrated THEN floor ELSE Migrated

\* Fault: delivered progress is taken for confirmed progress.
InspectDelivered(w) ==
    /\ pc[w] = "received"
    /\ seen' = [seen EXCEPT ![w] = pending]
    /\ Goto(w, IF msg[w] <= pending \/ journal[msg[w]].start <= pending THEN "done" ELSE "inspected")
    /\ UNCHANGED <<journal, durable, handled, calm, msg, next>>

\* Fault: the first event's acknowledgement does not stand for the tail.
InspectEachEvent(w) ==
    /\ pc[w] = "received"
    /\ seen' = [seen EXCEPT ![w] = AckFloor]
    /\ Goto(w, IF msg[w] <= AckFloor THEN "done" ELSE "inspected")
    /\ UNCHANGED <<journal, durable, handled, calm, msg, next>>

\* Confirmed before, or the tail of a confirmed transaction: only acknowledge.
Inspect(w) ==
    /\ pc[w] = "received"
    /\ seen' = [seen EXCEPT ![w] = AckFloor]
    /\ Goto(w, IF msg[w] <= AckFloor \/ journal[msg[w]].start <= AckFloor
               THEN "done" ELSE "inspected")
    /\ UNCHANGED <<journal, durable, handled, calm, msg, next>>

\* Only the earliest unresolved event may drive effects.
Locate(w) ==
    /\ pc[w] = "inspected"
    /\ Goto(w, IF IsFirstAfter(msg[w], seen[w]) THEN "located" ELSE "failed")
    /\ UNCHANGED <<journal, durable, handled, calm, local>>

\* The transaction is read from history and checked against its receipt; an
\* event that is not its first one is refused as an invalid history.
Reconstruct(w) ==
    /\ pc[w] = "located"
    /\ IF journal[msg[w]].start = msg[w]
       THEN Goto(w, "handling") /\ next' = [next EXCEPT ![w] = msg[w]]
       ELSE Goto(w, "invalid") /\ UNCHANGED next
    /\ UNCHANGED <<journal, durable, handled, calm, msg, seen>>

\* Fault: the transaction is certified after its first event.
DispatchFirstOnly(w) ==
    /\ pc[w] = "handling"
    /\ handled' = handled \cup {next[w]}
    /\ Goto(w, "done")
    /\ UNCHANGED <<journal, durable, calm, local>>

\* handle_transaction: the handlers of one event succeed.
Dispatch(w) ==
    /\ pc[w] = "handling"
    /\ handled' = handled \cup {next[w]}
    /\ IF next[w] + 1 < journal[msg[w]].start + journal[msg[w]].count
       THEN next' = [next EXCEPT ![w] = @ + 1] /\ UNCHANGED pc
       ELSE Goto(w, "done") /\ UNCHANGED next
    /\ UNCHANGED <<journal, durable, calm, msg, seen>>

\* acknowledge_delivery: an event that is no longer pending is ignored.
Acknowledge(w) ==
    /\ pc[w] = "done"
    /\ IF msg[w] = pending THEN floor' = pending /\ pending' = 0 ELSE UNCHANGED durable
    /\ Goto(w, "idle")
    /\ UNCHANGED <<journal, handled, calm, local>>

\* defer_delivery: a negative acknowledgement only brings redelivery forward.
Defer(w) ==
    /\ pc[w] = "failed"
    /\ Goto(w, "idle")
    /\ UNCHANGED <<journal, durable, handled, calm, local>>

\* A call is unavailable, a handler fails or the processing timeout elapses,
\* whether or not the handlers of the current event have had their effect.
Fail(w) ==
    /\ ~calm
    /\ pc[w] \in {"received", "inspected", "located", "handling"}
    /\ \/ UNCHANGED handled
       \/ pc[w] = "handling" /\ handled' = handled \cup {next[w]}
    /\ Goto(w, "failed")
    /\ UNCHANGED <<journal, durable, calm, local>>

\* The worker ends or its process dies, and is started again.
Abort(w) ==
    /\ ~calm
    /\ pc[w] # "idle"
    /\ Goto(w, "idle")
    /\ UNCHANGED <<journal, durable, handled, calm, local>>

\* The environment stops failing; only progress depends on it.
Calm ==
    /\ ~calm
    /\ calm' = TRUE
    /\ UNCHANGED <<journal, durable, handled, pc, local>>

-----------------------------------------------------------------------------
Step(w) ==
    \/ Inspect(w) \/ Locate(w) \/ Reconstruct(w) \/ Dispatch(w)
    \/ Acknowledge(w) \/ Defer(w)

Next ==
    \/ \E c \in 0..MaxBatch, k \in 0..1 : Commit(c, k)
    \/ \E w \in Workers : Step(w) \/ Fail(w) \/ Abort(w) \/ \E n \in 1..Len(journal) : Deliver(w, n)
    \/ Calm

Spec == Init /\ [][Next]_vars

\* Workers keep polling and the server keeps delivering; failures end.
Fairness ==
    /\ WF_vars(Calm)
    /\ \A w \in Workers : WF_vars(Step(w))
    /\ WF_vars(\E w \in Workers, n \in 1..Len(journal) : Deliver(w, n))

FairSpec == Spec /\ Fairness

-----------------------------------------------------------------------------
(* Properties. *)

\* Every variable has its type; handlers run for events only.
TypeOK ==
    /\ journal \in Seq(Messages)
    /\ Len(journal) <= MaxJournal
    /\ pending \in {0} \cup Events
    /\ floor \in {0} \cup Events
    /\ handled \subseteq Events
    /\ calm \in BOOLEAN
    /\ pc \in [Workers -> PCs]
    /\ msg \in [Workers -> {0} \cup Events]
    /\ seen \in [Workers -> 0..MaxJournal]
    /\ next \in [Workers -> {0} \cup Events]

\* Progress certifies work: once an event is confirmed, by whichever worker, the
\* handlers of its whole transaction have run, its tail's included.
ConfirmedWasHandled ==
    \A n \in Events : n <= Position => Transaction(n) \subseteq handled

\* First effects happen in journal order: however deliveries overlap and
\* workers die, no event is handled before every earlier one has been.
EffectsInOrder == \A n \in handled : \A m \in Events : m < n => m \in handled

\* No worker mistakes a sound history for an invalid one: the tail of a
\* transaction is never taken for its beginning.
HistoryAccepted == \A w \in Workers : pc[w] # "invalid"

\* Every committed event is eventually confirmed.
EventuallyConfirmed ==
    \A n \in 1..MaxJournal : n \in Events ~> n <= Position
===============================================================================
