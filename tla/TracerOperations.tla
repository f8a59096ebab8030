--------------------------- MODULE TracerOperations ---------------------------
(* The tracer's operations: a submitted command becomes a record in a bounded    *)
(* table and a task that carries it to the transport; a second task watches the  *)
(* first for panics and cancellation.  Test operations run inside a scenario     *)
(* that a reset replaces, and a test run holds the run gate from its reset to    *)
(* its report.  Any client may disappear at any point where it waits.            *)
EXTENDS Naturals, Sequences, FiniteSets

CONSTANTS
    Clients,
    Keys,           \* idempotency keys
    MaxOperations,  \* maximum_operations
    Permits,        \* maximum_concurrent_operations, for test and for dispatch
    MaxRecords,     \* bound of the model: operations ever recorded
    MaxGeneration   \* bound of the model: resets begun

OperationsAssumption == {MaxOperations, Permits} \subseteq Nat \ {0}

VARIABLES
    recs,        \* every OperationRecord ever made, in order
    table,       \* the records in the table, by their indexes
    order,       \* insertion_order: the queue that looks for one to evict
    generation,  \* test_generation
    healthy,     \* test_scenario_healthy
    gate,        \* the holders of test_run_gate
    clients      \* what each client is doing

listing == <<table, order>>
vars == <<recs, table, order, generation, healthy, gate, clients>>

Terminal == {"completed", "failed", "indeterminate"}

NewRecord(id) ==
    [id |-> id, status |-> "queued", published |-> FALSE, marked |-> FALSE,
     handle |-> FALSE, aborted |-> FALSE, task |-> "none", observed |-> FALSE, unobservable |-> FALSE,
     open |-> TRUE, results |-> <<>>]

Away == [pc |-> "idle", goal |-> "none", op |-> 0]

Init ==
    /\ recs = <<>> /\ table = {} /\ order = <<>>
    /\ generation = 1 /\ healthy = TRUE /\ gate = {}
    /\ clients = [c \in Clients |-> Away]

Live(r) == recs[r].task \notin {"none", "dropped", "watched", "done"}

Leased(r) == \E c \in Clients : clients[c].op = r /\ clients[c].pc \in {"evaluating", "aborting"}

\* A test operation's task holds the scenario for reading until it ends.
HoldsScenario(r) == Live(r) /\ recs[r].id.mode = "test"

-----------------------------------------------------------------------------
(* Submission. *)

\* Fault: a record may leave before its result reached the correlation.
EvictableEarly(r) == recs[r].status \in Terminal

IsEvictable(r) == recs[r].status \in Terminal /\ recs[r].marked

Identity(mode, key) == [mode |-> mode, gen |-> IF mode = "test" THEN generation ELSE 0, key |-> key]

Retained(id) == {r \in table : recs[r].id = id}

Busy(mode) == Cardinality({r \in DOMAIN recs : Live(r) /\ recs[r].id.mode = mode})

\* Room in the table, made where needed by evicting the first operation of the
\* queue that is settled and whose correlation nobody follows; the ones before it
\* move to the back.
Admitted ==
    IF Cardinality(table) < MaxOperations THEN {[table |-> table, order |-> order]}
    ELSE LET free == {i \in DOMAIN order : IsEvictable(order[i]) /\ ~Leased(order[i])}
         IN  {[table |-> table \ {order[i]}, order |-> SubSeq(order, i + 1, Len(order)) \o SubSeq(order, 1, i - 1)] :
                i \in {j \in free : \A k \in free : j <= k}}

\* The correlations of operations that leave the table are closed with them.
Closing(kept) == [r \in DOMAIN recs |-> [recs[r] EXCEPT !.open = @ /\ r \in kept]]

\* The part of a submission under the table's lock that makes a new record.
Insert(mode, key, next) ==
    /\ Len(recs) < MaxRecords
    /\ Retained(Identity(mode, key)) = {}
    /\ Busy(mode) < Permits
    /\ \E kept \in Admitted :
          /\ table' = kept.table \cup {Len(recs) + 1}
          /\ order' = Append(kept.order, Len(recs) + 1)
          /\ recs' = Append(Closing(kept.table), next)

Spawned(rec) == [rec EXCEPT !.task = "spawned", !.handle = TRUE]

\* Refusals (identity conflict, capacity, permits, scenario) and answers from a
\* retained operation change nothing.
SubmitDispatch(c, key) ==
    /\ clients[c].pc = "idle"
    /\ Insert("dispatch", key, Spawned(NewRecord(Identity("dispatch", key))))
    /\ UNCHANGED <<generation, healthy, gate, clients>>

\* A client that wants to submit a test, reset the scenario or run a test.
Ask(c, goal) ==
    /\ clients[c].pc = "idle"
    /\ clients' = [clients EXCEPT ![c] = [pc |-> "gate", goal |-> goal, op |-> 0]]
    /\ UNCHANGED <<recs, listing, generation, healthy, gate>>

TakeGate(c) ==
    /\ clients[c].pc = "gate"
    /\ gate = {}
    /\ gate' = {c}
    /\ clients' = [clients EXCEPT ![c].pc = IF clients[c].goal = "submit" THEN "submit" ELSE "write"]
    /\ UNCHANGED <<recs, listing, generation, healthy>>

\* The client ends, by itself or because it was dropped: gate and lease go.
Leave(c) ==
    /\ gate' = gate \ {c}
    /\ clients' = [clients EXCEPT ![c] = Away]

ScenarioUsable == healthy

SubmitTest(c, key) ==
    /\ clients[c].pc = "submit" /\ clients[c].goal = "submit"
    /\ ScenarioUsable
    /\ Insert("test", key, Spawned(NewRecord(Identity("test", key))))
    /\ Leave(c)
    /\ UNCHANGED <<generation, healthy>>

\* The same, for a test run: the record is in the table before its correlation is
\* pinned, and only then is the task spawned.
SubmitPinned(c, key) ==
    /\ clients[c].pc = "submit" /\ clients[c].goal = "run"
    /\ ScenarioUsable
    /\ Insert("test", key, NewRecord(Identity("test", key)))
    /\ clients' = [clients EXCEPT ![c].pc = "pinning", ![c].op = Len(recs) + 1]
    /\ UNCHANGED <<generation, healthy, gate>>

Pin(c) ==
    /\ clients[c].pc = "pinning"
    /\ clients' = [clients EXCEPT ![c].pc = "evaluating"]
    /\ recs' = [recs EXCEPT ![clients[c].op] = Spawned(@)]
    /\ UNCHANGED <<listing, generation, healthy, gate>>

\* Every waiting client may go away: refused, timed out or disconnected.
GiveUp(c) ==
    /\ clients[c].pc # "idle"
    /\ Leave(c)
    /\ UNCHANGED <<recs, listing, generation, healthy>>

-----------------------------------------------------------------------------
(* Reset, under the run gate and the scenario gate held for writing. *)

ResetBegin(c) ==
    /\ clients[c].pc = "write"
    /\ generation < MaxGeneration
    /\ \A r \in DOMAIN recs : ~HoldsScenario(r)
    /\ healthy' = FALSE
    /\ generation' = generation + 1
    /\ clients' = [clients EXCEPT ![c].pc = "retaining"]
    /\ UNCHANGED <<recs, listing, gate>>

RetainDispatchOperations(c) ==
    /\ clients[c].pc = "retaining"
    /\ table' = {r \in table : recs[r].id.mode = "dispatch"}
    /\ order' = SelectSeq(order, LAMBDA r : r \in table')
    /\ recs' = Closing(table')
    /\ clients' = [clients EXCEPT ![c].pc = "resetting"]
    /\ UNCHANGED <<generation, healthy, gate>>

\* A reset that fails leaves the scenario unavailable, as one dropped half way.
ResetEnd(c) ==
    /\ clients[c].pc = "resetting"
    /\ healthy' = TRUE
    /\ IF clients[c].goal = "run"
       THEN clients' = [clients EXCEPT ![c].pc = "submit"] /\ UNCHANGED gate
       ELSE Leave(c)
    /\ UNCHANGED <<recs, listing, generation>>

-----------------------------------------------------------------------------
(* The operation's task. *)

Step(r, from, next) ==
    /\ recs[r].task = from
    /\ recs' = [recs EXCEPT ![r] = next]
    /\ UNCHANGED <<listing, generation, healthy, gate, clients>>

\* complete, fail and indeterminate: the first one decides.
Finish(rec, status) ==
    IF rec.status \in Terminal THEN rec ELSE [rec EXCEPT !.status = status, !.handle = FALSE]

FailAfterPossiblePublication(rec) == Finish(rec, IF rec.published THEN "indeterminate" ELSE "failed")

Ending(rec) == [rec EXCEPT !.task = "ending"]

Start(r) ==
    Step(r, "spawned", [recs[r] EXCEPT !.task = "started", !.status = IF @ \in Terminal THEN @ ELSE "running"])

Validate(r) ==
    \/ Step(r, "started", [recs[r] EXCEPT !.task = "invoking"])
    \/ Step(r, "started", Ending(Finish(recs[r], "failed")))

\* The transport has its acknowledgement and calls command_published, which
\* notes the publication, enters it in the record and then in the correlation.
Acknowledge(r) == Step(r, "invoking", [recs[r] EXCEPT !.task = "acked"])

ObservePublication(r) == Step(r, "acked", [recs[r] EXCEPT !.task = "observing", !.observed = TRUE])

CommandPublished(r) ==
    Step(r, "observing", [recs[r] EXCEPT !.task = "recording", !.published = @ \/ recs[r].status \notin Terminal])

ObserveCommand(r) ==
    \E failed \in BOOLEAN : Step(r, "recording", [recs[r] EXCEPT !.task = "waiting", !.unobservable = failed])

\* The transport returns a receipt that matches the publication.  A correlation
\* that could not observe the command, an invalid outcome or an outcome that
\* cannot be observed leaves the result open.
Receipt(r) ==
    \/ /\ ~recs[r].unobservable
       /\ Step(r, "waiting", Ending(Finish(recs[r], "completed")))
    \/ Step(r, "waiting", Ending(FailAfterPossiblePublication(recs[r])))

\* It returns an error, or a receipt that matches nothing it told.
TransportError(r) ==
    \/ Step(r, "waiting", Ending(Finish(recs[r], IF recs[r].observed THEN "indeterminate" ELSE "failed")))
    \/ Step(r, "invoking", Ending(Finish(recs[r], IF recs[r].observed THEN "indeterminate" ELSE "failed")))

\* Deserialization and transport may panic; an aborted task ends where it waits.
Panic(r) ==
    /\ recs[r].task \in {"started", "invoking", "acked", "waiting"}
    /\ Step(r, recs[r].task, [recs[r] EXCEPT !.task = "dropped"])

Cancelled(r) ==
    /\ Live(r) /\ recs[r].aborted
    /\ Step(r, recs[r].task, [recs[r] EXCEPT !.task = "dropped"])

\* The watcher finds the task gone.
Watch(r) == Step(r, "dropped", [FailAfterPossiblePublication(recs[r]) EXCEPT !.task = "watched"])

Outcome(rec) == IF rec.status \in Terminal THEN rec.status ELSE "failed"

\* The result goes to whichever correlation has the operation's identity, then
\* the record is marked.
RecordCorrelationResult(r) ==
    /\ recs[r].task \in {"ending", "watched"}
    /\ recs' = [q \in DOMAIN recs |->
                  LET told == IF recs[q].open /\ recs[q].id = recs[r].id
                              THEN [recs[q] EXCEPT !.results = Append(@, Outcome(recs[r]))]
                              ELSE recs[q]
                  IN  IF q = r THEN [told EXCEPT !.task = "done", !.marked = TRUE] ELSE told]
    /\ UNCHANGED <<listing, generation, healthy, gate, clients>>

-----------------------------------------------------------------------------
(* The deadline of a test run. *)

EndEvaluation(c) ==
    /\ clients[c].pc = "evaluating"
    /\ recs[clients[c].op].status \in Terminal
    /\ Leave(c)
    /\ UNCHANGED <<recs, listing, generation, healthy>>

Deadline(c) ==
    /\ clients[c].pc = "evaluating"
    /\ recs[clients[c].op].status \notin Terminal
    /\ LET r == clients[c].op IN recs' = [recs EXCEPT ![r].aborted = recs[r].handle, ![r].handle = FALSE]
    /\ clients' = [clients EXCEPT ![c].pc = "aborting"]
    /\ UNCHANGED <<listing, generation, healthy, gate>>

AbortEnds(c) ==
    /\ clients[c].pc = "aborting"
    /\ recs[clients[c].op].status \in Terminal
    /\ Leave(c)
    /\ UNCHANGED <<recs, listing, generation, healthy>>

-----------------------------------------------------------------------------
Return(r) == Receipt(r) \/ TransportError(r)

TaskStep(r) ==
    \/ Start(r) \/ Validate(r) \/ Acknowledge(r) \/ ObservePublication(r) \/ CommandPublished(r)
    \/ ObserveCommand(r) \/ Return(r) \/ Panic(r) \/ Cancelled(r) \/ Watch(r) \/ RecordCorrelationResult(r)

ClientStep(c) ==
    \/ \E key \in Keys : SubmitDispatch(c, key) \/ SubmitTest(c, key) \/ SubmitPinned(c, key)
    \/ \E goal \in {"submit", "reset", "run"} : Ask(c, goal)
    \/ TakeGate(c) \/ Pin(c) \/ GiveUp(c)
    \/ ResetBegin(c) \/ RetainDispatchOperations(c) \/ ResetEnd(c)
    \/ EndEvaluation(c) \/ Deadline(c) \/ AbortEnds(c)

Next == (\E c \in Clients : ClientStep(c)) \/ (\E r \in DOMAIN recs : TaskStep(r))

Spec == Init /\ [][Next]_vars

-----------------------------------------------------------------------------
(* Properties. *)

\* No two tasks or watchers ever carry the same operation identity: a retry is
\* answered from the record until everything about the first attempt is over.
OneTaskPerIdentity ==
    \A q, r \in DOMAIN recs :
        recs[q].id = recs[r].id /\ {recs[q].task, recs[r].task} \cap {"none", "done"} = {} => q = r

\* The example's README: "If publication was acknowledged but no valid response
\* can be established, the operation is `indeterminate`".
AcknowledgedIsNeverFailed ==
    \A r \in DOMAIN recs : recs[r].observed => recs[r].status # "failed"
===============================================================================
