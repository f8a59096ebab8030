----------------------------- MODULE TracerProofs -----------------------------
(* What the tracer promises, for every value of its constants: at most one task  *)
(* carries an operation identity, a test passes on settled evidence only, and a  *)
(* subscriber with nothing left to be told has been shown the window.            *)
EXTENDS Tracer, SequenceTheorems, TLAPS

-----------------------------------------------------------------------------
(* Operations. *)

Modes == {"test", "dispatch"}
Tasks == {"none", "spawned", "started", "invoking", "acked", "observing", "recording", "waiting",
          "ending", "dropped", "watched", "done"}
Idle == {"none", "done"}

Ids == [mode : Modes, gen : Nat, key : Keys]

Record ==
    [id : Ids, status : {"queued", "running"} \cup Terminal, published : BOOLEAN, marked : BOOLEAN,
     handle : BOOLEAN, aborted : BOOLEAN, task : Tasks, observed : BOOLEAN, unobservable : BOOLEAN,
     open : BOOLEAN, results : Seq(Terminal)]

Pcs == {"idle", "gate", "submit", "write", "pinning", "evaluating", "retaining", "resetting", "aborting"}
Following == {"pinning", "evaluating", "aborting"}

TypeInv ==
    /\ recs \in Seq(Record) /\ generation \in Nat
    /\ clients \in [Clients -> [pc : Pcs, goal : {"none", "submit", "reset", "run"}, op : Nat]]
    /\ \A c \in Clients : clients[c].pc \in Following => clients[c].op \in DOMAIN recs

\* Whoever is past the run gate holds it alone.
GateInv == \A c \in Clients : clients[c].pc \notin {"idle", "gate"} => gate = {c}

\* A submission that will spawn the record's task.
Pinned(r) == \E c \in Clients : clients[c].pc = "pinning" /\ clients[c].op = r

\* A task or a watcher of the record is running, or is about to.
Settling(r) == recs[r].task \notin Idle \/ Pinned(r)

OfPast(r) == recs[r].id.mode = "test" /\ recs[r].id.gen < generation

RecordInv ==
    \A r \in DOMAIN recs :
        /\ recs[r].marked => recs[r].task = "done"
        /\ Pinned(r) => recs[r].task = "none"
        /\ recs[r].id.mode = "test" => recs[r].id.gen <= generation

\* Until it is over, an operation is found in the table, unless a reset has made its identity unusable.
ListedInv == \A r \in DOMAIN recs : Settling(r) => r \in table \/ OfPast(r)

\* While a reset empties the table, no test operation has an identity of the scenario to come.
ResetInv ==
    \A c \in Clients : clients[c].pc = "retaining" =>
        \A r \in DOMAIN recs : Settling(r) /\ recs[r].id.mode = "test" => OfPast(r)

UniqueInv == \A q, r \in DOMAIN recs : Settling(q) /\ Settling(r) /\ recs[q].id = recs[r].id => q = r

OperationsInv == TypeInv /\ GateInv /\ RecordInv /\ ListedInv /\ ResetInv /\ UniqueInv

-----------------------------------------------------------------------------
(* Steps that make no record. *)

\* A step that starts nothing, and lists what is not over, preserves the invariant.
LEMMA Keeps ==
    ASSUME OperationsInv, TypeInv', GateInv', UNCHANGED generation, DOMAIN recs' = DOMAIN recs,
           \A r \in DOMAIN recs :
               /\ recs'[r].id = recs[r].id
               /\ Settling(r)' => Settling(r)
               /\ recs'[r].marked => recs'[r].task = "done"
               /\ Pinned(r)' => recs'[r].task = "none"
               /\ r \in table /\ Settling(r)' => r \in table' \/ OfPast(r),
           \A c \in Clients : clients'[c].pc = "retaining" => clients[c].pc = "retaining"
    PROVE  OperationsInv'
  <1>1. \A r \in DOMAIN recs : OfPast(r)' <=> OfPast(r)
    BY DEF OfPast
  <1>2. RecordInv'
    BY DEF OperationsInv, RecordInv
  <1>3. ListedInv'
    BY <1>1 DEF OperationsInv, ListedInv
  <1>4. ResetInv'
    BY <1>1 DEF OperationsInv, ResetInv
  <1>5. UniqueInv'
    BY DEF OperationsInv, UniqueInv
  <1> QED  BY <1>2, <1>3, <1>4, <1>5 DEF OperationsInv

\* A step of a task changes its own record, and may tell others the result.
LEMMA TaskKeeps ==
    ASSUME OperationsInv, recs' \in Seq(Record), DOMAIN recs' = DOMAIN recs,
           UNCHANGED <<listing, generation, healthy, gate, clients>>,
           \A r \in DOMAIN recs :
               /\ recs'[r].id = recs[r].id
               /\ recs[r].task = "none" => recs'[r].task = "none"
               /\ recs[r].task \in Idle => recs'[r].task \in Idle
               /\ recs'[r].marked => recs'[r].task = "done"
    PROVE  OperationsInv'
  <1>1. TypeInv' /\ GateInv'
    BY DEF OperationsInv, TypeInv, GateInv
  <1>2. \A r \in DOMAIN recs : Pinned(r)' <=> Pinned(r)
    BY DEF Pinned
  <1>3. \A r \in DOMAIN recs : Settling(r)' => Settling(r)
    BY <1>2 DEF Settling
  <1>4. \A r \in DOMAIN recs : Pinned(r)' => recs'[r].task = "none"
    BY <1>2 DEF OperationsInv, RecordInv
  <1>5. table' = table
    BY DEF listing
  <1> QED  BY <1>1, <1>3, <1>4, <1>5, Keeps

\* A step of one client that changes no record.
LEMMA ClientKeeps ==
    ASSUME OperationsInv, NEW c \in Clients, clients' = [clients EXCEPT ![c] = clients'[c]],
           clients'[c] \in [pc : Pcs, goal : {"none", "submit", "reset", "run"}, op : Nat],
           clients'[c].pc \in Following \ {"pinning"} => clients[c].pc \in Following /\ clients'[c].op = clients[c].op,
           clients'[c].pc \notin {"pinning", "retaining"},
           clients'[c].pc \notin {"idle", "gate"} => gate' = {c},
           \A d \in Clients \ {c} : gate = {d} => gate' = {d},
           UNCHANGED <<recs, table, generation>>
    PROVE  OperationsInv'
  <1>1. \A d \in Clients \ {c} : clients'[d] = clients[d]
    BY DEF OperationsInv, TypeInv
  <1>2. TypeInv'
    <2>1. clients' \in [Clients -> [pc : Pcs, goal : {"none", "submit", "reset", "run"}, op : Nat]]
      BY DEF OperationsInv, TypeInv
    <2>2. \A d \in Clients : clients'[d].pc \in Following => clients'[d].op \in DOMAIN recs
      BY <1>1 DEF OperationsInv, TypeInv, Following
    <2> QED  BY <2>1, <2>2 DEF OperationsInv, TypeInv
  <1>3. GateInv'
    BY <1>1 DEF OperationsInv, GateInv
  <1>4. \A r \in DOMAIN recs : Pinned(r)' => Pinned(r)
    BY <1>1 DEF Pinned
  <1>5. \A r \in DOMAIN recs : Settling(r)' => Settling(r)
    BY <1>4 DEF Settling
  <1> QED  BY <1>1, <1>2, <1>3, <1>4, <1>5, Keeps DEF OperationsInv, RecordInv

-----------------------------------------------------------------------------
(* Tasks. *)

\* A record that came from another one by steps of its task.
SameOperation(next, rec) == next \in Record /\ next.id = rec.id /\ next.marked = rec.marked

\* A step of a running task.
LEMMA StepKeeps ==
    ASSUME OperationsInv, NEW r \in DOMAIN recs, NEW from, from \notin Idle, NEW next,
           SameOperation(next, recs[r]), Step(r, from, next)
    PROVE  OperationsInv'
  <1>2. recs' = [recs EXCEPT ![r] = next] /\ UNCHANGED <<listing, generation, healthy, gate, clients>>
    BY DEF Step
  <1>3. recs \in Seq(Record)
    BY DEF OperationsInv, TypeInv
  <1>4. recs' \in Seq(Record) /\ DOMAIN recs' = DOMAIN recs
    BY <1>2, <1>3 DEF SameOperation
  <1>5. recs'[r] = next /\ \A q \in DOMAIN recs \ {r} : recs'[q] = recs[q]
    BY <1>2, <1>3
  <1>6. recs[r].task \notin Idle /\ ~next.marked
    <2>1. recs[r].task = from
      BY DEF Step
    <2>2. recs[r].marked => recs[r].task = "done"
      BY DEF OperationsInv, RecordInv
    <2> QED  BY <2>1, <2>2 DEF SameOperation, Idle
  <1>7. \A q \in DOMAIN recs : recs[q].marked => recs[q].task = "done"
    BY DEF OperationsInv, RecordInv
  <1> QED  BY <1>2, <1>4, <1>5, <1>6, <1>7, TaskKeeps DEF SameOperation, Idle

\* What a task does to its record.
LEMMA RecordSteps ==
    ASSUME NEW rec \in Record
    PROVE  /\ \A t \in Tasks : SameOperation([rec EXCEPT !.task = t], rec)
           /\ \A t \in Tasks, final \in Terminal : SameOperation([Finish(rec, final) EXCEPT !.task = t], rec)
           /\ \A t \in Tasks : SameOperation([FailAfterPossiblePublication(rec) EXCEPT !.task = t], rec)
  <1>1. \A t \in Tasks : SameOperation([rec EXCEPT !.task = t], rec)
    BY DEF SameOperation, Record
  <1>2. \A final \in Terminal : SameOperation(Finish(rec, final), rec)
    BY DEF SameOperation, Record, Finish
  <1>3. ASSUME NEW t \in Tasks, NEW final \in Terminal
        PROVE  SameOperation([Finish(rec, final) EXCEPT !.task = t], rec)
    <2> DEFINE f == Finish(rec, final)
    <2>1. f \in Record /\ f.id = rec.id /\ f.marked = rec.marked
      BY <1>2 DEF SameOperation
    <2> HIDE DEF f
    <2>2. SameOperation([f EXCEPT !.task = t], rec)
      BY <2>1 DEF SameOperation, Record
    <2> QED  BY <2>2 DEF f
  <1>4. ASSUME NEW t \in Tasks
        PROVE  SameOperation([FailAfterPossiblePublication(rec) EXCEPT !.task = t], rec)
    <2>1. "indeterminate" \in Terminal /\ "failed" \in Terminal
      BY DEF Terminal
    <2> QED  BY <1>3, <2>1 DEF FailAfterPossiblePublication
  <1> QED  BY <1>1, <1>3, <1>4

\* Every step of a task but the last.
LEMMA TaskSteps ==
    ASSUME OperationsInv, NEW r \in DOMAIN recs,
           \/ Start(r) \/ Validate(r) \/ Acknowledge(r) \/ ObservePublication(r) \/ CommandPublished(r)
           \/ ObserveCommand(r) \/ Return(r) \/ Panic(r) \/ Cancelled(r) \/ Watch(r)
    PROVE  OperationsInv'
  <1> DEFINE rec == recs[r]
  <1>1. rec \in Record
    BY DEF OperationsInv, TypeInv
  <1>2. {"failed", "completed", "indeterminate"} = Terminal
    BY DEF Terminal
  <1>3. /\ "spawned" \notin Idle /\ "started" \notin Idle /\ "invoking" \notin Idle /\ "acked" \notin Idle
        /\ "observing" \notin Idle /\ "recording" \notin Idle /\ "waiting" \notin Idle /\ "dropped" \notin Idle
    BY DEF Idle
  <1>4. /\ "started" \in Tasks /\ "invoking" \in Tasks /\ "acked" \in Tasks /\ "observing" \in Tasks
        /\ "recording" \in Tasks /\ "waiting" \in Tasks /\ "ending" \in Tasks /\ "dropped" \in Tasks /\ "watched" \in Tasks
    BY DEF Tasks
  <1>5. CASE Start(r)
    <2> DEFINE next == [rec EXCEPT !.task = "started", !.status = IF @ \in Terminal THEN @ ELSE "running"]
    <2>1. SameOperation(next, rec)
      BY <1>1, <1>4 DEF SameOperation, Record
    <2>2. Step(r, "spawned", next)
      BY <1>5 DEF Start
    <2> QED  BY <1>3, <2>1, <2>2, StepKeeps
  <1>6. CASE Validate(r)
    <2>1. SameOperation([rec EXCEPT !.task = "invoking"], rec) /\ SameOperation(Ending(Finish(rec, "failed")), rec)
      BY <1>1, <1>2, <1>4, RecordSteps DEF Ending
    <2> QED  BY <1>3, <1>6, <2>1, StepKeeps DEF Validate
  <1>7. CASE Acknowledge(r)
    BY <1>1, <1>3, <1>4, <1>7, RecordSteps, StepKeeps DEF Acknowledge
  <1>8. CASE ObservePublication(r)
    <2> DEFINE next == [rec EXCEPT !.task = "observing", !.observed = TRUE]
    <2>1. SameOperation(next, rec)
      BY <1>1, <1>4 DEF SameOperation, Record
    <2>2. Step(r, "acked", next)
      BY <1>8 DEF ObservePublication
    <2> QED  BY <1>3, <2>1, <2>2, StepKeeps
  <1>9. CASE CommandPublished(r)
    <2> DEFINE next == [rec EXCEPT !.task = "recording", !.published = @ \/ rec.status \notin Terminal]
    <2>1. SameOperation(next, rec)
      BY <1>1, <1>4 DEF SameOperation, Record
    <2>2. Step(r, "observing", next)
      BY <1>9 DEF CommandPublished
    <2> QED  BY <1>3, <2>1, <2>2, StepKeeps
  <1>10. CASE ObserveCommand(r)
    <2>1. PICK failed \in BOOLEAN : Step(r, "recording", [rec EXCEPT !.task = "waiting", !.unobservable = failed])
      BY <1>10 DEF ObserveCommand
    <2>2. SameOperation([rec EXCEPT !.task = "waiting", !.unobservable = failed], rec)
      BY <1>1, <1>4 DEF SameOperation, Record
    <2> QED  BY <1>3, <2>1, <2>2, StepKeeps
  <1>11. CASE Return(r)
    <2>1. PICK from \in {"waiting", "invoking"} :
              \/ \E final \in Terminal : Step(r, from, Ending(Finish(rec, final)))
              \/ Step(r, from, Ending(FailAfterPossiblePublication(rec)))
      BY <1>2, <1>11 DEF Return, Receipt, TransportError
    <2>2. /\ \A final \in Terminal : SameOperation(Ending(Finish(rec, final)), rec)
          /\ SameOperation(Ending(FailAfterPossiblePublication(rec)), rec)
      BY <1>1, <1>4, RecordSteps DEF Ending
    <2> QED  BY <1>3, <2>1, <2>2, StepKeeps
  <1>12. CASE Panic(r) \/ Cancelled(r)
    <2>1. SameOperation([rec EXCEPT !.task = "dropped"], rec)
      BY <1>1, <1>4, RecordSteps
    <2>2. rec.task \notin Idle
      BY <1>12 DEF Panic, Cancelled, Live, Idle
    <2>3. Step(r, rec.task, [rec EXCEPT !.task = "dropped"])
      BY <1>12 DEF Panic, Cancelled
    <2> QED  BY <2>1, <2>2, <2>3, StepKeeps
  <1>13. CASE Watch(r)
    BY <1>1, <1>3, <1>4, <1>13, RecordSteps, StepKeeps DEF Watch
  <1> QED  BY <1>5, <1>6, <1>7, <1>8, <1>9, <1>10, <1>11, <1>12, <1>13

\* RecordCorrelationResult: the task ends, and its operation may now be evicted.
LEMMA ResultStep ==
    ASSUME OperationsInv, NEW r \in DOMAIN recs, RecordCorrelationResult(r)
    PROVE  OperationsInv'
  <1> DEFINE told(q) == IF recs[q].open /\ recs[q].id = recs[r].id
                        THEN [recs[q] EXCEPT !.results = Append(@, Outcome(recs[r]))]
                        ELSE recs[q]
             ended(q) == IF q = r THEN [told(q) EXCEPT !.task = "done", !.marked = TRUE] ELSE told(q)
  <1>1. recs \in Seq(Record) /\ \A q \in DOMAIN recs : recs[q] \in Record
    BY DEF OperationsInv, TypeInv
  <1>2. Outcome(recs[r]) \in Terminal
    BY DEF Outcome, Terminal
  <1>3. recs[r].task \notin Idle
    BY DEF RecordCorrelationResult, Idle
  <1>4. ASSUME NEW q \in DOMAIN recs
        PROVE  told(q) \in Record /\ told(q).id = recs[q].id /\ told(q).task = recs[q].task /\ told(q).marked = recs[q].marked
    <2>1. recs[q] \in Record /\ recs[q].results \in Seq(Terminal)
      BY <1>1 DEF Record
    <2>2. Append(recs[q].results, Outcome(recs[r])) \in Seq(Terminal)
      BY <1>2, <2>1
    <2> QED  BY <2>1, <2>2 DEF Record
  <1> HIDE DEF told
  <1>5. ASSUME NEW q \in DOMAIN recs
        PROVE  /\ ended(q) \in Record /\ ended(q).id = recs[q].id
               /\ IF q = r THEN ended(q).task = "done" /\ ended(q).marked = TRUE
                  ELSE ended(q).task = recs[q].task /\ ended(q).marked = recs[q].marked
    <2>1. "done" \in Tasks
      BY DEF Tasks
    <2> QED  BY <1>4, <2>1 DEF Record
  <1>6. recs' = [q \in DOMAIN recs |-> ended(q)] /\ UNCHANGED <<listing, generation, healthy, gate, clients>>
    BY DEF RecordCorrelationResult, ended, told
  <1> HIDE DEF ended
  <1>7. recs' \in Seq(Record) /\ DOMAIN recs' = DOMAIN recs /\ \A q \in DOMAIN recs : recs'[q] = ended(q)
    <2>1. DOMAIN recs = 1..Len(recs) /\ Len(recs) \in Nat
      BY <1>1
    <2>2. \A q \in 1..Len(recs) : ended(q) \in Record
      BY <1>5, <2>1
    <2>3. recs' = [q \in 1..Len(recs) |-> ended(q)]
      BY <1>6, <2>1
    <2>4. recs' \in Seq(Record)
      BY <2>1, <2>2, <2>3
    <2> QED  BY <1>6, <2>4
  <1>8. \A q \in DOMAIN recs : recs[q].marked => recs[q].task = "done"
    BY DEF OperationsInv, RecordInv
  <1> QED  BY <1>3, <1>5, <1>6, <1>7, <1>8, TaskKeeps DEF Idle

-----------------------------------------------------------------------------
(* Submission. *)

\* A new record: its identity is in no listed record, and an operation that is
\* evicted is over.
LEMMA InsertKeeps ==
    ASSUME OperationsInv, NEW kind \in Modes, NEW key \in Keys, NEW next \in Record,
           next.id = Identity(kind, key), ~next.marked, next.task = "none" \/ next.task = "spawned",
           Insert(kind, key, next), UNCHANGED generation, GateInv',
           clients' \in [Clients -> [pc : Pcs, goal : {"none", "submit", "reset", "run"}, op : Nat]],
           \A c \in Clients :
               /\ clients'[c].pc \in Following =>
                    (clients'[c] = clients[c]) \/ (clients'[c].op = Len(recs) + 1 /\ next.task = "none")
               /\ clients'[c].pc = "retaining" => clients[c].pc = "retaining" /\ kind # "test"
    PROVE  OperationsInv'
  <1> DEFINE n == Len(recs) + 1
  <1>1. /\ recs \in Seq(Record) /\ Len(recs) \in Nat /\ DOMAIN recs = 1..Len(recs) /\ generation \in Nat
        /\ \A c \in Clients : clients[c].pc \in Following => clients[c].op \in DOMAIN recs
    BY DEF OperationsInv, TypeInv
  <1>2. PICK kept \in Admitted : table' = kept.table \cup {n} /\ recs' = Append(Closing(kept.table), next)
    BY DEF Insert
  <1> DEFINE closed == Closing(kept.table)
  <1>3. /\ closed \in Seq(Record) /\ Len(closed) = Len(recs)
        /\ \A r \in DOMAIN recs : closed[r].id = recs[r].id /\ closed[r].task = recs[r].task /\ closed[r].marked = recs[r].marked
    <2> DEFINE shut(r) == [recs[r] EXCEPT !.open = @ /\ r \in kept.table]
    <2>1. ASSUME NEW r \in DOMAIN recs
          PROVE  shut(r) \in Record /\ shut(r).id = recs[r].id /\ shut(r).task = recs[r].task /\ shut(r).marked = recs[r].marked
      <3>1. recs[r] \in Record
        BY <1>1
      <3> QED  BY <3>1 DEF Record
    <2> HIDE DEF shut
    <2>2. \A r \in 1..Len(recs) : shut(r) \in Record
      BY <1>1, <2>1
    <2>3. closed = [r \in 1..Len(recs) |-> shut(r)]
      BY <1>1 DEF Closing, shut
    <2>4. closed \in Seq(Record) /\ Len(closed) = Len(recs) /\ \A r \in 1..Len(recs) : closed[r] = shut(r)
      BY <1>1, <2>2, <2>3
    <2> QED  BY <1>1, <2>1, <2>4
  <1> HIDE DEF closed
  <1>4. /\ recs' \in Seq(Record) /\ DOMAIN recs' = 1..n /\ recs'[n] = next
        /\ \A r \in DOMAIN recs : recs'[r] = closed[r]
    <2>1. recs' = Append(closed, next)
      BY <1>2 DEF closed
    <2> QED  BY <1>1, <1>3, <2>1
  <1>5. /\ n \notin DOMAIN recs /\ DOMAIN recs' = DOMAIN recs \cup {n}
        /\ \A r \in DOMAIN recs : recs'[r].id = recs[r].id /\ recs'[r].task = recs[r].task /\ recs'[r].marked = recs[r].marked
    BY <1>1, <1>3, <1>4
  <1>6. ASSUME NEW r \in DOMAIN recs, Settling(r), r \in table
        PROVE  r \in table'
    <2>1. ~recs[r].marked
      BY <1>6 DEF OperationsInv, RecordInv, Settling, Idle
    <2>2. kept.table = table \/ \E i \in DOMAIN order : kept.table = table \ {order[i]} /\ recs[order[i]].marked
      BY DEF Admitted, IsEvictable
    <2> QED  BY <1>2, <1>6, <2>1, <2>2
  <1>7. /\ \A r \in DOMAIN recs : Pinned(r)' => Pinned(r)
        /\ \A r : r = n /\ Pinned(r)' => next.task = "none"
    <2>1. \A c \in Clients : clients'[c].pc = "pinning" =>
              clients'[c] = clients[c] \/ (clients'[c].op = n /\ next.task = "none")
      BY DEF Following
    <2>2. \A c \in Clients : clients[c].pc = "pinning" => clients[c].op # n
      BY <1>1, <1>5 DEF Following
    <2> QED  BY <1>5, <2>1, <2>2 DEF Pinned
  <1>8. /\ \A r \in DOMAIN recs : Settling(r)' => Settling(r)
        /\ \A r \in DOMAIN recs : OfPast(r)' <=> OfPast(r)
    BY <1>5, <1>7 DEF Settling, OfPast
  <1>9. TypeInv'
    <2>1. \A c \in Clients : clients'[c].pc \in Following => clients'[c].op \in DOMAIN recs'
      BY <1>1, <1>5
    <2> QED  BY <1>1, <1>4, <2>1 DEF TypeInv
  <1>10. RecordInv'
    <2>1. next.id.mode = "test" => next.id.gen <= generation
      BY <1>1 DEF Identity
    <2>2. ASSUME NEW r \in DOMAIN recs
          PROVE  /\ recs'[r].marked => recs'[r].task = "done"
                 /\ Pinned(r)' => recs'[r].task = "none"
                 /\ recs'[r].id.mode = "test" => recs'[r].id.gen <= generation
      BY <1>5, <1>7 DEF OperationsInv, RecordInv
    <2>3. ASSUME NEW r, r = n
          PROVE  /\ ~recs'[r].marked /\ (Pinned(r)' => recs'[r].task = "none")
                 /\ recs'[r].id.mode = "test" => recs'[r].id.gen <= generation
      BY <1>4, <1>7, <2>1, <2>3
    <2>4. generation' = generation
      OBVIOUS
    <2> HIDE DEF n
    <2> QED  BY <1>5, <2>2, <2>3, <2>4 DEF RecordInv
  <1>11. ListedInv'
    BY <1>2, <1>5, <1>6, <1>8 DEF OperationsInv, ListedInv
  <1>12. ResetInv'
    <2> SUFFICES ASSUME NEW c \in Clients, clients'[c].pc = "retaining", NEW r \in DOMAIN recs',
                        Settling(r)', recs'[r].id.mode = "test"
                 PROVE  OfPast(r)'
      BY DEF ResetInv
    <2>1. clients[c].pc = "retaining" /\ kind # "test"
      OBVIOUS
    <2>2. r # n
      BY <1>4, <2>1 DEF Identity
    <2> QED  BY <1>5, <1>8, <2>1, <2>2 DEF OperationsInv, ResetInv
  <1>13. ASSUME NEW q \in DOMAIN recs, Settling(q)
         PROVE  recs[q].id # next.id
    <2>1. CASE q \in table
      BY <2>1 DEF Insert, Retained
    <2>2. CASE OfPast(q)
      BY <1>1, <2>2 DEF OfPast, Identity
    <2> QED  BY <1>13, <2>1, <2>2 DEF OperationsInv, ListedInv
  <1>14. UniqueInv'
    <2> SUFFICES ASSUME NEW q \in DOMAIN recs', NEW r \in DOMAIN recs', Settling(q)', Settling(r)',
                        recs'[q].id = recs'[r].id
                 PROVE  q = r
      BY DEF UniqueInv
    <2>1. CASE q \in DOMAIN recs /\ r \in DOMAIN recs
      BY <1>5, <1>8, <2>1 DEF OperationsInv, UniqueInv
    <2>2. CASE q \in DOMAIN recs /\ r = n
      BY <1>4, <1>5, <1>8, <1>13, <2>2
    <2>3. CASE q = n /\ r \in DOMAIN recs
      BY <1>4, <1>5, <1>8, <1>13, <2>3
    <2> QED  BY <1>5, <2>1, <2>2, <2>3
  <1> QED  BY <1>9, <1>10, <1>11, <1>12, <1>14 DEF OperationsInv

\* What a submission inserts.
LEMMA NewRecords ==
    ASSUME OperationsInv, NEW kind \in Modes, NEW key \in Keys
    PROVE  /\ NewRecord(Identity(kind, key)) \in Record /\ Spawned(NewRecord(Identity(kind, key))) \in Record
           /\ NewRecord(Identity(kind, key)).id = Identity(kind, key) /\ ~NewRecord(Identity(kind, key)).marked
           /\ NewRecord(Identity(kind, key)).task = "none"
           /\ Spawned(NewRecord(Identity(kind, key))).id = Identity(kind, key)
           /\ ~Spawned(NewRecord(Identity(kind, key))).marked
           /\ Spawned(NewRecord(Identity(kind, key))).task = "spawned"
  <1> DEFINE i == Identity(kind, key)
             rec == NewRecord(i)
  <1>1. i \in Ids
    BY DEF Identity, Ids, OperationsInv, TypeInv
  <1> HIDE DEF i
  <1>2. rec \in Record /\ rec.id = i /\ ~rec.marked /\ rec.task = "none"
    <2>1. <<>> \in Seq(Terminal)
      OBVIOUS
    <2> QED  BY <1>1, <2>1 DEF NewRecord, Record, Tasks
  <1> HIDE DEF rec
  <1>3. Spawned(rec) \in Record /\ Spawned(rec).id = i /\ ~Spawned(rec).marked /\ Spawned(rec).task = "spawned"
    BY <1>2 DEF Spawned, Record, Tasks
  <1> QED  BY <1>2, <1>3 DEF i, rec

\* What a client's record gives its steps.
LEMMA ClientFacts ==
    ASSUME OperationsInv, NEW c \in Clients
    PROVE  /\ clients \in [Clients -> [pc : Pcs, goal : {"none", "submit", "reset", "run"}, op : Nat]]
           /\ clients[c] \in [pc : Pcs, goal : {"none", "submit", "reset", "run"}, op : Nat]
           /\ clients[c].pc \notin {"idle", "gate"} => gate = {c}
           /\ \A d \in Clients \ {c} : clients[d].pc \notin {"idle", "gate"} => gate = {d}
           /\ clients[c].pc \in Following => clients[c].op \in DOMAIN recs
           /\ Away \in [pc : Pcs, goal : {"none", "submit", "reset", "run"}, op : Nat]
  BY DEF OperationsInv, TypeInv, GateInv, Away, Pcs

\* A client that goes away.
LEMMA LeaveKeeps ==
    ASSUME OperationsInv, NEW c \in Clients, Leave(c), UNCHANGED <<recs, table, generation>>
    PROVE  OperationsInv'
  <1>1. clients' = [clients EXCEPT ![c] = Away] /\ gate' = gate \ {c}
    BY DEF Leave
  <1>2. clients'[c] = Away
    BY <1>1, ClientFacts
  <1>3. Away.pc = "idle" /\ Away \in [pc : Pcs, goal : {"none", "submit", "reset", "run"}, op : Nat]
    BY ClientFacts DEF Away
  <1>4. \A d \in Clients \ {c} : gate = {d} => gate' = {d}
    BY <1>1
  <1> QED  BY <1>1, <1>2, <1>3, <1>4, ClientKeeps DEF Following

\* SubmitDispatch, SubmitTest and SubmitPinned
LEMMA SubmitSteps ==
    ASSUME OperationsInv, NEW c \in Clients, NEW key \in Keys,
           SubmitDispatch(c, key) \/ SubmitTest(c, key) \/ SubmitPinned(c, key)
    PROVE  OperationsInv'
  <1>1. "test" \in Modes /\ "dispatch" \in Modes
    BY DEF Modes
  <1>2. CASE SubmitDispatch(c, key)
    <2> DEFINE next == Spawned(NewRecord(Identity("dispatch", key)))
    <2>1. Insert("dispatch", key, next) /\ UNCHANGED <<generation, gate, clients>>
      BY <1>2 DEF SubmitDispatch
    <2>2. next \in Record /\ next.id = Identity("dispatch", key) /\ ~next.marked /\ next.task = "spawned"
      BY <1>1, NewRecords
    <2>3. GateInv'
      BY <2>1 DEF OperationsInv, GateInv
    <2> HIDE DEF next
    <2> QED  BY <1>1, <2>1, <2>2, <2>3, ClientFacts, InsertKeeps
  <1>3. CASE SubmitTest(c, key)
    <2> DEFINE next == Spawned(NewRecord(Identity("test", key)))
    <2>1. Insert("test", key, next) /\ Leave(c) /\ UNCHANGED <<generation>> /\ clients[c].pc = "submit"
      BY <1>3 DEF SubmitTest
    <2>2. next \in Record /\ next.id = Identity("test", key) /\ ~next.marked /\ next.task = "spawned"
      BY <1>1, NewRecords
    <2>3. clients' = [clients EXCEPT ![c] = Away] /\ gate' = gate \ {c} /\ gate = {c}
      BY <2>1, ClientFacts DEF Leave
    <2>4. clients'[c] = Away /\ Away.pc = "idle" /\ \A d \in Clients \ {c} : clients'[d] = clients[d]
      BY <2>3, ClientFacts DEF Away
    <2>5. \A d \in Clients \ {c} : clients[d].pc \in {"idle", "gate"}
      <3>1. \A d \in Clients \ {c} : {d} # {c}
        OBVIOUS
      <3>2. \A d \in Clients \ {c} : clients[d].pc \notin {"idle", "gate"} => gate = {d}
        BY ClientFacts
      <3> QED  BY <2>3, <3>1, <3>2
    <2>6. GateInv'
      BY <2>4, <2>5 DEF GateInv
    <2>7. clients' \in [Clients -> [pc : Pcs, goal : {"none", "submit", "reset", "run"}, op : Nat]]
      BY <2>3, ClientFacts
    <2>8. \A d \in Clients : clients'[d].pc \notin Following /\ clients'[d].pc # "retaining"
      BY <2>4, <2>5 DEF Following
    <2> HIDE DEF next
    <2> QED  BY <1>1, <2>1, <2>2, <2>6, <2>7, <2>8, InsertKeeps
  <1>4. CASE SubmitPinned(c, key)
    <2> DEFINE next == NewRecord(Identity("test", key))
               y == [clients[c] EXCEPT !.pc = "pinning", !.op = Len(recs) + 1]
    <2>1. Insert("test", key, next) /\ UNCHANGED <<generation, gate>> /\ clients[c].pc = "submit"
      BY <1>4 DEF SubmitPinned
    <2>2. next \in Record /\ next.id = Identity("test", key) /\ ~next.marked /\ next.task = "none"
      BY <1>1, NewRecords
    <2>3. clients' = [clients EXCEPT ![c] = y] /\ gate = {c}
      BY <1>4, <2>1, ClientFacts DEF SubmitPinned
    <2>4. Len(recs) + 1 \in Nat
      BY DEF OperationsInv, TypeInv
    <2>5. y \in [pc : Pcs, goal : {"none", "submit", "reset", "run"}, op : Nat] /\ y.pc = "pinning" /\ y.op = Len(recs) + 1
      BY <2>4, ClientFacts DEF Pcs
    <2> HIDE DEF y
    <2>6. clients'[c] = y /\ \A d \in Clients \ {c} : clients'[d] = clients[d]
      BY <2>3, ClientFacts
    <2>7. \A d \in Clients \ {c} : clients[d].pc \in {"idle", "gate"}
      <3>1. \A d \in Clients \ {c} : {d} # {c}
        OBVIOUS
      <3>2. \A d \in Clients \ {c} : clients[d].pc \notin {"idle", "gate"} => gate = {d}
        BY ClientFacts
      <3> QED  BY <2>3, <3>1, <3>2
    <2>8. GateInv'
      BY <2>1, <2>3, <2>6, <2>7 DEF GateInv
    <2>9. clients' \in [Clients -> [pc : Pcs, goal : {"none", "submit", "reset", "run"}, op : Nat]]
      BY <2>3, <2>5, ClientFacts
    <2>10. \A d \in Clients :
              /\ clients'[d].pc \in Following => clients'[d].op = Len(recs) + 1 /\ next.task = "none"
              /\ clients'[d].pc # "retaining"
      BY <2>2, <2>5, <2>6, <2>7 DEF Following
    <2> HIDE DEF next
    <2> QED  BY <1>1, <2>1, <2>2, <2>8, <2>9, <2>10, InsertKeeps
  <1> QED  BY <1>2, <1>3, <1>4

-----------------------------------------------------------------------------
(* The other steps of clients. *)

\* Pin: the task starts of a record that no other client is about to start.
LEMMA PinStep ==
    ASSUME OperationsInv, NEW c \in Clients, Pin(c)
    PROVE  OperationsInv'
  <1> DEFINE r == clients[c].op
             y == [clients[c] EXCEPT !.pc = "evaluating"]
  <1>1. clients[c].pc = "pinning" /\ r \in DOMAIN recs /\ gate = {c} /\ Pinned(r) /\ recs[r].task = "none" /\ ~recs[r].marked
    <2>1. clients[c].pc = "pinning" /\ r \in DOMAIN recs /\ gate = {c}
      BY ClientFacts DEF Pin, Following
    <2>2. Pinned(r)
      BY <2>1 DEF Pinned
    <2> QED  BY <2>1, <2>2 DEF OperationsInv, RecordInv
  <1>2. /\ clients' = [clients EXCEPT ![c] = y] /\ recs' = [recs EXCEPT ![r] = Spawned(recs[r])]
        /\ UNCHANGED <<table, generation, gate>>
    BY DEF Pin, listing
  <1>3. y \in [pc : Pcs, goal : {"none", "submit", "reset", "run"}, op : Nat] /\ y.pc = "evaluating" /\ y.op = r
    BY ClientFacts DEF Pcs
  <1> HIDE DEF y
  <1>4. clients'[c] = y /\ \A d \in Clients \ {c} : clients'[d] = clients[d] /\ clients[d].pc \in {"idle", "gate"}
    BY <1>1, <1>2, ClientFacts
  <1>5. recs \in Seq(Record) /\ recs[r] \in Record
    BY <1>1 DEF OperationsInv, TypeInv
  <1>6. Spawned(recs[r]) \in Record /\ Spawned(recs[r]).id = recs[r].id /\ ~Spawned(recs[r]).marked
    BY <1>1, <1>5 DEF Spawned, Record, Tasks
  <1>7. /\ recs' \in Seq(Record) /\ DOMAIN recs' = DOMAIN recs /\ recs'[r] = Spawned(recs[r])
        /\ \A q \in DOMAIN recs \ {r} : recs'[q] = recs[q]
    BY <1>1, <1>2, <1>5, <1>6
  <1>8. TypeInv'
    <2>1. clients' \in [Clients -> [pc : Pcs, goal : {"none", "submit", "reset", "run"}, op : Nat]]
      BY <1>2, <1>3, ClientFacts
    <2>2. \A d \in Clients : clients'[d].pc \in Following => clients'[d].op \in DOMAIN recs'
      BY <1>1, <1>3, <1>4, <1>7 DEF Following
    <2> QED  BY <1>2, <1>7, <2>1, <2>2 DEF OperationsInv, TypeInv
  <1>9. GateInv'
    BY <1>1, <1>2, <1>4 DEF GateInv
  <1>10. \A q : ~Pinned(q)'
    BY <1>3, <1>4 DEF Pinned
  <1>11. \A q \in DOMAIN recs : Settling(q)' => Settling(q)
    BY <1>1, <1>7, <1>10 DEF Settling
  <1>12. \A q \in DOMAIN recs : recs'[q].id = recs[q].id /\ (recs'[q].marked => recs'[q].task = "done")
    BY <1>6, <1>7 DEF OperationsInv, RecordInv
  <1>13. \A d \in Clients : clients'[d].pc # "retaining"
    BY <1>3, <1>4
  <1> HIDE DEF r
  <1> QED  BY <1>2, <1>7, <1>8, <1>9, <1>10, <1>11, <1>12, <1>13, Keeps

\* What a record's type gives.
LEMMA IdFacts ==
    ASSUME OperationsInv, NEW r \in DOMAIN recs
    PROVE  recs[r].id.gen \in Nat /\ recs[r].id.mode \in Modes
  <1>1. recs[r] \in Record
    BY DEF OperationsInv, TypeInv
  <1>2. recs[r].id \in Ids
    BY <1>1 DEF Record
  <1> QED  BY <1>2 DEF Ids

\* ResetBegin: the identities of the old scenario are of the past.
LEMMA ResetBeginStep ==
    ASSUME OperationsInv, NEW c \in Clients, ResetBegin(c)
    PROVE  OperationsInv'
  <1> DEFINE y == [clients[c] EXCEPT !.pc = "retaining"]
  <1>1. clients[c].pc = "write" /\ gate = {c} /\ generation \in Nat
    BY ClientFacts DEF ResetBegin, OperationsInv, TypeInv
  <1>2. clients' = [clients EXCEPT ![c] = y] /\ generation' = generation + 1 /\ UNCHANGED <<recs, table, gate>>
    BY DEF ResetBegin, listing
  <1>3. y \in [pc : Pcs, goal : {"none", "submit", "reset", "run"}, op : Nat] /\ y.pc = "retaining"
    BY ClientFacts DEF Pcs
  <1> HIDE DEF y
  <1>4. clients'[c] = y /\ \A d \in Clients \ {c} : clients'[d] = clients[d] /\ clients[d].pc \in {"idle", "gate"}
    BY <1>1, <1>2, ClientFacts
  <1>5. TypeInv'
    <2>1. clients' \in [Clients -> [pc : Pcs, goal : {"none", "submit", "reset", "run"}, op : Nat]]
      BY <1>2, <1>3, ClientFacts
    <2>2. \A d \in Clients : clients'[d].pc \notin Following
      BY <1>3, <1>4 DEF Following
    <2> QED  BY <1>1, <1>2, <2>1, <2>2 DEF OperationsInv, TypeInv
  <1>6. GateInv'
    BY <1>1, <1>2, <1>4 DEF GateInv
  <1>7. \A r : ~Pinned(r)'
    BY <1>3, <1>4 DEF Pinned
  <1>8. \A r \in DOMAIN recs : recs[r].id.mode = "test" => OfPast(r)'
    <2> SUFFICES ASSUME NEW r \in DOMAIN recs, recs[r].id.mode = "test" PROVE OfPast(r)'
      OBVIOUS
    <2>1. recs[r].id.gen <= generation /\ recs[r].id.gen \in Nat
      BY IdFacts DEF OperationsInv, RecordInv
    <2> QED  BY <1>1, <1>2, <2>1 DEF OfPast
  <1>9. RecordInv'
    <2> SUFFICES ASSUME NEW r \in DOMAIN recs
                 PROVE  (recs[r].marked => recs[r].task = "done") /\ (recs[r].id.mode = "test" => recs[r].id.gen <= generation')
      BY <1>2, <1>7 DEF RecordInv
    <2>1. recs[r].id.gen \in Nat
      BY IdFacts
    <2> QED  BY <1>1, <1>2, <2>1 DEF OperationsInv, RecordInv
  <1>10. \A r \in DOMAIN recs : Settling(r)' => Settling(r)
    BY <1>2, <1>7 DEF Settling
  <1>11. ListedInv'
    BY <1>2, <1>8, <1>10 DEF OperationsInv, ListedInv, OfPast
  <1>12. ResetInv'
    BY <1>2, <1>8 DEF ResetInv
  <1>13. UniqueInv'
    BY <1>2, <1>10 DEF OperationsInv, UniqueInv
  <1> QED  BY <1>5, <1>6, <1>9, <1>11, <1>12, <1>13 DEF OperationsInv

\* RetainDispatchOperations: a test operation that is still watched leaves the table with its scenario.
LEMMA RetainStep ==
    ASSUME OperationsInv, NEW c \in Clients, RetainDispatchOperations(c)
    PROVE  OperationsInv'
  <1> DEFINE y == [clients[c] EXCEPT !.pc = "resetting"]
  <1>1. clients[c].pc = "retaining" /\ gate = {c} /\ recs \in Seq(Record)
    BY ClientFacts DEF RetainDispatchOperations, OperationsInv, TypeInv
  <1>2. /\ clients' = [clients EXCEPT ![c] = y] /\ UNCHANGED <<generation, gate>>
        /\ table' = {r \in table : recs[r].id.mode = "dispatch"} /\ recs' = Closing(table')
    BY DEF RetainDispatchOperations
  <1>3. y \in [pc : Pcs, goal : {"none", "submit", "reset", "run"}, op : Nat] /\ y.pc = "resetting"
    BY ClientFacts DEF Pcs
  <1> HIDE DEF y
  <1>4. clients'[c] = y /\ \A d \in Clients \ {c} : clients'[d] = clients[d] /\ clients[d].pc \in {"idle", "gate"}
    BY <1>1, <1>2, ClientFacts
  <1> DEFINE shut(r) == [recs[r] EXCEPT !.open = @ /\ r \in table']
  <1>5. ASSUME NEW r \in DOMAIN recs
        PROVE  shut(r) \in Record /\ shut(r).id = recs[r].id /\ shut(r).task = recs[r].task /\ shut(r).marked = recs[r].marked
    <2>1. recs[r] \in Record
      BY <1>1
    <2> QED  BY <2>1 DEF Record
  <1>6. recs' = [r \in DOMAIN recs |-> shut(r)]
    BY <1>2 DEF Closing
  <1> HIDE DEF shut
  <1>7. /\ recs' \in Seq(Record) /\ DOMAIN recs' = DOMAIN recs
        /\ \A r \in DOMAIN recs : recs'[r].id = recs[r].id /\ recs'[r].task = recs[r].task /\ recs'[r].marked = recs[r].marked
    <2>1. DOMAIN recs = 1..Len(recs) /\ Len(recs) \in Nat
      BY <1>1
    <2>2. \A r \in 1..Len(recs) : shut(r) \in Record
      BY <1>5, <2>1
    <2>3. recs' = [r \in 1..Len(recs) |-> shut(r)]
      BY <1>6, <2>1
    <2>4. recs' \in Seq(Record)
      BY <2>1, <2>2, <2>3
    <2> QED  BY <1>5, <1>6, <2>4
  <1>8. TypeInv'
    <2>1. clients' \in [Clients -> [pc : Pcs, goal : {"none", "submit", "reset", "run"}, op : Nat]]
      BY <1>2, <1>3, ClientFacts
    <2>2. \A d \in Clients : clients'[d].pc \notin Following
      BY <1>3, <1>4 DEF Following
    <2> QED  BY <1>2, <1>7, <2>1, <2>2 DEF OperationsInv, TypeInv
  <1>9. GateInv'
    BY <1>1, <1>2, <1>4 DEF GateInv
  <1>10. \A r : ~Pinned(r)'
    BY <1>3, <1>4 DEF Pinned
  <1>11. \A r \in DOMAIN recs : Settling(r)' => Settling(r)
    BY <1>7, <1>10 DEF Settling
  <1>12. ASSUME NEW r \in DOMAIN recs, r \in table, Settling(r)
         PROVE  r \in table' \/ OfPast(r)
    <2>1. recs[r].id.mode \in Modes
      BY IdFacts
    <2> QED  BY <1>1, <1>2, <1>12, <2>1 DEF OperationsInv, ResetInv, Modes
  <1>13. \A d \in Clients : clients'[d].pc # "retaining"
    BY <1>3, <1>4
  <1>14. \A r \in DOMAIN recs : recs'[r].marked => recs'[r].task = "done"
    BY <1>7 DEF OperationsInv, RecordInv
  <1> QED  BY <1>2, <1>7, <1>8, <1>9, <1>10, <1>11, <1>12, <1>13, <1>14, Keeps

\* Deadline: the handle is taken, and the task may be cancelled.
LEMMA DeadlineStep ==
    ASSUME OperationsInv, NEW c \in Clients, Deadline(c)
    PROVE  OperationsInv'
  <1> DEFINE r == clients[c].op
             y == [clients[c] EXCEPT !.pc = "aborting"]
             next == [recs[r] EXCEPT !.aborted = recs[r].handle, !.handle = FALSE]
  <1>1. clients[c].pc = "evaluating" /\ r \in DOMAIN recs /\ gate = {c}
    BY ClientFacts DEF Deadline, Following
  <1>2. /\ clients' = [clients EXCEPT ![c] = y] /\ recs' = [recs EXCEPT ![r] = next]
        /\ UNCHANGED <<table, generation, gate>>
    <2>1. recs \in Seq(Record)
      BY DEF OperationsInv, TypeInv
    <2> QED  BY <1>1, <2>1, ClientFacts DEF Deadline, listing
  <1>3. y \in [pc : Pcs, goal : {"none", "submit", "reset", "run"}, op : Nat] /\ y.pc = "aborting" /\ y.op = r
    BY ClientFacts DEF Pcs
  <1>4. recs \in Seq(Record) /\ recs[r] \in Record
    BY <1>1 DEF OperationsInv, TypeInv
  <1>5. next \in Record /\ next.id = recs[r].id /\ next.task = recs[r].task /\ next.marked = recs[r].marked
    BY <1>4 DEF Record
  <1> HIDE DEF y, next
  <1>6. clients'[c] = y /\ \A d \in Clients \ {c} : clients'[d] = clients[d] /\ clients[d].pc \in {"idle", "gate"}
    BY <1>1, <1>2, ClientFacts
  <1>7. /\ recs' \in Seq(Record) /\ DOMAIN recs' = DOMAIN recs /\ recs'[r] = next
        /\ \A q \in DOMAIN recs \ {r} : recs'[q] = recs[q]
    BY <1>1, <1>2, <1>4, <1>5
  <1>8. TypeInv'
    <2>1. clients' \in [Clients -> [pc : Pcs, goal : {"none", "submit", "reset", "run"}, op : Nat]]
      BY <1>2, <1>3, ClientFacts
    <2>2. \A d \in Clients : clients'[d].pc \in Following => clients'[d].op \in DOMAIN recs'
      BY <1>1, <1>3, <1>6, <1>7 DEF Following
    <2> QED  BY <1>2, <1>7, <2>1, <2>2 DEF OperationsInv, TypeInv
  <1>9. GateInv'
    BY <1>1, <1>2, <1>6 DEF GateInv
  <1>10. \A q : ~Pinned(q)'
    BY <1>3, <1>6 DEF Pinned
  <1>11. \A q \in DOMAIN recs : Settling(q)' => Settling(q)
    BY <1>5, <1>7, <1>10 DEF Settling
  <1>12. \A q \in DOMAIN recs : recs'[q].id = recs[q].id /\ (recs'[q].marked => recs'[q].task = "done")
    BY <1>5, <1>7 DEF OperationsInv, RecordInv
  <1>13. \A d \in Clients : clients'[d].pc # "retaining"
    BY <1>3, <1>6
  <1> HIDE DEF r
  <1> QED  BY <1>2, <1>7, <1>8, <1>9, <1>10, <1>11, <1>12, <1>13, Keeps

\* The steps of a client that change no record.
LEMMA WaitSteps ==
    ASSUME OperationsInv, NEW c \in Clients,
           \/ \E goal \in {"submit", "reset", "run"} : Ask(c, goal)
           \/ TakeGate(c) \/ GiveUp(c) \/ ResetEnd(c) \/ EndEvaluation(c) \/ AbortEnds(c)
    PROVE  OperationsInv'
  <1>1. ASSUME NEW goal \in {"submit", "reset", "run"}, Ask(c, goal) PROVE OperationsInv'
    <2> DEFINE y == [pc |-> "gate", goal |-> goal, op |-> 0]
    <2>1. clients' = [clients EXCEPT ![c] = y] /\ UNCHANGED <<recs, table, generation, gate>>
      BY <1>1 DEF Ask, listing
    <2>2. y \in [pc : Pcs, goal : {"none", "submit", "reset", "run"}, op : Nat] /\ y.pc = "gate"
      BY DEF Pcs
    <2> HIDE DEF y
    <2>3. clients'[c] = y
      BY <2>1, ClientFacts
    <2> QED  BY <2>1, <2>2, <2>3, ClientKeeps DEF Following
  <1>2. CASE TakeGate(c)
    <2> DEFINE y == [clients[c] EXCEPT !.pc = IF clients[c].goal = "submit" THEN "submit" ELSE "write"]
    <2>1. clients' = [clients EXCEPT ![c] = y] /\ gate = {} /\ gate' = {c} /\ UNCHANGED <<recs, table, generation>>
      BY <1>2 DEF TakeGate, listing
    <2>2. y \in [pc : Pcs, goal : {"none", "submit", "reset", "run"}, op : Nat] /\ y.pc \in {"submit", "write"}
      BY ClientFacts DEF Pcs
    <2> HIDE DEF y
    <2>3. clients'[c] = y
      BY <2>1, ClientFacts
    <2> QED  BY <2>1, <2>2, <2>3, ClientKeeps DEF Following
  <1>3. CASE GiveUp(c) \/ EndEvaluation(c) \/ AbortEnds(c)
    BY <1>3, LeaveKeeps DEF GiveUp, EndEvaluation, AbortEnds, listing
  <1>4. CASE ResetEnd(c)
    <2>1. CASE clients[c].goal = "run"
      <3> DEFINE y == [clients[c] EXCEPT !.pc = "submit"]
      <3>1. clients' = [clients EXCEPT ![c] = y] /\ gate = {c} /\ UNCHANGED <<recs, table, generation, gate>>
        BY <1>4, <2>1, ClientFacts DEF ResetEnd, listing
      <3>2. y \in [pc : Pcs, goal : {"none", "submit", "reset", "run"}, op : Nat] /\ y.pc = "submit"
        BY ClientFacts DEF Pcs
      <3> HIDE DEF y
      <3>3. clients'[c] = y
        BY <3>1, ClientFacts
      <3> QED  BY <3>1, <3>2, <3>3, ClientKeeps DEF Following
    <2>2. CASE clients[c].goal # "run"
      BY <1>4, <2>2, LeaveKeeps DEF ResetEnd, listing
    <2> QED  BY <2>1, <2>2
  <1> QED  BY <1>1, <1>2, <1>3, <1>4

-----------------------------------------------------------------------------
(* The theorem. *)

LEMMA OperationsInit == Init => OperationsInv
  <1> SUFFICES ASSUME Init PROVE OperationsInv
    OBVIOUS
  <1>1. recs = <<>> /\ DOMAIN recs = {} /\ recs \in Seq(Record)
    BY DEF Init
  <1>2. \A c \in Clients : clients[c] = Away
    BY DEF Init
  <1>3. Away \in [pc : Pcs, goal : {"none", "submit", "reset", "run"}, op : Nat] /\ Away.pc = "idle"
    BY DEF Away, Pcs
  <1>4. TypeInv
    BY <1>1, <1>2, <1>3 DEF Init, TypeInv, Following
  <1> QED  BY <1>1, <1>2, <1>3, <1>4 DEF OperationsInv, GateInv, RecordInv, ListedInv, ResetInv, UniqueInv

LEMMA OperationsStep == OperationsInv /\ [Next]_vars => OperationsInv'
  <1> SUFFICES ASSUME OperationsInv, [Next]_vars PROVE OperationsInv'
    OBVIOUS
  <1>1. CASE UNCHANGED vars
    BY <1>1 DEF vars, OperationsInv, TypeInv, GateInv, RecordInv, ListedInv, ResetInv, UniqueInv, Settling, Pinned, OfPast
  <1>2. ASSUME NEW c \in Clients, ClientStep(c) PROVE OperationsInv'
    BY <1>2, SubmitSteps, PinStep, ResetBeginStep, RetainStep, DeadlineStep, WaitSteps DEF ClientStep
  <1>3. ASSUME NEW r \in DOMAIN recs, TaskStep(r) PROVE OperationsInv'
    BY <1>3, TaskSteps, ResultStep DEF TaskStep
  <1> QED  BY <1>1, <1>2, <1>3 DEF Next

\* At most one task or watcher carries an operation identity: an idempotent retry
\* is answered from its record until everything about the first attempt is over,
\* whatever is evicted, reset or cancelled in between (submit, evict_terminal,
\* begin_test_reset, retain_dispatch_operations).
THEOREM IdentityCarriedOnce == Spec => []OneTaskPerIdentity
  <1>1. OperationsInv => OneTaskPerIdentity
    BY DEF OperationsInv, UniqueInv, Settling, Idle, OneTaskPerIdentity
  <1> QED  BY <1>1, OperationsInit, OperationsStep, PTL DEF Spec

-----------------------------------------------------------------------------
(* Evaluations: the inductive invariant. *)

VerdictSnapshots == [items : Seq(Expected \cup Extra), conflicts : Nat, failed : BOOLEAN, revision : Nat]

\* The evidence is as it was at time t, when it had b items, or carries a mark since.
VerdictQuiet(b, t) ==
    changed <= t \/ Len(evidence.items) > b \/ evidence.conflicts # 0 \/ evidence.failed

\* What was seen is a beginning of the evidence, and all of it while the revision stands.
VerdictSeenIsPart(s) ==
    /\ s \in VerdictSnapshots /\ s.revision <= evidence.revision /\ Len(s.items) <= Len(evidence.items)
    /\ s.revision = evidence.revision => s = evidence

VerdictClockInv ==
    /\ now \in Nat /\ changed \in Nat /\ changed <= now
    /\ evidence \in VerdictSnapshots /\ evidence.revision > 0

VerdictRound(p, o, s, a, t, b, f, w, l, r) ==
    [pc |-> p, op |-> o, seen |-> s, at |-> a, settle |-> t, boundary |-> b, final |-> f, wake |-> w,
     last |-> l, report |-> r]

VerdictIsRound(e) ==
    e = VerdictRound(e.pc, e.op, e.seen, e.at, e.settle, e.boundary, e.final, e.wake, e.last, e.report)

\* The round's snapshots are of the past; settling began on all the evidence there
\* was, of a completed operation, and what is compared last was read after it ended.
VerdictRoundInv(e) ==
    /\ VerdictSeenIsPart(e.seen)
    /\ e.at \in Nat /\ e.settle \in Nat /\ e.boundary \in Nat
    /\ e.op # "running" => status = e.op
    /\ e.pc = "decide" => VerdictQuiet(Len(e.seen.items), now)
    /\ e.pc = "compare" => e.at <= now /\ VerdictQuiet(Len(e.seen.items), e.at)
    /\ e.pc = "compare" /\ e.final => e.settle # 0 /\ e.settle <= e.at
    /\ e.settle # 0 =>
          /\ e.op = "completed" /\ e.boundary <= Len(evidence.items)
          /\ \E t \in Nat : e.settle = t + SettleFor /\ VerdictQuiet(e.boundary, t)

VerdictInv == VerdictClockInv /\ VerdictIsRound(ev) /\ VerdictRoundInv(ev)

PassIsSettled == ev'.report.status = "passed" /\ ev.report.status # "passed" =>
          LET r == ev'.report
          IN  /\ r.evidence = evidence /\ r.op = "completed"
              /\ now - changed >= SettleFor
              /\ Verdict!Range(evidence.items) = Expected /\ evidence.conflicts = 0 /\ ~evidence.failed

-----------------------------------------------------------------------------
LEMMA VerdictLengths ==
    \A s \in VerdictSnapshots : Len(s.items) \in Nat /\ s.revision \in Nat /\ s.conflicts \in Nat /\ s.failed \in BOOLEAN
BY DEF VerdictSnapshots

\* A step of the evaluation: the rest stands still.
LEMMA VerdictRoundStep ==
    ASSUME VerdictInv, NEW e, Verdict!Evaluating(e), VerdictIsRound(e), VerdictRoundInv(e)
    PROVE  VerdictInv'
BY DEF VerdictInv, VerdictClockInv, VerdictIsRound, VerdictRoundInv, Verdict!Evaluating, VerdictQuiet,
    VerdictSeenIsPart

\* The round's other variables.
LEMMA VerdictFreshEvidence ==
    ASSUME VerdictInv, NEW s \in VerdictSnapshots, Verdict!Evidence(s), s.revision = evidence.revision,
           Len(s.items) >= Len(evidence.items), s.conflicts >= evidence.conflicts, evidence.failed => s.failed,
           Len(s.items) > Len(evidence.items) \/ s.conflicts # 0 \/ s.failed
    PROVE  VerdictInv' /\ ev' = ev
<1>1. PICK x : x = [s EXCEPT !.revision = s.revision + 1] OBVIOUS
<1>2. x \in VerdictSnapshots /\ x.items = s.items /\ x.conflicts = s.conflicts /\ x.failed = s.failed
      /\ x.revision = s.revision + 1
  BY <1>1 DEF VerdictSnapshots
<1>3. evidence' = x /\ changed' = now /\ UNCHANGED <<now, status, open, ev, cap>> BY <1>1 DEF Verdict!Evidence
<1>4. VerdictClockInv' BY <1>2, <1>3, VerdictLengths DEF VerdictInv, VerdictClockInv
<1>5. \A b, t \in Nat : VerdictQuiet(b, t) /\ b <= Len(evidence.items) => VerdictQuiet(b, t)'
  BY <1>2, <1>3, VerdictLengths DEF VerdictInv, VerdictClockInv, VerdictQuiet
<1>6. VerdictSeenIsPart(ev.seen)'
  <2>1. PICK y : y = ev.seen OBVIOUS
  <2>2. VerdictSeenIsPart(y) BY <2>1 DEF VerdictInv, VerdictRoundInv
  <2>3. evidence \in VerdictSnapshots BY DEF VerdictInv, VerdictClockInv
  <2>4. PICK n, k, l, i, j \in Nat : /\ n = y.revision /\ k = evidence.revision /\ l = Len(y.items)
                                    /\ i = Len(evidence.items) /\ j = Len(s.items)
    BY <2>2, <2>3, VerdictLengths DEF VerdictSeenIsPart
  <2>5. n <= k /\ l <= i /\ i <= j BY <2>2, <2>4 DEF VerdictSeenIsPart
  <2>6. x.revision = k + 1 /\ Len(x.items) = j BY <1>2, <2>4
  <2>7. y.revision <= x.revision /\ Len(y.items) <= Len(x.items) /\ y.revision # x.revision
    BY <2>4, <2>5, <2>6
  <2>8. ev'.seen = y BY <1>3, <2>1
  <2> QED BY <1>3, <2>2, <2>7, <2>8 DEF VerdictSeenIsPart
<1>7. Len(evidence.items) <= Len(evidence.items)' /\ Len(evidence.items) \in Nat /\ Len(evidence'.items) \in Nat
  BY <1>2, <1>3, VerdictLengths DEF VerdictInv, VerdictClockInv
<1>8. Len(ev.seen.items) \in Nat /\ Len(ev.seen.items) <= Len(evidence.items)
  BY VerdictLengths DEF VerdictInv, VerdictRoundInv, VerdictSeenIsPart
<1>9. VerdictRoundInv(ev)'
  BY <1>3, <1>5, <1>6, <1>7, <1>8 DEF VerdictInv, VerdictClockInv, VerdictRoundInv
<1> QED BY <1>3, <1>4, <1>9 DEF VerdictInv, VerdictIsRound

LEMMA VerdictEvidenceSteps ==
    ASSUME VerdictInv, Verdict!ObserveMessage \/ Verdict!ObserveConflict \/ Verdict!ObservationFails
    PROVE  VerdictInv' /\ ev' = ev
<1>1. evidence \in VerdictSnapshots BY DEF VerdictInv, VerdictClockInv
<1>2. evidence.items \in Seq(Expected \cup Extra) /\ evidence.conflicts \in Nat BY <1>1 DEF VerdictSnapshots
<1>3. Len(evidence.items) \in Nat BY <1>2
<1>4. CASE Verdict!ObserveMessage
  <2>1. PICK m \in Expected \cup Extra : Verdict!Evidence([evidence EXCEPT !.items = Append(evidence.items, m)])
    BY <1>4 DEF Verdict!ObserveMessage
  <2>2. PICK q \in Seq(Expected \cup Extra) : q = Append(evidence.items, m) /\ Len(q) = Len(evidence.items) + 1
    <3>1. PICK S, i : S = Expected \cup Extra /\ i = evidence.items OBVIOUS
    <3>2. m \in S /\ i \in Seq(S) BY <1>2, <2>1, <3>1
    <3>3. Append(i, m) \in Seq(S) /\ Len(Append(i, m)) = Len(i) + 1 BY ONLY <3>2
    <3> QED BY <3>1, <3>3
  <2>3. PICK s : s = [evidence EXCEPT !.items = q] /\ Verdict!Evidence(s) BY <2>1, <2>2
  <2>4. s \in VerdictSnapshots /\ s.revision = evidence.revision /\ s.conflicts = evidence.conflicts
        /\ s.failed = evidence.failed /\ s.items = q
    BY <1>1, <2>3 DEF VerdictSnapshots
  <2>5. Len(s.items) > Len(evidence.items) /\ Len(s.items) >= Len(evidence.items) BY <1>3, <2>2, <2>4
  <2>6. s.conflicts >= evidence.conflicts BY <1>2, <2>4
  <2> QED BY <2>3, <2>4, <2>5, <2>6, VerdictFreshEvidence
<1>5. CASE Verdict!ObserveConflict
  <2>1. PICK s : s = [evidence EXCEPT !.conflicts = evidence.conflicts + 1] /\ Verdict!Evidence(s)
    BY <1>5 DEF Verdict!ObserveConflict
  <2>2. s \in VerdictSnapshots /\ s.revision = evidence.revision /\ s.conflicts = evidence.conflicts + 1
        /\ s.failed = evidence.failed /\ s.items = evidence.items
    BY <1>1, <2>1 DEF VerdictSnapshots
  <2>3. s.conflicts # 0 /\ s.conflicts >= evidence.conflicts /\ Len(s.items) >= Len(evidence.items)
    BY <1>2, <1>3, <2>2
  <2> QED BY <2>1, <2>2, <2>3, VerdictFreshEvidence
<1>6. CASE Verdict!ObservationFails
  <2>1. PICK s : s = [evidence EXCEPT !.failed = TRUE] /\ Verdict!Evidence(s) BY <1>6 DEF Verdict!ObservationFails
  <2>2. s \in VerdictSnapshots /\ s.revision = evidence.revision /\ s.conflicts = evidence.conflicts
        /\ s.failed = TRUE /\ s.items = evidence.items
    BY <1>1, <2>1 DEF VerdictSnapshots
  <2>3. s.conflicts >= evidence.conflicts /\ Len(s.items) >= Len(evidence.items) BY <1>2, <1>3, <2>2
  <2> QED BY <2>1, <2>2, <2>3, VerdictFreshEvidence
<1> QED BY <1>4, <1>5, <1>6

\* Time passes, the operation ends, the correlation closes and captures go on.
LEMMA VerdictOtherSteps ==
    ASSUME VerdictInv, Verdict!Tick \/ Verdict!OperationEnds \/ Verdict!CloseCorrelation \/ Verdict!Capture \/ UNCHANGED Verdict!vars
    PROVE  VerdictInv' /\ ev' = ev
<1>1. CASE Verdict!Tick
  <2>1. now' = now + 1 /\ UNCHANGED <<status, evidence, changed, ev>> BY <1>1 DEF Verdict!Tick
  <2>2. now \in Nat /\ changed \in Nat BY DEF VerdictInv, VerdictClockInv
  <2>3. VerdictClockInv' BY <2>1 DEF VerdictInv, VerdictClockInv
  <2>4. \A b : VerdictQuiet(b, now) => VerdictQuiet(b, now)' BY <2>1, <2>2 DEF VerdictQuiet
  <2>5. \A b, t : VerdictQuiet(b, t)' = VerdictQuiet(b, t) BY <2>1 DEF VerdictQuiet
  <2>6. VerdictSeenIsPart(ev.seen)' BY <2>1 DEF VerdictInv, VerdictRoundInv, VerdictSeenIsPart
  <2>7. VerdictRoundInv(ev)' BY <2>1, <2>2, <2>4, <2>5, <2>6 DEF VerdictInv, VerdictRoundInv
  <2> QED BY <2>1, <2>3, <2>7 DEF VerdictInv, VerdictIsRound
<1>2. CASE Verdict!OperationEnds
  <2>1. status = "running" /\ UNCHANGED <<now, evidence, changed, ev>> BY <1>2 DEF Verdict!OperationEnds
  <2>2. ev.op = "running" BY <2>1 DEF VerdictInv, VerdictRoundInv
  <2> QED BY <2>1, <2>2 DEF VerdictInv, VerdictClockInv, VerdictRoundInv, VerdictIsRound, VerdictSeenIsPart,
      VerdictQuiet
<1>3. CASE Verdict!CloseCorrelation \/ Verdict!Capture \/ UNCHANGED Verdict!vars
  <2>1. UNCHANGED <<now, status, evidence, changed, ev>>
    BY <1>3 DEF Verdict!CloseCorrelation, Verdict!Capture, Verdict!Capturing, Verdict!CaptureTerminal,
        Verdict!CaptureUnfinished, Verdict!CaptureChanged, Verdict!CaptureTimer,
                Verdict!CaptureLate, Verdict!CaptureCheck, Verdict!CaptureClosed, Verdict!vars
  <2> QED BY <2>1 DEF VerdictInv, VerdictClockInv, VerdictRoundInv, VerdictIsRound, VerdictSeenIsPart, VerdictQuiet
<1> QED BY <1>1, <1>2, <1>3

-----------------------------------------------------------------------------
\* What the fields of ev are called in the steps below.
LEMMA VerdictReports ==
    ASSUME VerdictInv, NEW v, NEW of, NEW basis, NEW why, NEW x, x = Verdict!Report(v, of, basis, why)
    PROVE  /\ VerdictIsRound(x) /\ VerdictRoundInv(x)
           /\ x.report.status = v /\ x.report.evidence = of /\ x.report.op = ev.op
<1>1. PICK r : r = [status |-> v, evidence |-> of, op |-> ev.op, basis |-> basis, why |-> why, at |-> now] OBVIOUS
<1>2. PICK y : y = VerdictRound("done", ev.op, ev.seen, ev.at, ev.settle, ev.boundary, ev.final, ev.wake, ev.last, r) OBVIOUS
<1>3. x = y
  <2>1. x = [[ev EXCEPT !.pc = "done"] EXCEPT !.report = r] BY <1>1 DEF Verdict!Report
  <2> QED BY <1>2, <2>1 DEF VerdictInv, VerdictIsRound, VerdictRound
<1>4. y.report = r /\ y.pc = "done" /\ y.op = ev.op /\ y.seen = ev.seen /\ y.at = ev.at /\ y.settle = ev.settle
      /\ y.boundary = ev.boundary /\ VerdictIsRound(y)
  BY <1>2 DEF VerdictRound, VerdictIsRound
<1>5. VerdictRoundInv(x) BY <1>3, <1>4 DEF VerdictInv, VerdictRoundInv
<1> QED BY <1>1, <1>3, <1>4, <1>5

LEMMA VerdictMoves ==
    ASSUME VerdictInv, NEW p, NEW x, x = [ev EXCEPT !.pc = p], p \notin {"decide", "compare"}
    PROVE  VerdictIsRound(x) /\ VerdictRoundInv(x) /\ x.report = ev.report
<1>1. x = VerdictRound(p, ev.op, ev.seen, ev.at, ev.settle, ev.boundary, ev.final, ev.wake, ev.last, ev.report)
  BY DEF VerdictInv, VerdictIsRound, VerdictRound
<1>2. x.report = ev.report /\ x.pc = p /\ x.op = ev.op /\ x.seen = ev.seen /\ x.at = ev.at /\ x.settle = ev.settle
      /\ x.boundary = ev.boundary /\ VerdictIsRound(x)
  BY <1>1 DEF VerdictRound, VerdictIsRound
<1> QED BY <1>2 DEF VerdictInv, VerdictRoundInv

LEMMA VerdictSnapshotSteps ==
    ASSUME VerdictInv, Verdict!SnapshotOperation \/ Verdict!SnapshotEvidence
    PROVE  VerdictInv' /\ ev'.report = ev.report
<1>1. CASE Verdict!SnapshotOperation
  <2>1. PICK x : x = [ev EXCEPT !.pc = "evidence", !.op = status] /\ Verdict!Evaluating(x)
    BY <1>1 DEF Verdict!SnapshotOperation
  <2>2. x = [[ev EXCEPT !.pc = "evidence"] EXCEPT !.op = status] BY <2>1
  <2>3. x = VerdictRound("evidence", status, ev.seen, ev.at, ev.settle, ev.boundary, ev.final, ev.wake, ev.last, ev.report)
    BY <2>2 DEF VerdictInv, VerdictIsRound, VerdictRound
  <2>4. x.report = ev.report /\ x.pc = "evidence" /\ x.op = status /\ x.seen = ev.seen /\ x.at = ev.at
        /\ x.settle = ev.settle /\ x.boundary = ev.boundary /\ VerdictIsRound(x)
    BY <2>3 DEF VerdictRound, VerdictIsRound
  <2>5. VerdictRoundInv(x) BY <2>4 DEF VerdictInv, VerdictRoundInv
  <2> QED BY <2>1, <2>4, <2>5, VerdictRoundStep DEF Verdict!Evaluating
<1>2. CASE Verdict!SnapshotEvidence
  <2>1. PICK x : x = [ev EXCEPT !.pc = "decide", !.seen = evidence] /\ Verdict!Evaluating(x)
    BY <1>2 DEF Verdict!SnapshotEvidence
  <2>2. x = [[ev EXCEPT !.pc = "decide"] EXCEPT !.seen = evidence] BY <2>1
  <2>3. x = VerdictRound("decide", ev.op, evidence, ev.at, ev.settle, ev.boundary, ev.final, ev.wake, ev.last, ev.report)
    BY <2>2 DEF VerdictInv, VerdictIsRound, VerdictRound
  <2>4. x.report = ev.report /\ x.pc = "decide" /\ x.op = ev.op /\ x.seen = evidence /\ x.at = ev.at
        /\ x.settle = ev.settle /\ x.boundary = ev.boundary /\ VerdictIsRound(x)
    BY <2>3 DEF VerdictRound, VerdictIsRound
  <2>5. VerdictSeenIsPart(evidence) BY VerdictLengths DEF VerdictInv, VerdictClockInv, VerdictSeenIsPart
  <2>6. VerdictQuiet(Len(evidence.items), now) BY DEF VerdictInv, VerdictClockInv, VerdictQuiet
  <2>7. VerdictRoundInv(x) BY <2>4, <2>5, <2>6 DEF VerdictInv, VerdictRoundInv
  <2> QED BY <2>1, <2>4, <2>7, VerdictRoundStep DEF Verdict!Evaluating
<1> QED BY <1>1, <1>2

LEMMA VerdictDecideStep ==
    ASSUME VerdictInv, Verdict!Decide
    PROVE  VerdictInv' /\ (ev'.report = ev.report \/ ev'.report.status # "passed")
<1>1. \/ \E v \in {"error", "failed"} : \E basis, why : Verdict!Evaluating(Verdict!Report(v, ev.seen, basis, why))
      \/ Verdict!Evaluating([ev EXCEPT !.pc = "abort"])
      \/ Verdict!Evaluating([ev EXCEPT !.pc = "compare", !.at = now,
                               !.final = ev.settle # 0 /\ ev.settle <= Within /\ now >= ev.settle])
  BY DEF Verdict!Decide
<1>2. ASSUME NEW v \in {"error", "failed"}, NEW basis, NEW why, Verdict!Evaluating(Verdict!Report(v, ev.seen, basis, why))
      PROVE  VerdictInv' /\ ev'.report.status # "passed"
  BY <1>2, VerdictReports, VerdictRoundStep DEF Verdict!Evaluating
<1>3. CASE Verdict!Evaluating([ev EXCEPT !.pc = "abort"])
  BY <1>3, VerdictMoves, VerdictRoundStep DEF Verdict!Evaluating
<1>4. ASSUME Verdict!Evaluating([ev EXCEPT !.pc = "compare", !.at = now,
                               !.final = ev.settle # 0 /\ ev.settle <= Within /\ now >= ev.settle])
      PROVE  VerdictInv' /\ ev'.report = ev.report
  <2>1. PICK f \in BOOLEAN : f = (ev.settle # 0 /\ ev.settle <= Within /\ now >= ev.settle) OBVIOUS
  <2>2. PICK x : x = [ev EXCEPT !.pc = "compare", !.at = now, !.final = f] /\ Verdict!Evaluating(x) BY <1>4, <2>1
  <2>3. x = [[[ev EXCEPT !.pc = "compare"] EXCEPT !.at = now] EXCEPT !.final = f] BY <2>2
  <2>4. x = VerdictRound("compare", ev.op, ev.seen, now, ev.settle, ev.boundary, f, ev.wake, ev.last, ev.report)
    BY <2>3 DEF VerdictInv, VerdictIsRound, VerdictRound
  <2>5. x.report = ev.report /\ x.pc = "compare" /\ x.op = ev.op /\ x.seen = ev.seen /\ x.at = now
        /\ x.settle = ev.settle /\ x.boundary = ev.boundary /\ x.final = f /\ VerdictIsRound(x)
    BY <2>4 DEF VerdictRound, VerdictIsRound
  <2>6. now \in Nat /\ ev.settle \in Nat /\ ev.pc = "decide"
    BY DEF VerdictInv, VerdictClockInv, VerdictRoundInv, Verdict!Decide, Verdict!At
  <2>7. f => ev.settle # 0 /\ ev.settle <= now BY <2>1, <2>6
  <2>8. VerdictRoundInv(x) BY <2>5, <2>6, <2>7 DEF VerdictInv, VerdictRoundInv
  <2> QED BY <2>2, <2>5, <2>8, VerdictRoundStep DEF Verdict!Evaluating
<1> QED BY <1>1, <1>2, <1>3, <1>4

LEMMA VerdictCompareFinalStep ==
    ASSUME VerdictInv, Verdict!CompareFinal
    PROVE  VerdictInv' /\ PassIsSettled
<1>1. CASE Verdict!StillCurrent
  <2>1. PICK v, x : /\ v = (IF Verdict!Passes(ev.seen) THEN "passed" ELSE "failed")
                    /\ x = Verdict!Report(v, ev.seen, ev.seen.revision, "settled") /\ Verdict!Evaluating(x)
    BY <1>1 DEF Verdict!CompareFinal
  <2>2. VerdictInv' /\ ev' = x /\ x.report.status = v /\ x.report.evidence = ev.seen /\ x.report.op = ev.op
    BY <2>1, VerdictReports, VerdictRoundStep DEF Verdict!Evaluating
  <2>3. ev.seen = evidence BY <1>1 DEF Verdict!StillCurrent, VerdictInv, VerdictRoundInv, VerdictSeenIsPart
  <2>4. ASSUME v = "passed" PROVE Verdict!Passes(evidence) BY <2>1, <2>3, <2>4
  <2>5. ev.settle # 0 /\ ev.settle <= ev.at /\ ev.at <= now /\ ev.op = "completed"
    BY DEF Verdict!CompareFinal, Verdict!At, VerdictInv, VerdictRoundInv
  <2>6. PICK t \in Nat : ev.settle = t + SettleFor /\ VerdictQuiet(ev.boundary, t)
    BY <2>5 DEF VerdictInv, VerdictRoundInv
  <2>7. now \in Nat /\ changed \in Nat /\ SettleFor \in Nat /\ ev.at \in Nat /\ ev.boundary \in Nat
        /\ Len(evidence.items) \in Nat
    BY VerdictAssumption, VerdictLengths DEF Verdict!EvaluationAssumption, VerdictInv, VerdictClockInv,
        VerdictRoundInv
  <2>8. ASSUME v = "passed" PROVE changed <= t BY <2>4, <2>5, <2>6, <2>7, <2>8 DEF Verdict!Passes, VerdictQuiet
  <2>9. ASSUME v = "passed" PROVE now - changed >= SettleFor BY <2>5, <2>6, <2>7, <2>8, <2>9
  <2> QED BY <2>2, <2>3, <2>4, <2>5, <2>9 DEF PassIsSettled, Verdict!Passes
<1>2. CASE ~Verdict!StillCurrent
  <2>1. Verdict!Evaluating([ev EXCEPT !.pc = "operation"]) BY <1>2 DEF Verdict!CompareFinal
  <2> QED BY <2>1, VerdictMoves, VerdictRoundStep DEF Verdict!Evaluating, PassIsSettled
<1> QED BY <1>1, <1>2

LEMMA VerdictCompareStep ==
    ASSUME VerdictInv, Verdict!Compare
    PROVE  VerdictInv' /\ (ev'.report = ev.report \/ ev'.report.status # "passed")
<1> DEFINE l == [revision |-> ev.seen.revision, passed |-> Verdict!Passes(ev.seen)]
           c == [ev EXCEPT !.last = l]
<1>1. PICK k : k = c OBVIOUS
<1>2. k = VerdictRound(ev.pc, ev.op, ev.seen, ev.at, ev.settle, ev.boundary, ev.final, ev.wake, l, ev.report)
  BY <1>1 DEF VerdictInv, VerdictIsRound, VerdictRound
<1>3. CASE Verdict!Hopeless
  <2>1. Verdict!Evaluating(Verdict!Report("failed", ev.seen, ev.seen.revision, "settling"))
    BY <1>3 DEF Verdict!Compare
  <2> QED BY <2>1, VerdictReports, VerdictRoundStep DEF Verdict!Evaluating
<1>4. CASE ~Verdict!Hopeless /\ Verdict!StartsSettling
  <2>1. PICK b, t : b = Len(ev.seen.items) /\ t = ev.at + SettleFor OBVIOUS
  <2>2. PICK x : x = [k EXCEPT !.pc = "operation", !.boundary = b, !.settle = t] /\ Verdict!Evaluating(x)
    BY <1>1, <1>4, <2>1 DEF Verdict!Compare
  <2>3. x = [[[k EXCEPT !.pc = "operation"] EXCEPT !.boundary = b] EXCEPT !.settle = t] BY <2>2
  <2>4. x = VerdictRound("operation", ev.op, ev.seen, ev.at, t, b, ev.final, ev.wake, l, ev.report)
    BY <1>2, <2>3 DEF VerdictRound
  <2>5. x.report = ev.report /\ x.pc = "operation" /\ x.op = ev.op /\ x.seen = ev.seen /\ x.at = ev.at
        /\ x.settle = t /\ x.boundary = b /\ VerdictIsRound(x)
    BY <2>4 DEF VerdictRound, VerdictIsRound
  <2>6. ev.op = "completed" BY <1>4 DEF Verdict!StartsSettling
  <2>7. ev.at \in Nat /\ VerdictQuiet(b, ev.at) /\ b \in Nat /\ b <= Len(evidence.items)
    BY <2>1, VerdictLengths DEF Verdict!Compare, Verdict!At, VerdictInv, VerdictRoundInv, VerdictSeenIsPart
  <2>8. t \in Nat BY <2>1, <2>7, VerdictAssumption DEF Verdict!EvaluationAssumption
  <2>9. VerdictRoundInv(x) BY <2>1, <2>5, <2>6, <2>7, <2>8 DEF VerdictInv, VerdictRoundInv
  <2> QED BY <2>2, <2>5, <2>9, VerdictRoundStep DEF Verdict!Evaluating
<1>5. CASE ~Verdict!Hopeless /\ ~Verdict!StartsSettling
  <2>1. PICK w : Verdict!Evaluating([k EXCEPT !.pc = "sleep", !.wake = w]) BY <1>1, <1>5 DEF Verdict!Compare
  <2>2. PICK x : x = [k EXCEPT !.pc = "sleep", !.wake = w] /\ Verdict!Evaluating(x) BY <2>1
  <2>3. x = [[k EXCEPT !.pc = "sleep"] EXCEPT !.wake = w] BY <2>2
  <2>4. x = VerdictRound("sleep", ev.op, ev.seen, ev.at, ev.settle, ev.boundary, ev.final, w, l, ev.report)
    BY <1>2, <2>3 DEF VerdictRound
  <2>5. x.report = ev.report /\ x.pc = "sleep" /\ x.op = ev.op /\ x.seen = ev.seen /\ x.at = ev.at
        /\ x.settle = ev.settle /\ x.boundary = ev.boundary /\ VerdictIsRound(x)
    BY <2>4 DEF VerdictRound, VerdictIsRound
  <2>6. VerdictRoundInv(x) BY <2>5 DEF VerdictInv, VerdictRoundInv
  <2> QED BY <2>2, <2>5, <2>6, VerdictRoundStep DEF Verdict!Evaluating
<1> QED BY <1>3, <1>4, <1>5

LEMMA VerdictEndSteps ==
    ASSUME VerdictInv, Verdict!Wake \/ Verdict!TimedOut \/ Verdict!ComparisonTimesOut \/ Verdict!ComparisonGivesUp
    PROVE  VerdictInv' /\ (ev'.report = ev.report \/ ev'.report.status # "passed")
<1>1. CASE Verdict!Wake \/ Verdict!ComparisonTimesOut
  BY <1>1, VerdictMoves, VerdictRoundStep DEF Verdict!Wake, Verdict!ComparisonTimesOut, Verdict!Evaluating
<1>2. CASE Verdict!ComparisonGivesUp
  BY <1>2, VerdictReports, VerdictRoundStep DEF Verdict!ComparisonGivesUp, Verdict!Evaluating
<1>3. CASE Verdict!TimedOut
  <2>1. PICK y : y = Verdict!Report("failed", evidence, Verdict!LastDescribing, "timeout") OBVIOUS
  <2>2. VerdictIsRound(y) /\ VerdictRoundInv(y) BY <2>1, VerdictReports
  <2>3. PICK r : r = [status |-> "failed", evidence |-> evidence, op |-> status, basis |-> Verdict!LastDescribing,
                      why |-> "timeout", at |-> now] OBVIOUS
  <2>4. y.report = [status |-> "failed", evidence |-> evidence, op |-> ev.op, basis |-> Verdict!LastDescribing,
                    why |-> "timeout", at |-> now]
    <3>1. PICK q : q = [status |-> "failed", evidence |-> evidence, op |-> ev.op, basis |-> Verdict!LastDescribing,
                        why |-> "timeout", at |-> now] OBVIOUS
    <3>2. y = [[ev EXCEPT !.pc = "done"] EXCEPT !.report = q] BY <2>1, <3>1 DEF Verdict!Report
    <3> QED BY <3>1, <3>2 DEF VerdictInv, VerdictIsRound, VerdictRound
  <2>5. PICK x : x = [y EXCEPT !.report.op = status] /\ Verdict!Evaluating(x) BY <1>3, <2>1 DEF Verdict!TimedOut
  <2>6. x = [y EXCEPT !.report = [y.report EXCEPT !.op = status]] BY <2>5
  <2>7. [y.report EXCEPT !.op = status] = r BY <2>3, <2>4
  <2>8. x = VerdictRound(y.pc, y.op, y.seen, y.at, y.settle, y.boundary, y.final, y.wake, y.last, r)
    BY <2>2, <2>6, <2>7 DEF VerdictIsRound, VerdictRound
  <2>9. x.report = r /\ x.pc = y.pc /\ x.op = y.op /\ x.seen = y.seen /\ x.at = y.at /\ x.final = y.final
        /\ x.settle = y.settle /\ x.boundary = y.boundary /\ VerdictIsRound(x)
    BY <2>8 DEF VerdictRound, VerdictIsRound
  <2>10. VerdictRoundInv(x) BY <2>2, <2>9 DEF VerdictRoundInv
  <2> QED BY <2>3, <2>5, <2>9, <2>10, VerdictRoundStep DEF Verdict!Evaluating
<1> QED BY <1>1, <1>2, <1>3

LEMMA VerdictInit == Verdict!Init => VerdictInv
<1> SUFFICES ASSUME Verdict!Init PROVE VerdictInv
  OBVIOUS
<1>1. PICK s : s = [items |-> <<>>, conflicts |-> 0, failed |-> FALSE, revision |-> 0] OBVIOUS
<1>2. PICK p : p = IF "run" \in Readers THEN "operation" ELSE "done" OBVIOUS
<1>3. ev = VerdictRound(p, "running", s, 0, 0, 0, FALSE, 0, Verdict!NoComparison, Verdict!NoReport)
  BY <1>1, <1>2 DEF Verdict!Init, Verdict!NewEvaluation, VerdictRound
<1>4. VerdictIsRound(ev) /\ ev.seen = s /\ ev.at = 0 /\ ev.settle = 0 /\ ev.boundary = 0 /\ ev.op = "running" /\ ev.pc = p
  BY <1>3 DEF VerdictRound, VerdictIsRound
<1>5. p \notin {"decide", "compare"} BY <1>2
<1>6. s \in VerdictSnapshots /\ evidence \in VerdictSnapshots /\ s.revision = 0 /\ evidence.revision = 1
      /\ Len(s.items) = 0 /\ Len(evidence.items) = 0
  BY <1>1 DEF Verdict!Init, VerdictSnapshots
<1>7. VerdictSeenIsPart(s) BY <1>6 DEF VerdictSeenIsPart
<1>8. VerdictRoundInv(ev) BY <1>4, <1>5, <1>7 DEF VerdictRoundInv
<1> QED BY <1>4, <1>6, <1>8 DEF Verdict!Init, VerdictInv, VerdictClockInv

LEMMA VerdictNext ==
    ASSUME VerdictInv, [Verdict!Next]_(Verdict!vars)
    PROVE  VerdictInv' /\ PassIsSettled
<1>1. CASE ev' = ev /\ VerdictInv' BY <1>1 DEF PassIsSettled
<1>2. CASE VerdictInv' /\ (ev'.report = ev.report \/ ev'.report.status # "passed") BY <1>2 DEF PassIsSettled
<1> QED BY <1>1, <1>2, VerdictEvidenceSteps, VerdictOtherSteps, VerdictSnapshotSteps, VerdictDecideStep,
    VerdictCompareFinalStep, VerdictCompareStep, VerdictEndSteps
        DEF Verdict!Next, Verdict!Evaluate

\* A test passes only on evidence that is what the correlation holds at that moment,
\* has been so for the whole settling window and is exactly what was expected of a
\* completed operation, whenever observers add to it between the two snapshots of a
\* round, the comparison and its report (evaluate_test_subject).
THEOREM PassedWasSettled == Verdict!Spec => PassedIsSettled
<1>1. VerdictInv /\ [Verdict!Next]_(Verdict!vars) => VerdictInv' /\ [PassIsSettled]_(Verdict!vars) BY VerdictNext
<1>2. PassedIsSettled <=> [][PassIsSettled]_(Verdict!vars)
  BY DEF PassedIsSettled, Verdict!PassedIsSettled, PassIsSettled
<1> QED BY <1>1, <1>2, VerdictInit, PTL DEF Verdict!Spec

-----------------------------------------------------------------------------
(* The observation window. *)

FeedSubscription(p, n, frame) == [pc |-> p, seen |-> n, shown |-> frame]

\* Nothing was seen that has not happened yet.
FeedSeenInv ==
    /\ revision \in Nat
    /\ \A s \in Subscribers : subs[s] # Feed!Closed =>
          \E p, n, frame : n \in 0..revision /\ subs[s] = FeedSubscription(p, n, frame)

FeedInv == (subs = [s \in Subscribers |-> subs[s]]) /\ FeedSeenInv /\ Feed!ToldMeansShown

\* A step after which every subscriber is as it was: what it would be shown has not
\* changed, or there is a new revision.
LEMMA FeedQuietStep ==
    ASSUME FeedInv, UNCHANGED subs, revision' = revision + 1 \/ (revision' = revision /\ Feed!Shown' = Feed!Shown)
    PROVE  FeedInv'
<1>1. FeedSeenInv' BY DEF FeedInv, FeedSeenInv
<1>2. Feed!ToldMeansShown'
  <2> SUFFICES ASSUME NEW s \in Subscribers, subs[s].pc = "idle", subs[s].seen = revision'
               PROVE  subs[s].shown = Feed!Shown'
    BY DEF Feed!ToldMeansShown
  <2>1. subs[s] # Feed!Closed
    <3>1. Feed!Closed.pc = "closed" BY DEF Feed!Closed
    <3> QED BY <3>1
  <2>2. subs[s].seen \in 0..revision BY <2>1 DEF FeedInv, FeedSeenInv, FeedSubscription
  <2>3. revision' = revision /\ Feed!Shown' = Feed!Shown BY <2>2 DEF FeedInv, FeedSeenInv
  <2> QED BY <2>3 DEF FeedInv, Feed!ToldMeansShown
<1> QED BY <1>1, <1>2 DEF FeedInv

LEMMA FeedSourceSteps ==
    ASSUME FeedInv,
           \/ \E n \in Names : Feed!Register(n)
           \/ \E g \in guards : Feed!Report(g, "live") \/ Feed!Report(g, "unavailable") \/ Feed!DropGuard(g)
    PROVE  FeedInv'
<1>1. CASE \E n \in Names : Feed!Register(n) BY <1>1, FeedQuietStep DEF Feed!Register, Feed!Notify
<1>2. ASSUME NEW g, NEW v, Feed!SetStatus(g, v), UNCHANGED <<Feed!window, mode, feedGeneration, identity, subs>> PROVE FeedInv'
  <2>1. CASE revision' = revision + 1 BY <1>2, <2>1, FeedQuietStep
  <2>2. CASE UNCHANGED <<sources, revision>>
    <3>1. Feed!Shown' = Feed!Shown BY <1>2, <2>2 DEF Feed!Shown, Feed!Status, Feed!Some, Feed!window
    <3> QED BY <1>2, <2>2, <3>1, FeedQuietStep
  <2> QED BY <1>2, <2>1, <2>2 DEF Feed!SetStatus, Feed!Notify
<1> QED BY <1>1, <1>2 DEF Feed!Report, Feed!DropGuard

LEMMA FeedMessageSteps ==
    ASSUME FeedInv, NEW m \in Observable, (\E v \in Contents : Feed!Observe(m, v)) \/ Feed!Discard(m) \/ Feed!Ignored(m)
    PROVE  FeedInv'
<1>1. ASSUME NEW v \in Contents, Feed!Observe(m, v) PROVE FeedInv'
  <2>1. UNCHANGED <<sources, mode, feedGeneration, subs>> BY <1>1 DEF Feed!Observe
  <2>2. CASE revision' = revision + 1 BY <2>1, <2>2, FeedQuietStep
  <2>3. CASE UNCHANGED <<flows, evicted, discarded, revision>>
    <3>1. Feed!Shown' = Feed!Shown BY <2>1, <2>3 DEF Feed!Shown, Feed!Status, Feed!Some
    <3> QED BY <2>1, <2>3, <3>1, FeedQuietStep
  <2> QED BY <1>1, <2>2, <2>3 DEF Feed!Observe, Feed!Repeated, Feed!Notify
<1>2. CASE Feed!Discard(m) BY <1>2, FeedQuietStep DEF Feed!Discard, Feed!Notify
<1>3. CASE Feed!Ignored(m)
  <2>1. UNCHANGED Feed!vars BY <1>3 DEF Feed!Ignored
  <2>2. Feed!Shown' = Feed!Shown BY <2>1 DEF Feed!vars, Feed!window, Feed!Shown, Feed!Status, Feed!Some
  <2> QED BY <2>1, <2>2, FeedQuietStep DEF Feed!vars
<1> QED BY <1>1, <1>2, <1>3

LEMMA FeedResetSteps ==
    ASSUME FeedInv, Feed!ResetStarts \/ Feed!ResetSucceeds \/ Feed!ResetFails
    PROVE  FeedInv'
BY FeedQuietStep DEF Feed!ResetStarts, Feed!ResetSucceeds, Feed!ResetFails, Feed!Fresh, Feed!Notify

LEMMA FeedSubscriberSteps ==
    ASSUME FeedInv, NEW s \in Subscribers, Feed!Subscribe(s) \/ Feed!NextFrame(s) \/ Feed!Unsubscribe(s)
    PROVE  FeedInv'
<1>1. UNCHANGED <<sources, flows, evicted, discarded, mode, feedGeneration, revision>> /\ revision \in Nat
  BY DEF Feed!Subscribe, Feed!NextFrame, Feed!Unsubscribe, Feed!window, FeedInv, FeedSeenInv
<1>2. Feed!Shown' = Feed!Shown BY <1>1 DEF Feed!Shown, Feed!Status, Feed!Some
<1>3. Feed!Closed.pc = "closed" BY DEF Feed!Closed
<1>4. PICK x : /\ subs' = [subs EXCEPT ![s] = x]
               /\ x # Feed!Closed => \E p, n, frame : n \in 0..revision /\ x = FeedSubscription(p, n, frame)
               /\ x.pc = "idle" /\ x.seen = revision => x.shown = Feed!Shown
  <2>1. CASE Feed!Subscribe(s)
    <3>1. PICK x : x = FeedSubscription("due", 0, << >>) OBVIOUS
    <3>2. subs' = [subs EXCEPT ![s] = x] BY <2>1, <3>1 DEF Feed!Subscribe, FeedSubscription
    <3>3. x.pc # "idle" /\ 0 \in 0..revision BY <1>1, <3>1 DEF FeedSubscription
    <3> QED BY <3>1, <3>2, <3>3
  <2>2. CASE Feed!Unsubscribe(s)
    <3>1. subs' = [subs EXCEPT ![s] = Feed!Closed] BY <2>2 DEF Feed!Unsubscribe
    <3> QED BY <1>3, <3>1
  <2>3. CASE Feed!NextFrame(s)
    <3>1. subs[s] # Feed!Closed BY <1>3, <2>3 DEF Feed!NextFrame, Feed!Frame
    <3>2. PICK p, n, frame : n \in 0..revision /\ subs[s] = FeedSubscription(p, n, frame)
      BY <3>1 DEF FeedInv, FeedSeenInv
    <3>3. CASE subs' = [subs EXCEPT ![s].pc = "reading", ![s].seen = revision]
      <4>1. PICK x : x = FeedSubscription("reading", revision, frame) OBVIOUS
      <4>2. [subs[s] EXCEPT !.pc = "reading"] = FeedSubscription("reading", n, frame) BY <3>2 DEF FeedSubscription
      <4>4. [FeedSubscription("reading", n, frame) EXCEPT !.seen = revision] = x BY <4>1 DEF FeedSubscription
      <4>5. subs' = [subs EXCEPT ![s] = x] BY <3>3, <4>2, <4>4 DEF FeedInv
      <4>3. x.pc # "idle" /\ revision \in 0..revision BY <1>1, <4>1 DEF FeedSubscription
      <4> QED BY <4>1, <4>3, <4>5
    <3>4. CASE subs' = [subs EXCEPT ![s].pc = "idle", ![s].shown = Feed!Shown]
      <4>1. PICK x : x = FeedSubscription("idle", n, Feed!Shown) OBVIOUS
      <4>2. [subs[s] EXCEPT !.pc = "idle"] = FeedSubscription("idle", n, frame) BY <3>2 DEF FeedSubscription
      <4>4. [FeedSubscription("idle", n, frame) EXCEPT !.shown = Feed!Shown] = x BY <4>1 DEF FeedSubscription
      <4>5. subs' = [subs EXCEPT ![s] = x] BY <3>4, <4>2, <4>4 DEF FeedInv
      <4>3. x.shown = Feed!Shown BY <4>1 DEF FeedSubscription
      <4> QED BY <3>2, <4>1, <4>3, <4>5
    <3> QED BY <2>3, <3>3, <3>4 DEF Feed!NextFrame, Feed!Frame
  <2> QED BY <2>1, <2>2, <2>3
<1>5. FeedSeenInv' BY <1>1, <1>4 DEF FeedInv, FeedSeenInv
<1>6. Feed!ToldMeansShown' BY <1>1, <1>2, <1>4 DEF FeedInv, Feed!ToldMeansShown
<1> QED BY <1>4, <1>5, <1>6 DEF FeedInv

\* A subscriber that has seen the current revision was shown the current window, for any
\* sources, messages, resets and subscribers, however the changes fall between marking
\* the revision as seen and reading the window (LiveUpdates::next).
THEOREM SubscribersAreShown == Feed!Spec => []ToldMeansShown
<1>1. Feed!Init => FeedInv
  <2>1. Feed!Closed.pc = "closed" BY DEF Feed!Closed
  <2> QED BY <2>1 DEF Feed!Init, FeedInv, FeedSeenInv, Feed!ToldMeansShown
<1>2. FeedInv /\ [Feed!Next]_(Feed!vars) => FeedInv'
  <2> SUFFICES ASSUME FeedInv, [Feed!Next]_(Feed!vars) PROVE FeedInv'
    OBVIOUS
  <2>1. CASE UNCHANGED Feed!vars
    <3>1. Feed!Shown' = Feed!Shown BY <2>1 DEF Feed!vars, Feed!window, Feed!Shown, Feed!Status, Feed!Some
    <3> QED BY <2>1, <3>1, FeedQuietStep DEF Feed!vars
  <2>2. CASE Feed!Next
    BY <2>2, FeedSourceSteps, FeedMessageSteps, FeedResetSteps, FeedSubscriberSteps DEF Feed!Next
  <2> QED BY <2>1, <2>2
<1>3. FeedInv => ToldMeansShown BY DEF FeedInv, ToldMeansShown
<1> QED BY <1>1, <1>2, <1>3, PTL DEF Feed!Spec
===============================================================================
