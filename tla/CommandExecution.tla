--------------------------- MODULE CommandExecution ----------------------------
(* Concurrent executions of commands against one native split authority: the    *)
(* executor's guarded loop (rostfrei-core) over the NATS journal and the NATS   *)
(* outcome-state stream (rostfrei-nats).  A worker looks its operation up,      *)
(* loads the streams its handler asks for one read at a time, decides, prepares *)
(* the result details with a compare-and-set, publishes one atomic journal      *)
(* batch guarded by every stream it read, and recovers from a lost race, a lost *)
(* acknowledgement or a winner that decided differently.  Requests may be       *)
(* delayed and processed after their sender gave up; workers may fail at every  *)
(* call and start again; an administrator may expire details at any time.       *)
(*                                                                              *)
(* A batch of events of one stream is one entry of that stream, a stream's      *)
(* last subject sequence is the journal position of its last batch, and the     *)
(* decision manifest of an operation is its journal entry.                      *)
EXTENDS Naturals, Sequences, FiniteSets

CONSTANTS
    Workers,     \* concurrent executions (processes, consumers, callers)
    Ops,         \* operation identifiers
    Requests,    \* [op, ident, stamp]: command identity and created-at evidence
    Streams,     \* aggregate streams
    Rejections,  \* encoded business rejections
    DetailExpiry, \* explicit_detail_expiry of the store's configuration
    MaxRetries,  \* BoundedConflictRetries::maximum
    MaxJournal,  \* capacity of the journal stream, in batches
    MaxDelayed   \* bound of the model: requests the network holds at once

Accepted == "accepted"
Decisions == {Accepted} \cup Rejections

ASSUME RequestsAssumption == Requests # {} /\ \A r \in Requests : r.op \in Ops
ASSUME RejectionsAssumption == Accepted \notin Rejections
ASSUME BoundsAssumption == MaxRetries \in Nat /\ MaxJournal \in Nat /\ MaxDelayed \in Nat

\* The streams an attempt loaded with the last subject sequence it saw of each.
ReadSets == UNION {[S -> 0..MaxJournal] : S \in SUBSET Streams}

\* A proposal and the manifest it becomes: CommandCompletion and participants.
Entries == [req : Requests, decision : Decisions, base : ReadSets, writes : SUBSET Streams]

\* OutcomeDetailReference: operation, evidence and decision, not the events.
References == [req : Requests, decision : Decisions]
Reference(e) == [req |-> e.req, decision |-> e.decision]

\* StateValue: nothing stored, Active, or Expired for one winning revision.
Absent == [kind |-> "absent"]
Active == [kind |-> "active"]
Expired(e) == [kind |-> "expired", revision |-> e]
StateValues == {Absent, Active} \cup {Expired(e) : e \in Entries}

\* What execute_completed_with_rejection_codec returned to the caller.
NoReply == [kind |-> "none"]
Completed(k, e, d) == [kind |-> k, winner |-> e, details |-> d]
Failure(k) == [kind |-> k]
FailureKinds == {"unavailable", "conflict", "identity", "capacity", "withdrawn", "corrupt"}
CompletedReplies == [kind : {"appended", "replayed"}, winner : Entries,
                     details : {"available", "expired"}]
Replies == {NoReply} \cup {Failure(k) : k \in FailureKinds} \cup CompletedReplies

\* Requests the server has not processed when their sender stopped waiting.
Delayed == [kind : {"state"}, ref : References] \cup [kind : {"batch"}, entry : Entries]

PCs == {"idle", "lookup", "load", "receipt", "prepare", "confirm", "publish",
        "race", "reconcile", "result", "conflict"}

VARIABLES
    journal,  \* the committed batches, in journal order
    state,    \* the outcome-state stream, by detail reference
    delayed,  \* requests still on their way to the server
    pc,       \* where each worker is
    req,      \* the command each worker executes
    evals,    \* evaluations of the handler in this execution
    cand,     \* the proposal of the current attempt
    ack,      \* outcome of the worker's last publication or commit
    reply     \* what the worker's last execution returned

store == <<journal, state, delayed>>
locals == <<req, evals, cand, ack>>
vars == <<journal, state, delayed, pc, req, evals, cand, ack, reply>>

Acks == {"none", "ok", "mismatch", "unknown", "appended", "replayed", "conflict", "identity"}

-----------------------------------------------------------------------------
(* Reads of the journal and the state stream. *)

\* last_subject_stream_sequence: n is the last position whose batch wrote s.
IsLastSeq(s, n) ==
    /\ n \in 0..Len(journal)
    /\ n > 0 => s \in journal[n].writes
    /\ \A j \in (n + 1)..Len(journal) : s \notin journal[j].writes

\* The journal holds a receipt of operation o (load_transaction_receipt_inner).
Decided(o) == \E i \in 1..Len(journal) : journal[i].req.op = o

\* e is the receipt and manifest of operation o.
IsWinner(e, o) == \E i \in 1..Len(journal) : journal[i] = e /\ e.req.op = o

\* ProposalDigest equality: everything but the expected versions.
SameProposal(e, f) ==
    /\ e.req = f.req
    /\ e.decision = f.decision
    /\ e.writes = f.writes
    /\ DOMAIN e.base = DOMAIN f.base

\* OutcomeMarker::validate_identity: the timestamp is evidence, not identity.
SameIdentity(r, t) == r.op = t.op /\ r.ident = t.ident

\* Fault: the batch guards only the streams it writes.
WritesGuardedOnly(e) ==
    /\ ~Decided(e.req.op)
    /\ \A s \in e.writes : IsLastSeq(s, e.base[s])

\* Fault: the batch carries no expectation on the receipt subject.
ReceiptUnguarded(e) == \A s \in DOMAIN e.base : IsLastSeq(s, e.base[s])

\* The server accepts the atomic batch e: no receipt yet and every guard current.
ExpectationsHold(e) ==
    /\ ~Decided(e.req.op)
    /\ \A s \in DOMAIN e.base : IsLastSeq(s, e.base[s])

HasCapacity == Len(journal) < MaxJournal

\* The request field of a worker that executes nothing.
AnyRequest == CHOOSE r \in Requests : TRUE

\* A proposal before its first load.
EmptyProposal(r) ==
    [req |-> r, decision |-> Accepted, base |-> [s \in {} |-> 0], writes |-> {}]

-----------------------------------------------------------------------------
Init ==
    /\ journal = << >>
    /\ state = [r \in References |-> Absent]
    /\ delayed = {}
    /\ pc = [w \in Workers |-> "idle"]
    /\ req = [w \in Workers |-> AnyRequest]
    /\ evals = [w \in Workers |-> 0]
    /\ cand = [w \in Workers |-> EmptyProposal(AnyRequest)]
    /\ ack = [w \in Workers |-> "none"]
    /\ reply = [w \in Workers |-> NoReply]

Goto(w, l) == pc' = [pc EXCEPT ![w] = l]

\* The execution's locals are dropped when it returns or its process dies.
Drop(w) ==
    /\ evals' = [evals EXCEPT ![w] = 0]
    /\ cand' = [cand EXCEPT ![w] = EmptyProposal(AnyRequest)]
    /\ ack' = [ack EXCEPT ![w] = "none"]

Return(w, r) ==
    /\ Goto(w, "idle")
    /\ reply' = [reply EXCEPT ![w] = r]
    /\ Drop(w)

\* A caller, a delivery or a redelivery starts an execution.
Start(w, r) ==
    /\ pc[w] = "idle"
    /\ Goto(w, "lookup")
    /\ req' = [req EXCEPT ![w] = r]
    /\ evals' = [evals EXCEPT ![w] = 0]
    /\ cand' = [cand EXCEPT ![w] = EmptyProposal(r)]
    /\ ack' = [ack EXCEPT ![w] = "none"]
    /\ reply' = [reply EXCEPT ![w] = NoReply]
    /\ UNCHANGED store

-----------------------------------------------------------------------------
(* The executor: lookup, handler evaluation, retry. *)

\* Fault: the durable marker's identity is not compared with the request's.
ResolveAnyIdentity(w, e, k) ==
    IF state[Reference(e)] \notin {Active, Expired(e)} THEN Failure("corrupt")
    ELSE Completed(k, e, IF state[Reference(e)] = Active THEN "available" ELSE "expired")

\* resolve_marker and validate_for: what a read of winner e returns to w.
Resolve(w, e, k) ==
    LET value == state[Reference(e)] IN
    IF value \notin {Active, Expired(e)} THEN Failure("corrupt")
    ELSE IF ~SameIdentity(e.req, req[w]) THEN Failure("identity")
    ELSE Completed(k, e, IF value = Active THEN "available" ELSE "expired")

\* The lookup that opens the loop finds a winner: nothing is evaluated.
LookupReplay(w) ==
    /\ pc[w] = "lookup"
    /\ \E i \in 1..Len(journal) :
          /\ journal[i].req.op = req[w].op
          /\ Return(w, Resolve(w, journal[i], "replayed"))
    /\ UNCHANGED <<store, req>>

\* It finds none: a session begins and the handler is evaluated once more.
LookupMissing(w) ==
    /\ pc[w] = "lookup"
    /\ ~Decided(req[w].op)
    /\ Goto(w, "load")
    /\ evals' = [evals EXCEPT ![w] = @ + 1]
    /\ cand' = [cand EXCEPT ![w] = EmptyProposal(req[w])]
    /\ UNCHANGED <<store, req, ack, reply>>

\* base with the last subject sequence n of stream s added.
Extend(base, s, n) == [t \in DOMAIN base \cup {s} |-> IF t = s THEN n ELSE base[t]]

\* CommandExecution::load: a stream is loaded once per attempt, at its own time.
Load(w, s) ==
    /\ pc[w] = "load"
    /\ s \notin DOMAIN cand[w].base
    /\ \E n \in 0..Len(journal) :
          /\ IsLastSeq(s, n)
          /\ cand' = [cand EXCEPT ![w].base = Extend(cand[w].base, s, n)]
    /\ UNCHANGED <<store, pc, req, evals, ack, reply>>

\* The handler accepts: raised events become batches, the other reads guards.
Accept(w, ws) ==
    /\ pc[w] = "load"
    /\ ws \subseteq DOMAIN cand[w].base
    /\ cand' = [cand EXCEPT ![w].writes = ws]
    /\ Goto(w, "receipt")
    /\ UNCHANGED <<store, req, evals, ack, reply>>

\* The handler rejects: events are discarded, every read stays a guard.
Reject(w, x) ==
    /\ pc[w] = "load"
    /\ cand' = [cand EXCEPT ![w].decision = x]
    /\ Goto(w, "receipt")
    /\ UNCHANGED <<store, req, evals, ack, reply>>

\* BoundedConflictRetries::should_retry, for optimistic conflicts only.
RetryAllowed(w) == ack[w] = "conflict" /\ evals[w] <= MaxRetries

\* Fault: a conflict of any kind is evaluated again, without asking the policy.
ConflictEvaluatesAgain(w) ==
    /\ pc[w] = "conflict"
    /\ Goto(w, "load")
    /\ evals' = [evals EXCEPT ![w] = @ + 1]
    /\ cand' = [cand EXCEPT ![w] = EmptyProposal(req[w])]
    /\ UNCHANGED <<store, req, ack, reply>>

\* After a conflict the winner is authoritative; without one, the retry policy.
ResolveConflict(w) ==
    /\ pc[w] = "conflict"
    /\ IF Decided(req[w].op)
       THEN \E i \in 1..Len(journal) :
               /\ journal[i].req.op = req[w].op
               /\ Return(w, Resolve(w, journal[i], "replayed"))
       ELSE IF RetryAllowed(w)
            THEN Goto(w, "lookup") /\ UNCHANGED <<evals, cand, ack, reply>>
            ELSE Return(w, Failure(ack[w]))
    /\ UNCHANGED <<store, req>>

-----------------------------------------------------------------------------
(* append_transaction_with_histories: receipt, details, atomic batch. *)

Finish(w, a, l) == ack' = [ack EXCEPT ![w] = a] /\ Goto(w, l)

\* A receipt of the operation exists: exact replay or another proposal.
FoundReceipt(w) ==
    \E i \in 1..Len(journal) :
        /\ journal[i].req.op = req[w].op
        /\ IF SameProposal(journal[i], cand[w])
           THEN Finish(w, "replayed", "result")
           ELSE Finish(w, "identity", "conflict")

CheckReceipt(w) ==
    /\ pc[w] = "receipt"
    /\ \/ FoundReceipt(w)
       \/ ~Decided(req[w].op) /\ Finish(w, "none", "prepare")
    /\ UNCHANGED <<store, req, evals, cand, reply>>

\* publish_state(Active, CAS 0): the server stores it only on an empty subject.
StoreActive(r) ==
    state' = IF state[r] = Absent THEN [state EXCEPT ![r] = Active] ELSE state

PrepareDetails(w) ==
    /\ pc[w] = "prepare"
    /\ StoreActive(Reference(cand[w]))
    /\ Finish(w, IF state[Reference(cand[w])] = Absent THEN "ok" ELSE "mismatch", "confirm")
    /\ UNCHANGED <<journal, delayed, req, evals, cand, reply>>

\* The network keeps request m for later.
Delay(m) == Cardinality(delayed) < MaxDelayed /\ delayed' = delayed \cup {m}

\* Fault: an unknown acknowledgement is not followed by a read of the state.
PrepareUnconfirmed(w) ==
    /\ pc[w] = "prepare"
    /\ Finish(w, "unknown", "publish")
    /\ StoreActive(Reference(cand[w])) \/ UNCHANGED state
    /\ UNCHANGED <<journal, delayed, req, evals, cand, reply>>

\* The state acknowledgement is unknown: stored, still on its way, or lost.
PrepareUnknown(w) ==
    /\ pc[w] = "prepare"
    /\ Finish(w, "unknown", "confirm")
    /\ \/ StoreActive(Reference(cand[w])) /\ UNCHANGED delayed
       \/ /\ Delay([kind |-> "state", ref |-> Reference(cand[w])])
          /\ UNCHANGED state
       \/ UNCHANGED <<state, delayed>>
    /\ UNCHANGED <<journal, req, evals, cand, reply>>

\* prepare_details reads the state back, whatever the acknowledgement said; the
\* publication's own error, if it had one, wins over what the read reports.
ConfirmDetails(w) ==
    LET value == state[Reference(cand[w])] IN
    /\ pc[w] = "confirm"
    /\ \/ /\ value = Active
          /\ Goto(w, "publish")
          /\ UNCHANGED <<evals, cand, ack, reply>>
       \/ /\ value = Expired(cand[w])
          /\ Return(w, Failure("withdrawn"))
       \/ /\ value \notin {Active, Expired(cand[w])}
          /\ \/ ack[w] = "ok" /\ Return(w, Failure("corrupt"))
             \/ ack[w] = "unknown" /\ Return(w, Failure("unavailable"))
             \/ /\ ack[w] = "mismatch"
                /\ Finish(w, "conflict", "conflict")
                /\ UNCHANGED <<evals, cand, reply>>
    /\ UNCHANGED <<store, req>>

\* publish_atomic_messages, acknowledged: all of the batch or none of it.
PublishAccepted(w) ==
    /\ pc[w] = "publish"
    /\ ExpectationsHold(cand[w])
    /\ HasCapacity
    /\ journal' = Append(journal, cand[w])
    /\ Finish(w, "appended", "result")
    /\ UNCHANGED <<state, delayed, req, evals, cand, reply>>

PublishExpectation(w) ==
    /\ pc[w] = "publish"
    /\ ~ExpectationsHold(cand[w])
    /\ Goto(w, "race")
    /\ UNCHANGED <<store, locals, reply>>

PublishCapacity(w) ==
    /\ pc[w] = "publish"
    /\ ~HasCapacity
    /\ Return(w, Failure("capacity"))
    /\ UNCHANGED <<store, req>>

\* No acknowledgement: the batch was stored, is still on its way, or is lost.
PublishUnknown(w) ==
    /\ pc[w] = "publish"
    /\ Goto(w, "reconcile")
    /\ \/ /\ ExpectationsHold(cand[w])
          /\ HasCapacity
          /\ journal' = Append(journal, cand[w])
          /\ UNCHANGED delayed
       \/ /\ Delay([kind |-> "batch", entry |-> cand[w]])
          /\ UNCHANGED journal
       \/ UNCHANGED <<journal, delayed>>
    /\ UNCHANGED <<state, locals, reply>>

\* Fault: a lost race publishes the same batch again.
RaceRepublishes(w) ==
    /\ pc[w] = "race"
    /\ FoundReceipt(w) \/ (~Decided(req[w].op) /\ Finish(w, "none", "publish"))
    /\ UNCHANGED <<store, req, evals, cand, reply>>

\* resolve_transaction_race: the receipt decides, else an aggregate changed.
ResolveRace(w) ==
    /\ pc[w] = "race"
    /\ \/ FoundReceipt(w)
       \/ ~Decided(req[w].op) /\ Finish(w, "conflict", "conflict")
    /\ UNCHANGED <<store, req, evals, cand, reply>>

\* reconcile_unavailable_transaction_publish: the receipt decides, else unknown.
ReconcileUnavailable(w) ==
    /\ pc[w] = "reconcile"
    /\ \/ FoundReceipt(w) /\ UNCHANGED <<evals, cand, reply>>
       \/ ~Decided(req[w].op) /\ Return(w, Failure("unavailable"))
    /\ UNCHANGED <<store, req>>

\* commit_native re-reads the durable outcome before it is returned.
CommitResult(w) ==
    /\ pc[w] = "result"
    /\ \E i \in 1..Len(journal) :
          /\ journal[i].req.op = req[w].op
          /\ Return(w, Resolve(w, journal[i], ack[w]))
    /\ UNCHANGED <<store, req>>

-----------------------------------------------------------------------------
(* The environment. *)

\* A remote call or the handler fails, the future is dropped, or the process
\* dies: nothing already published is undone, and the caller learns nothing.
Abandon(w) ==
    /\ pc[w] # "idle"
    /\ Return(w, Failure("unavailable"))
    /\ UNCHANGED <<store, req>>

\* expire_details for the exact winning revision: a CAS from Active.
ExpireDetails(i) ==
    /\ DetailExpiry
    /\ i \in 1..Len(journal)
    /\ state[Reference(journal[i])] = Active
    /\ state' = [state EXCEPT ![Reference(journal[i])] = Expired(journal[i])]
    /\ UNCHANGED <<journal, delayed, pc, locals, reply>>

\* The server processes a delayed request with the checks it would always apply.
DeliverState(m) ==
    /\ m \in delayed
    /\ m.kind = "state"
    /\ StoreActive(m.ref)
    /\ delayed' = delayed \ {m}
    /\ UNCHANGED <<journal, pc, locals, reply>>

DeliverBatch(m) ==
    /\ m \in delayed
    /\ m.kind = "batch"
    /\ journal' = IF ExpectationsHold(m.entry) /\ HasCapacity
                  THEN Append(journal, m.entry) ELSE journal
    /\ delayed' = delayed \ {m}
    /\ UNCHANGED <<state, pc, locals, reply>>

-----------------------------------------------------------------------------
Step(w) ==
    \/ LookupReplay(w) \/ LookupMissing(w)
    \/ \E s \in Streams : Load(w, s)
    \/ \E ws \in SUBSET Streams : Accept(w, ws)
    \/ \E x \in Rejections : Reject(w, x)
    \/ ResolveConflict(w) \/ CheckReceipt(w)
    \/ PrepareDetails(w) \/ PrepareUnknown(w) \/ ConfirmDetails(w)
    \/ PublishAccepted(w) \/ PublishExpectation(w) \/ PublishCapacity(w) \/ PublishUnknown(w)
    \/ ResolveRace(w) \/ ReconcileUnavailable(w) \/ CommitResult(w)

Next ==
    \/ \E w \in Workers : Step(w) \/ Abandon(w) \/ \E r \in Requests : Start(w, r)
    \/ \E i \in 1..Len(journal) : ExpireDetails(i)
    \/ \E m \in delayed : DeliverState(m) \/ DeliverBatch(m)

Spec == Init /\ [][Next]_vars

\* Every execution keeps taking its next step: tokio polls it, calls time out.
Fairness == \A w \in Workers : WF_vars(Step(w))

FairSpec == Spec /\ Fairness

-----------------------------------------------------------------------------
(* Properties. *)

\* Every variable has its type; in particular an execution evaluates its handler
\* at most MaxRetries + 1 times and the journal never outgrows its capacity.
TypeOK ==
    /\ journal \in Seq(Entries)
    /\ Len(journal) <= MaxJournal
    /\ state \in [References -> StateValues]
    /\ delayed \subseteq Delayed
    /\ pc \in [Workers -> PCs]
    /\ req \in [Workers -> Requests]
    /\ evals \in [Workers -> 0..(MaxRetries + 1)]
    /\ cand \in [Workers -> Entries]
    /\ ack \in [Workers -> Acks]
    /\ reply \in [Workers -> Replies]

\* However attempts interleave, fail and are retried, an operation has at most
\* one decision in the journal, so its events are appended at most once.
OneDecision ==
    \A i, j \in 1..Len(journal) : journal[i].req.op = journal[j].req.op => i = j

\* Every decision, acceptance or rejection, was made against the last batch of
\* every stream it read, although the streams were loaded one by one and the
\* batch may be processed long after: the journal is a serial history.
ReadsWereCurrent ==
    \A i \in 1..Len(journal) : \A s \in DOMAIN journal[i].base :
        LET n == journal[i].base[s] IN
        /\ n < i
        /\ n > 0 => s \in journal[n].writes
        /\ \A j \in (n + 1)..(i - 1) : s \notin journal[j].writes

\* The details of a decision are stored before it and stay accounted for: Active,
\* or Expired for exactly this decision, never missing and never withdrawn on
\* behalf of another proposal that shares the detail record.
DecisionHasDetails ==
    \A i \in 1..Len(journal) :
        state[Reference(journal[i])] \in {Active, Expired(journal[i])}

\* A caller that is told a completed outcome is told the permanent decision of
\* its own operation, and never that of a command of another identity.
ReplyIsWinner ==
    \A w \in Workers : reply[w] \in CompletedReplies =>
        /\ IsWinner(reply[w].winner, req[w].op)
        /\ SameIdentity(reply[w].winner.req, req[w])

\* An identity conflict is reported only to a command of another identity: a
\* redelivery whose evaluation differed from the winner's gets the winner.
IdentityRefusalJustified ==
    \A w \in Workers : reply[w].kind = "identity" =>
        \E i \in 1..Len(journal) :
            journal[i].req.op = req[w].op /\ ~SameIdentity(journal[i].req, req[w])

\* Two executions are never both told that they appended the decision.
AppendedOnce ==
    \A v, w \in Workers :
        /\ reply[v].kind = "appended"
        /\ reply[w].kind = "appended"
        /\ reply[v].winner.req.op = reply[w].winner.req.op
        => v = w

\* Withdrawn details never come back, whichever delayed or repeated Active
\* publication of the same detail record reaches the server afterwards.
ExpiredIsTerminal ==
    [][\A r \in References : state[r].kind = "expired" => state'[r] = state[r]]_vars

\* Every execution returns: conflicts, races and recoveries never loop for ever.
Returns == \A w \in Workers : pc[w] = "lookup" ~> pc[w] = "idle"

\* docs/command-runtime.md: a decision whose details are expired stays a
\* completed decision and produces a recovery result.  Stated of the failures
\* an execution reports: none blames the candidate's details or the history.
ExpiredStaysCompleted ==
    \A w \in Workers : reply[w].kind \notin {"withdrawn", "corrupt"}

-----------------------------------------------------------------------------
(* The runtime implements the decision log. *)

Told == [w \in Workers |-> IF reply[w] \in CompletedReplies THEN {reply[w].winner} ELSE {}]
Withdrawn ==
    {journal[i] : i \in {j \in 1..Len(journal) : state[Reference(journal[j])].kind = "expired"}}

Log == INSTANCE DecisionLog WITH
    Callers <- Workers, log <- journal, withdrawn <- Withdrawn, told <- Told

\* Every step of the executors, the streams and the network is a step of the
\* decision log, or changes nothing the log shows.
ImplementsDecisionLog == Log!Spec
===============================================================================
