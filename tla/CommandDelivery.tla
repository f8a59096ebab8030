---------------------------- MODULE CommandDelivery ----------------------------
(* One command on its way through the NATS transport: the caller's dispatch, the *)
(* durable consumer, the command handler with its execution gates, the response  *)
(* subject with its compare-and-set publications, and quarantine.                *)
(*                                                                               *)
(* The command's execution is one step that decides the operation at most once   *)
(* and may fail before or after doing so; CommandExecution models its inside.    *)
(* A stream position is a stream sequence, the response subject is the only one  *)
(* of its stream, and a stored technical response carries the token it was       *)
(* prepared with.  Deliveries, publications and acknowledgements may be late,    *)
(* repeated or lost; hosts die and restart at any time.                          *)
EXTENDS Naturals, Sequences, FiniteSets

CONSTANTS
    Workers,       \* concurrent deliveries
    Hosts,         \* processes; each owns one set of execution gates
    HostOf,        \* the process of each worker
    Copies,        \* publications of the command in the command stream
    Decisions,     \* accepted, or a rejection
    Legacy,        \* business responses retained from before the shared authority
    OutcomeService, \* the caller's adapter has an outcome service
    ReplayPublication, \* with_replay_publication
    MaxAttempts,   \* maximum_delivery_attempts
    MaxTries,      \* MAXIMUM_PUBLISH_ATTEMPTS
    MaxRecords,    \* capacity of the response stream
    MaxDelayed     \* bound of the model: publications the network holds at once

ASSUME HostAssumption == HostOf \in [Workers -> Hosts]
ASSUME CopiesAssumption == Copies # {}
ASSUME LimitsAssumption ==
    /\ MaxAttempts \in Nat \ {0} /\ MaxTries \in Nat \ {0}
    /\ MaxRecords \in Nat /\ MaxDelayed \in Nat

None == "none"
ASSUME NoneAssumption == None \notin Decisions

\* CommandResponseOutcome: a business outcome, or ExecutionFailed of either sort.
Business(d) == [kind |-> "business", decision |-> d]
Technical(s) == [kind |-> "technical", sort |-> s]
NoBody == [kind |-> "none"]
Bodies == {Business(d) : d \in Decisions} \cup {Technical("retryable"), Technical("blocked")}

\* Publication identities: the stable response message ID of a business response,
\* and the transition token (generation, predecessor) of a diagnostic.
Tokens == [generation : 0..MaxRecords, predecessor : 0..MaxRecords]
BusinessId == [generation |-> 0, predecessor |-> 0]
Records == [body : Bodies, id : Tokens]
Publications == [body : Bodies, id : Tokens, predecessor : 0..MaxRecords]

\* PreparedCommandResponse: publication identity, CAS expectation, observed_exact.
Prepared == [id : Tokens, predecessor : 0..MaxRecords, exact : BOOLEAN]
NoPrepared == [id |-> BusinessId, predecessor |-> 0, exact |-> FALSE]

ASSUME LegacyAssumption ==
    /\ Legacy \in Seq({[body |-> Business(d), id |-> BusinessId] : d \in Decisions})
    /\ Len(Legacy) <= MaxRecords

\* DeliveryDisposition, with the reason a quarantine record would carry.
Reasons == {"refused", "unauthorised", "blocked", "diagnosed", "failed", "exhausted"}
Dispositions == {"none", "acknowledge", "retry"} \cup Reasons

\* A delivery: which message, its attempt, the response read or to publish, its
\* prepared form and publish attempts, and what the handler will return.
Jobs == [copy : Copies, attempt : 0..(MaxAttempts + 1), body : Bodies \cup {NoBody},
         prepared : Prepared, tries : 0..(MaxTries - 1), disposition : Dispositions]
Job(c, n, d) == [copy |-> c, attempt |-> n, body |-> NoBody,
                 prepared |-> NoPrepared, tries |-> 0, disposition |-> d]
NoJob == Job(CHOOSE c \in Copies : TRUE, 0, "none")

Gated == {"read", "authority", "process", "prepare", "publish", "verify"}
PCs == {"idle", "gate", "settle", "term"} \cup Gated

VARIABLES
    source,      \* the command stream, by publication
    attempts,    \* delivery count the server keeps, saturated past the maximum
    quarantined, \* reasons of the quarantine records stored for each publication
    winner,      \* the shared authority's decision of the operation
    records,     \* every response stored on the subject, in stream order
    removed,     \* sequences no longer retained
    delayed,     \* response publications still on their way
    pc,          \* where each worker is
    job,         \* the delivery each worker handles
    cpc, heard, told   \* the caller, the response it read, what it returned

store == <<source, attempts, quarantined, winner, records, removed, delayed>>
caller == <<cpc, heard, told>>
vars == <<source, attempts, quarantined, winner, records, removed, delayed,
          pc, job, cpc, heard, told>>

-----------------------------------------------------------------------------
(* The response subject. *)

Retained == (1..Len(records)) \ removed

\* n is the last sequence of the subject, 0 when nothing is retained.
IsLatest(n) ==
    /\ n \in Retained \/ (n = 0 /\ Retained = {})
    /\ \A m \in Retained : m <= n

\* What a read of the subject's last message gives.
BodyAt(n) == IF n = 0 THEN NoBody ELSE records[n].body

\* Fault: the publication carries no expected last subject sequence.
StoreUnguarded(m) == Len(records) < MaxRecords

\* The server stores publication m: its predecessor is still the last message.
StoreAllowed(m) == IsLatest(m.predecessor) /\ Len(records) < MaxRecords
Stored(m) == records' = Append(records, [body |-> m.body, id |-> m.id])

\* The duplicate window may still remember m's publication ID: one for every
\* business response of the command, and one for each diagnostic with its token.
Remembered(m) ==
    \E n \in 1..Len(records) :
        /\ records[n].id = m.id
        /\ records[n].body.kind = m.body.kind
        /\ m.body.kind = "technical" => records[n].body = m.body

\* Stored or dropped, as the server always decides.
Offer(m) == IF StoreAllowed(m) THEN Stored(m) ELSE UNCHANGED records

-----------------------------------------------------------------------------
Init ==
    /\ source = [c \in Copies |-> "none"]
    /\ attempts = [c \in Copies |-> 0]
    /\ quarantined = [c \in Copies |-> {}]
    /\ winner = None
    /\ records = Legacy
    /\ removed = {}
    /\ delayed = {}
    /\ pc = [w \in Workers |-> "idle"]
    /\ job = [w \in Workers |-> NoJob]
    /\ cpc = "idle"
    /\ heard = NoBody
    /\ told = NoBody

Goto(w, l) == pc' = [pc EXCEPT ![w] = l]

SetJob(w, j) == job' = [job EXCEPT ![w] = j]

\* The handler returned d, or its processing timeout elapsed.
Dispose(w, d) == Goto(w, "settle") /\ SetJob(w, Job(job[w].copy, job[w].attempt, d))

\* Publish response b, and return d once its record is verified.
Respond(w, b, d) ==
    /\ Goto(w, "prepare")
    /\ SetJob(w, [job[w] EXCEPT !.body = b, !.disposition = d])

\* The delivery is over on this host.
Rest(w) == Goto(w, "idle") /\ SetJob(w, NoJob)

\* run ends on host h: try_for_each_concurrent drops every delivery of it.
Stop(h) ==
    /\ pc' = [w \in Workers |-> IF HostOf[w] = h THEN "idle" ELSE pc[w]]
    /\ job' = [w \in Workers |-> IF HostOf[w] = h THEN NoJob ELSE job[w]]

-----------------------------------------------------------------------------
(* The consumer: process_message. *)

\* Fault: the durable consumer stops delivering at the maximum (max_deliver).
DeliverLimited(w, c) ==
    /\ pc[w] = "idle"
    /\ source[c] = "queued"
    /\ attempts[c] < MaxAttempts
    /\ attempts' = [attempts EXCEPT ![c] = @ + 1]
    /\ SetJob(w, Job(c, attempts'[c], "none"))
    /\ Goto(w, "gate")
    /\ UNCHANGED <<source, quarantined, winner, records, removed, delayed, caller>>

\* A delivery or redelivery; past the budget the handler is not called at all.
Deliver(w, c) ==
    LET n == IF attempts[c] > MaxAttempts THEN attempts[c] ELSE attempts[c] + 1 IN
    /\ pc[w] = "idle"
    /\ source[c] = "queued"
    /\ attempts' = [attempts EXCEPT ![c] = n]
    /\ SetJob(w, Job(c, n, IF n > MaxAttempts THEN "exhausted" ELSE "none"))
    /\ Goto(w, IF n > MaxAttempts THEN "settle" ELSE "gate")
    /\ UNCHANGED <<source, quarantined, winner, records, removed, delayed, caller>>

\* The trusted context resolver refuses, or is unavailable.
Refuse(w) ==
    /\ pc[w] = "gate"
    /\ Dispose(w, "refused") \/ Dispose(w, "retry")
    /\ UNCHANGED <<store, caller>>

\* CommandExecutionGates::acquire: one delivery of the command per process.
AcquireGate(w) ==
    /\ pc[w] = "gate"
    /\ \A v \in Workers : HostOf[v] = HostOf[w] => pc[v] \notin Gated
    /\ Goto(w, "read")
    /\ UNCHANGED <<store, job, caller>>

\* handle_with_progress: the handler's future is dropped when its time is up.
ProcessingTimeout(w) ==
    /\ pc[w] \in Gated \cup {"gate"}
    /\ Dispose(w, "retry")
    /\ UNCHANGED <<store, caller>>

\* double_ack_with(Ack): the message leaves the work queue.
Acknowledge(w) ==
    /\ pc[w] = "settle"
    /\ job[w].disposition = "acknowledge"
    /\ source' = [source EXCEPT ![job[w].copy] = IF @ = "queued" THEN "acked" ELSE @]
    /\ Rest(w)
    /\ UNCHANGED <<attempts, quarantined, winner, records, removed, delayed, caller>>

\* Nak with a delay while the budget lasts.
Nak(w) ==
    /\ pc[w] = "settle"
    /\ job[w].disposition = "retry"
    /\ job[w].attempt < MaxAttempts
    /\ Rest(w)
    /\ UNCHANGED <<store, caller>>

\* The disposition calls for a quarantine record with this reason.
QuarantineReason(w) == IF job[w].disposition = "retry" THEN "exhausted" ELSE job[w].disposition
Quarantines(w) ==
    /\ pc[w] = "settle"
    /\ \/ job[w].disposition \in Reasons
       \/ job[w].disposition = "retry" /\ job[w].attempt >= MaxAttempts

\* publish_quarantine succeeds; a duplicate acknowledgement counts as success.
QuarantineStored(w) ==
    /\ Quarantines(w)
    /\ \/ quarantined' = [quarantined EXCEPT ![job[w].copy] = @ \cup {QuarantineReason(w)}]
       \/ quarantined[job[w].copy] # {} /\ UNCHANGED quarantined
    /\ Goto(w, "term")
    /\ UNCHANGED <<source, attempts, winner, records, removed, delayed, job, caller>>

\* Fault: a failed quarantine publication is terminated all the same.
QuarantineIgnored(w) ==
    /\ Quarantines(w)
    /\ Goto(w, "term")
    /\ UNCHANGED <<store, job, caller>>

\* publish_quarantine fails, its record stored or not: Nak while the budget
\* lasts, then an error without any acknowledgement that ends the host's run.
QuarantineFails(w) ==
    /\ Quarantines(w)
    /\ \/ quarantined' = [quarantined EXCEPT ![job[w].copy] = @ \cup {QuarantineReason(w)}]
       \/ UNCHANGED quarantined
    /\ IF job[w].attempt < MaxAttempts THEN Rest(w) ELSE Stop(HostOf[w])
    /\ UNCHANGED <<source, attempts, winner, records, removed, delayed, caller>>

\* double_ack_with(Term), only after the record is durable.
Terminate(w) ==
    /\ pc[w] = "term"
    /\ source' = [source EXCEPT ![job[w].copy] = IF @ = "queued" THEN "termed" ELSE @]
    /\ Rest(w)
    /\ UNCHANGED <<attempts, quarantined, winner, records, removed, delayed, caller>>

\* A process dies, or an error of one delivery (progress, acknowledgement) does
\* what a failed quarantine does.
Abort(h) ==
    /\ \E w \in Workers : HostOf[w] = h /\ pc[w] # "idle"
    /\ Stop(h)
    /\ UNCHANGED <<store, caller>>

-----------------------------------------------------------------------------
(* NatsCommandHandler::handle. *)

\* reconcile_response: what is retained decides whether the command may run.
ReadResponse(w) ==
    /\ pc[w] = "read"
    /\ \E n \in 0..Len(records) :
          /\ IsLatest(n)
          /\ SetJob(w, [job[w] EXCEPT !.body = BodyAt(n)])
          /\ Goto(w, IF BodyAt(n) \in {NoBody, Technical("retryable")}
                     THEN "process" ELSE "authority")
    /\ UNCHANGED <<store, caller>>

\* The retained response is no authority of its own: look the decision up.
ConsultAuthority(w) ==
    /\ pc[w] = "authority"
    /\ \/ /\ job[w].body.kind = "business"
          /\ Dispose(w, IF winner # None /\ job[w].body = Business(winner)
                        THEN "acknowledge" ELSE "unauthorised")
       \/ /\ job[w].body.kind = "technical"
          /\ IF winner # None THEN Respond(w, Business(winner), "acknowledge")
                              ELSE Dispose(w, "blocked")
       \/ Dispose(w, "unauthorised")
    /\ UNCHANGED <<store, caller>>

\* Fault: the response carries this evaluation's decision, not the winner's.
RespondOwnDecision(w) ==
    /\ pc[w] = "process"
    /\ \E d \in Decisions :
          /\ winner' = IF winner = None THEN d ELSE winner
          /\ Respond(w, Business(d), "acknowledge")
    /\ UNCHANGED <<source, attempts, quarantined, records, removed, delayed, caller>>

\* The command is decided, now or by an earlier execution.
ProcessCompletes(w) ==
    /\ pc[w] = "process"
    /\ \E d \in Decisions :
          /\ winner' = IF winner = None THEN d ELSE winner
          /\ Respond(w, Business(winner'), "acknowledge")
    /\ UNCHANGED <<source, attempts, quarantined, records, removed, delayed, caller>>

\* Processing fails, its decision stored or not.  A typed failure is published
\* before the delivery is retried or quarantined; others have no response.
ProcessFails(w) ==
    /\ pc[w] = "process"
    /\ \/ UNCHANGED winner
       \/ winner = None /\ winner' \in Decisions
    /\ \/ Respond(w, Technical("retryable"), "retry")
       \/ Respond(w, Technical("blocked"), "diagnosed")
       \/ Dispose(w, "retry")
       \/ Dispose(w, "failed")
    /\ UNCHANGED <<source, attempts, quarantined, records, removed, delayed, caller>>

\* A read, a lookup, a preparation or a verification is unavailable.
Unavailable(w) ==
    /\ pc[w] \in {"read", "authority", "prepare"}
    /\ Dispose(w, "retry")
    /\ UNCHANGED <<store, caller>>

-----------------------------------------------------------------------------
(* publish_response: one prepared publication, retried with the same token. *)

\* prepare_command_response reads the last message and fixes the predecessor.
Prepare(w) ==
    LET b == job[w].body
        Ready(p) == Goto(w, "publish") /\ SetJob(w, [job[w] EXCEPT !.prepared = p])
    IN
    /\ pc[w] = "prepare"
    /\ \E n \in 0..Len(records) :
          /\ IsLatest(n)
          /\ \/ /\ BodyAt(n) = b
                /\ Ready([id |-> records[n].id, predecessor |-> n, exact |-> TRUE])
             \/ /\ BodyAt(n) # b
                /\ BodyAt(n).kind # "business"
                /\ Ready([id |-> IF b.kind = "business" THEN BusinessId
                                 ELSE [generation |-> Len(records), predecessor |-> n],
                          predecessor |-> n, exact |-> FALSE])
             \/ /\ BodyAt(n) # b
                /\ BodyAt(n).kind = "business"
                /\ Dispose(w, "retry")
    /\ UNCHANGED <<store, caller>>

Publication(w) ==
    [body |-> job[w].body, id |-> job[w].prepared.id, predecessor |-> job[w].prepared.predecessor]

\* The publication is acknowledged and its record read back.
PublishStored(w) ==
    /\ pc[w] = "publish"
    /\ ~job[w].prepared.exact
    /\ StoreAllowed(Publication(w))
    /\ Stored(Publication(w))
    /\ Dispose(w, job[w].disposition)
    /\ UNCHANGED <<source, attempts, quarantined, winner, removed, delayed, caller>>

\* Observed before, a duplicate, or a predecessor that is no longer the last.
PublishReconcile(w) ==
    /\ pc[w] = "publish"
    /\ \/ job[w].prepared.exact
       \/ Remembered(Publication(w))
       \/ ~IsLatest(job[w].prepared.predecessor)
    /\ Goto(w, "verify")
    /\ UNCHANGED <<store, job, caller>>

\* Fault: a response that could not be published does not hold the delivery up.
TryThenProceed(w) ==
    IF job[w].tries + 1 < MaxTries
    THEN Goto(w, "publish") /\ SetJob(w, [job[w] EXCEPT !.tries = @ + 1])
    ELSE Dispose(w, job[w].disposition)

\* Timeout or Unavailable: the same prepared value again while tries remain.
TryAgain(w) ==
    IF job[w].tries + 1 < MaxTries
    THEN Goto(w, "publish") /\ SetJob(w, [job[w] EXCEPT !.tries = @ + 1])
    ELSE Dispose(w, "retry")

\* The outcome is unknown: stored, still on its way, or lost.
PublishUnknown(w) ==
    /\ pc[w] = "publish"
    /\ ~job[w].prepared.exact
    /\ \/ Offer(Publication(w)) /\ UNCHANGED delayed
       \/ /\ Cardinality(delayed) < MaxDelayed
          /\ delayed' = delayed \cup {Publication(w)}
          /\ UNCHANGED records
       \/ UNCHANGED <<records, delayed>>
    /\ TryAgain(w)
    /\ UNCHANGED <<source, attempts, quarantined, winner, removed, caller>>

\* Fault: a duplicate acknowledgement alone is taken as evidence.
VerifyNothing(w) ==
    /\ pc[w] = "verify"
    /\ Dispose(w, job[w].disposition)
    /\ UNCHANGED <<store, caller>>

\* reconcile: success only if the last message is exactly the prepared one.
Verify(w) ==
    /\ pc[w] = "verify"
    /\ \E n \in 0..Len(records) :
          /\ IsLatest(n)
          /\ Dispose(w, IF n > 0 /\ records[n] = [body |-> job[w].body, id |-> job[w].prepared.id]
                        THEN job[w].disposition ELSE "retry")
    /\ UNCHANGED <<store, caller>>

\* The verification itself is unavailable.
VerifyUnavailable(w) ==
    /\ pc[w] = "verify"
    /\ TryAgain(w)
    /\ UNCHANGED <<store, caller>>

-----------------------------------------------------------------------------
(* The environment: the network, retention and the operator. *)

DeliverPublication(m) ==
    /\ m \in delayed
    /\ Offer(m)
    /\ delayed' = delayed \ {m}
    /\ UNCHANGED <<source, attempts, quarantined, winner, removed, pc, job, caller>>

\* The response stream's age limit removes its oldest message.
AgeOut ==
    /\ \E n \in Retained :
          /\ \A m \in Retained : n <= m
          /\ removed' = removed \cup {n}
    /\ UNCHANGED <<source, attempts, quarantined, winner, records, delayed, pc, job, caller>>

\* remove_blocked_diagnostic_for_redrive deletes a sequence it read as blocked.
RemoveDiagnostic(n) ==
    /\ n \in Retained
    /\ records[n].body = Technical("blocked")
    /\ removed' = removed \cup {n}
    /\ UNCHANGED <<source, attempts, quarantined, winner, records, delayed, pc, job, caller>>

-----------------------------------------------------------------------------
(* The caller: NatsMessagingAdapter::dispatch. *)

CallerReturns(b) == cpc' = "idle" /\ told' = b /\ heard' = NoBody

\* Authorized admission: a known winner is returned without publication.
DispatchLookup ==
    /\ cpc = "idle"
    /\ \/ /\ OutcomeService /\ winner # None /\ ~ReplayPublication
          /\ CallerReturns(Business(winner))
       \/ /\ ~OutcomeService \/ winner = None \/ ReplayPublication
          /\ cpc' = "publish" /\ heard' = NoBody /\ told' = NoBody
       \/ /\ OutcomeService
          /\ CallerReturns(NoBody)
    /\ UNCHANGED <<store, pc, job>>

\* publish_command: a new message, or a duplicate while the window remembers it.
DispatchPublish ==
    /\ cpc = "publish"
    /\ cpc' = IF ReplayPublication /\ OutcomeService THEN "admit" ELSE "wait"
    /\ \/ \E c \in Copies :
             /\ source[c] = "none"
             /\ source' = [source EXCEPT ![c] = "queued"]
       \/ (\E c \in Copies : source[c] # "none") /\ UNCHANGED source
    /\ UNCHANGED <<attempts, quarantined, winner, records, removed, delayed, pc, job, heard, told>>

\* Publication fails for the caller, whether or not a message was stored.
DispatchPublishFails ==
    /\ cpc = "publish"
    /\ \/ \E c \in Copies :
             /\ source[c] = "none"
             /\ source' = [source EXCEPT ![c] = "queued"]
       \/ UNCHANGED source
    /\ CallerReturns(NoBody)
    /\ UNCHANGED <<attempts, quarantined, winner, records, removed, delayed, pc, job>>

\* After a replayed publication authority is consulted before the response.
DispatchAdmit ==
    /\ cpc = "admit"
    /\ IF winner # None THEN CallerReturns(Business(winner))
                        ELSE cpc' = "wait" /\ UNCHANGED <<heard, told>>
    /\ UNCHANGED <<store, pc, job>>

\* read_response: the last message of the subject, of whatever sort.
DispatchRead ==
    /\ cpc = "wait"
    /\ \E n \in Retained :
          /\ IsLatest(n)
          /\ heard' = records[n].body
    /\ cpc' = "heard"
    /\ UNCHANGED <<store, pc, job, told>>

\* Fault: the retained response is returned as it was read.
ReturnHeard ==
    /\ cpc = "heard"
    /\ CallerReturns(heard)
    /\ UNCHANGED <<store, pc, job>>

\* Current authority is asked again before a response is believed.
DispatchReturn ==
    /\ cpc = "heard"
    /\ \/ /\ OutcomeService /\ winner # None
          /\ CallerReturns(Business(winner))
       \/ /\ OutcomeService /\ winner = None
          /\ CallerReturns(IF heard.kind = "technical" THEN heard ELSE NoBody)
       \/ /\ ~OutcomeService
          /\ CallerReturns(heard)
    /\ UNCHANGED <<store, pc, job>>

\* The response wait times out, or a lookup fails.
DispatchGivesUp ==
    /\ cpc \in {"admit", "wait", "heard"}
    /\ CallerReturns(NoBody)
    /\ UNCHANGED <<store, pc, job>>

-----------------------------------------------------------------------------
Settle(w) == Acknowledge(w) \/ Nak(w) \/ QuarantineStored(w) \/ QuarantineFails(w) \/ Terminate(w)

Handle(w) ==
    \/ Refuse(w) \/ AcquireGate(w) \/ ProcessingTimeout(w)
    \/ ReadResponse(w) \/ ConsultAuthority(w) \/ ProcessCompletes(w) \/ ProcessFails(w)
    \/ Unavailable(w) \/ Prepare(w) \/ PublishStored(w) \/ PublishReconcile(w)
    \/ PublishUnknown(w) \/ Verify(w) \/ VerifyUnavailable(w)

Dispatch ==
    \/ DispatchLookup \/ DispatchPublish \/ DispatchPublishFails \/ DispatchAdmit
    \/ DispatchRead \/ DispatchReturn \/ DispatchGivesUp

Next ==
    \/ \E w \in Workers : Settle(w) \/ Handle(w) \/ \E c \in Copies : Deliver(w, c)
    \/ \E h \in Hosts : Abort(h)
    \/ \E m \in delayed : DeliverPublication(m)
    \/ AgeOut \/ \E n \in 1..Len(records) : RemoveDiagnostic(n)
    \/ Dispatch

Spec == Init /\ [][Next]_vars

\* Handlers are polled and time out, the server redelivers what was not settled,
\* and neither quarantine storage nor the final acknowledgement fails for ever.
Fairness ==
    /\ \A w \in Workers : WF_vars(Handle(w) \/ Settle(w))
    /\ \A c \in Copies :
          /\ WF_vars(\E w \in Workers : Deliver(w, c))
          /\ SF_vars(\E w \in Workers : job[w].copy = c /\ QuarantineStored(w))
          /\ SF_vars(\E w \in Workers : job[w].copy = c /\ (Terminate(w) \/ Acknowledge(w)))

FairSpec == Spec /\ Fairness

-----------------------------------------------------------------------------
(* Properties. *)

\* Every variable has its type.
TypeOK ==
    /\ source \in [Copies -> {"none", "queued", "acked", "termed"}]
    /\ attempts \in [Copies -> 0..(MaxAttempts + 1)]
    /\ quarantined \in [Copies -> SUBSET Reasons]
    /\ winner \in Decisions \cup {None}
    /\ records \in Seq(Records)
    /\ Len(records) <= MaxRecords
    /\ removed \subseteq 1..Len(records)
    /\ delayed \subseteq Publications
    /\ pc \in [Workers -> PCs]
    /\ job \in [Workers -> Jobs]
    /\ cpc \in {"idle", "publish", "admit", "wait", "heard"}
    /\ heard \in Bodies \cup {NoBody}
    /\ told \in Bodies \cup {NoBody}

\* A command leaves the work queue by acknowledgement only once it is decided and
\* a response with that decision was stored; a diagnostic never settles it.
AckMeansAnswered ==
    \A c \in Copies : source[c] = "acked" =>
        winner # None /\ \E n \in 1..Len(records) : records[n].body = Business(winner)

\* A command is terminated only with durable quarantine evidence.
TermMeansQuarantined == \A c \in Copies : source[c] = "termed" => quarantined[c] # {}

\* A quarantine record that follows a typed failure has its diagnostic stored.
DiagnosedHasEvidence ==
    \A c \in Copies : "diagnosed" \in quarantined[c] =>
        \E n \in 1..Len(records) : records[n].body = Technical("blocked")

\* A business response is never published that differs from the authority's
\* decision, whichever stale publication reaches the server.
ResponsesMatchAuthority ==
    \A n \in (Len(Legacy) + 1)..Len(records) :
        records[n].body.kind = "business" => records[n].body = Business(winner)

\* A stale prepared attempt never overwrites a retained business response: while
\* one is the last message nothing is stored after it.
BusinessNeverOverwritten ==
    [][\A n \in 1..Len(records) :
          IsLatest(n) /\ records[n].body.kind = "business" => records' = records]_vars

\* A caller whose adapter has an outcome service is only ever told the
\* authority's decision, whatever response is retained.
CallerToldWinner ==
    OutcomeService /\ told.kind = "business" => winner # None /\ told = Business(winner)

\* Every queued command is eventually acknowledged or quarantined.
Settled == \A c \in Copies : source[c] = "queued" ~> source[c] \in {"acked", "termed"}
===============================================================================
