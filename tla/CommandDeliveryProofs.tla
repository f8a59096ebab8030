------------------------- MODULE CommandDeliveryProofs -------------------------
(* The safety of command delivery, for any number of deliveries, hosts and       *)
(* publications: what settles a command, what the response subject may hold and  *)
(* what a caller is told.                                                        *)
EXTENDS CommandDelivery, SequenceTheorems, TLAPS

\* The authority has decided, and b says so.
Decided(b) == winner # None /\ b = Business(winner)

\* Response b was stored at some time.
WasStored(b) == \E n \in 1..Len(records) : records[n].body = b

\* A publication after n overwrites no business response.
Replaceable(n) == n \in 0..Len(records) /\ BodyAt(n).kind # "business"

\* What is being published, and what its success entitles the handler to return.
Intent(w) ==
    \/ job[w].disposition = "acknowledge" /\ Decided(job[w].body)
    \/ job[w].disposition = "retry" /\ job[w].body = Technical("retryable")
    \/ job[w].disposition = "diagnosed" /\ job[w].body = Technical("blocked")

\* What worker w relies on at each stage of its delivery.
WorkerInv(w) ==
    /\ pc[w] = "authority" => WasStored(job[w].body)
    /\ pc[w] \in {"prepare", "publish", "verify"} => Intent(w)
    /\ pc[w] \in {"publish", "verify"} =>
          job[w].prepared.exact \/ Replaceable(job[w].prepared.predecessor)
    /\ pc[w] = "settle" =>
          /\ job[w].disposition = "acknowledge" => winner # None /\ WasStored(Business(winner))
          /\ job[w].disposition = "diagnosed" => WasStored(Technical("blocked"))
    /\ pc[w] = "term" => quarantined[job[w].copy] # {}

\* A publication that is still on its way is as harmless as one just prepared.
LateInv ==
    \A m \in delayed :
        /\ Replaceable(m.predecessor)
        /\ m.body.kind = "business" => Decided(m.body)

\* The responses of this runtime all state the decision.
AnsweredTruly ==
    \A n \in (Len(Legacy) + 1)..Len(records) :
        records[n].body.kind = "business" => Decided(records[n].body)

\* The inductive invariant.
DeliveryInv ==
    /\ TypeOK
    /\ \A w \in Workers : WorkerInv(w)
    /\ LateInv
    /\ AckMeansAnswered
    /\ TermMeansQuarantined
    /\ DiagnosedHasEvidence
    /\ AnsweredTruly
    /\ CallerToldWinner

-----------------------------------------------------------------------------
(* Types. *)

\* The kinds of response tell them apart (CommandResponseOutcome).
LEMMA Kinds ==
    /\ \A d : Business(d).kind = "business" /\ Business(d).decision = d
    /\ \A s : Technical(s).kind = "technical"
    /\ NoBody.kind = "none"
    /\ Technical("retryable") # Technical("blocked")
    /\ \A b \in Bodies : b.kind \in {"business", "technical"}
    /\ \A b \in Bodies : b.kind = "business" => \E d \in Decisions : b = Business(d)
BY DEF Business, Technical, NoBody, Bodies

\* Token and publication identities fit their types.
LEMMA Identities ==
    /\ BusinessId \in Tokens /\ NoPrepared \in Prepared
    /\ \A g, n \in 0..MaxRecords : [generation |-> g, predecessor |-> n] \in Tokens
BY LimitsAssumption DEF BusinessId, NoPrepared, Tokens, Prepared

\* A delivery changed in one field is still a delivery.
LEMMA JobTypes ==
    /\ \A c \in Copies, n \in 0..(MaxAttempts + 1), d \in Dispositions : Job(c, n, d) \in Jobs
    /\ NoJob \in Jobs
    /\ \A j \in Jobs, b \in Bodies \cup {NoBody} : [j EXCEPT !.body = b] \in Jobs
    /\ \A j \in Jobs, b \in Bodies, d \in Dispositions :
          [j EXCEPT !.body = b, !.disposition = d] \in Jobs
    /\ \A j \in Jobs, p \in Prepared : [j EXCEPT !.prepared = p] \in Jobs
    /\ \A j \in Jobs : j.tries + 1 < MaxTries => [j EXCEPT !.tries = @ + 1] \in Jobs
<1>1. \A c \in Copies, n \in 0..(MaxAttempts + 1), d \in Dispositions : Job(c, n, d) \in Jobs
  BY Identities, LimitsAssumption DEF Job, Jobs
<1>2. NoJob \in Jobs
  <2>1. (CHOOSE c \in Copies : TRUE) \in Copies
    BY CopiesAssumption
  <2>2. 0 \in 0..(MaxAttempts + 1) /\ "none" \in Dispositions
    BY LimitsAssumption DEF Dispositions
  <2> QED
    BY <1>1, <2>1, <2>2 DEF NoJob
<1>3. \A j \in Jobs, b \in Bodies \cup {NoBody} : [j EXCEPT !.body = b] \in Jobs
  BY DEF Jobs
<1>4. \A j \in Jobs, b \in Bodies, d \in Dispositions :
          [j EXCEPT !.body = b, !.disposition = d] \in Jobs
  BY DEF Jobs
<1>5. \A j \in Jobs, p \in Prepared : [j EXCEPT !.prepared = p] \in Jobs
  BY DEF Jobs
<1>6. \A j \in Jobs : j.tries + 1 < MaxTries => [j EXCEPT !.tries = @ + 1] \in Jobs
  BY LimitsAssumption DEF Jobs
<1> QED
  BY <1>1, <1>2, <1>3, <1>4, <1>5, <1>6

\* The fields of a delivery (Jobs).
LEMMA JobFields ==
    ASSUME NEW j \in Jobs
    PROVE  /\ j.copy \in Copies /\ j.attempt \in 0..(MaxAttempts + 1)
           /\ j.body \in Bodies \cup {NoBody} /\ j.disposition \in Dispositions
           /\ j.prepared \in Prepared /\ j.prepared.id \in Tokens
           /\ j.prepared.predecessor \in 0..MaxRecords
BY DEF Jobs, Prepared

\* What is published has the type of a publication.
LEMMA IntentBody ==
    ASSUME TypeOK, NEW w \in Workers, Intent(w)
    PROVE  job[w].body \in Bodies /\ Publication(w) \in Publications
<1>1. job[w] \in Jobs /\ winner \in Decisions \cup {None}
  BY DEF TypeOK
<1>2. job[w].body \in Bodies
  BY <1>1 DEF Intent, Decided, Bodies
<1> QED
  BY <1>1, <1>2, JobFields DEF Publication, Publications

\* What storing publication m does to the subject.
Appended(m) ==
    /\ StoreAllowed(m)
    /\ Len(records') = Len(records) + 1
    /\ \A n \in 1..Len(records) : records'[n] = records[n]
    /\ records'[Len(records) + 1] = [body |-> m.body, id |-> m.id]

\* A publication that is stored is appended behind everything stored before.
LEMMA StoredShape ==
    ASSUME TypeOK, NEW m \in Publications, StoreAllowed(m), Stored(m)
    PROVE  Appended(m) /\ records' \in Seq(Records) /\ Len(records') <= MaxRecords
<1>1. records \in Seq(Records) /\ Len(records) < MaxRecords /\ Len(records) \in Nat
  BY DEF TypeOK, StoreAllowed
<1>2. [body |-> m.body, id |-> m.id] \in Records
  BY DEF Publications, Records
<1> QED
  BY <1>1, <1>2, AppendProperties, LimitsAssumption DEF Stored, Appended

\* An offered publication is appended, or leaves the subject alone.
LEMMA OfferShape ==
    ASSUME TypeOK, NEW m \in Publications, Offer(m)
    PROVE  /\ Appended(m) \/ UNCHANGED records
           /\ records' \in Seq(Records) /\ Len(records') <= MaxRecords
BY StoredShape DEF Offer, TypeOK

\* The moves of one delivery keep the types of the locals.
LEMMA MoveTypes ==
    ASSUME TypeOK, NEW w \in Workers
    PROVE  /\ \A l \in PCs : Goto(w, l) => pc' \in [Workers -> PCs]
           /\ \A j \in Jobs : SetJob(w, j) => job' \in [Workers -> Jobs]
           /\ \A d \in Dispositions :
                 Dispose(w, d) => pc' \in [Workers -> PCs] /\ job' \in [Workers -> Jobs]
           /\ \A b \in Bodies, d \in Dispositions :
                 Respond(w, b, d) => pc' \in [Workers -> PCs] /\ job' \in [Workers -> Jobs]
           /\ Rest(w) => pc' \in [Workers -> PCs] /\ job' \in [Workers -> Jobs]
           /\ TryAgain(w) => pc' \in [Workers -> PCs] /\ job' \in [Workers -> Jobs]
<1>1. pc \in [Workers -> PCs] /\ job \in [Workers -> Jobs] /\ job[w] \in Jobs
  BY DEF TypeOK
<1>2. \A l \in PCs : Goto(w, l) => pc' \in [Workers -> PCs]
  BY <1>1 DEF Goto
<1>3. \A j \in Jobs : SetJob(w, j) => job' \in [Workers -> Jobs]
  BY <1>1 DEF SetJob
<1>4. "settle" \in PCs /\ "prepare" \in PCs /\ "idle" \in PCs /\ "publish" \in PCs
      /\ "retry" \in Dispositions
  BY DEF PCs, Gated, Dispositions
<1>5. \A d \in Dispositions : Job(job[w].copy, job[w].attempt, d) \in Jobs
  BY <1>1, JobTypes, JobFields
<1>6. \A d \in Dispositions :
         Dispose(w, d) => pc' \in [Workers -> PCs] /\ job' \in [Workers -> Jobs]
  BY <1>2, <1>3, <1>4, <1>5 DEF Dispose
<1>7. \A b \in Bodies, d \in Dispositions :
         Respond(w, b, d) => pc' \in [Workers -> PCs] /\ job' \in [Workers -> Jobs]
  BY <1>1, <1>2, <1>3, <1>4, JobTypes DEF Respond
<1>8. Rest(w) => pc' \in [Workers -> PCs] /\ job' \in [Workers -> Jobs]
  BY <1>2, <1>3, <1>4, JobTypes DEF Rest
<1>9. TryAgain(w) => pc' \in [Workers -> PCs] /\ job' \in [Workers -> Jobs]
  <2>1. CASE job[w].tries + 1 < MaxTries
    BY <1>1, <1>2, <1>3, <1>4, <2>1, JobTypes DEF TryAgain
  <2>2. CASE ~(job[w].tries + 1 < MaxTries)
    BY <1>4, <1>6, <2>2 DEF TryAgain
  <2> QED
    BY <2>1, <2>2
<1> QED
  BY <1>2, <1>3, <1>6, <1>7, <1>8, <1>9

\* A host that stops leaves idle workers behind.
LEMMA StopTypes ==
    ASSUME TypeOK, NEW h, Stop(h)
    PROVE  pc' \in [Workers -> PCs] /\ job' \in [Workers -> Jobs]
<1>1. "idle" \in PCs /\ NoJob \in Jobs
  BY JobTypes DEF PCs
<1> QED
  BY <1>1 DEF TypeOK, Stop

\* What is retained, and what may be the last message.
LEMMA LatestType ==
    ASSUME TypeOK, NEW n \in 0..Len(records)
    PROVE  /\ BodyAt(n) \in Bodies \cup {NoBody}
           /\ n \in 0..MaxRecords
           /\ n > 0 => n \in 1..Len(records) /\ records[n] \in Records
                       /\ records[n].body \in Bodies /\ records[n].id \in Tokens
                       /\ BodyAt(n) = records[n].body
           /\ n = 0 => BodyAt(n) = NoBody
<1>1. records \in Seq(Records) /\ Len(records) \in Nat /\ Len(records) <= MaxRecords
  BY DEF TypeOK
<1>2. n \in 1..Len(records) => records[n] \in Records
  BY <1>1
<1> QED
  BY <1>1, <1>2, LimitsAssumption DEF BodyAt, Records

\* Each consumer step keeps the types (process_message).
LEMMA SettleTypes ==
    ASSUME TypeOK, NEW w \in Workers, Settle(w) \/ \E c \in Copies : Deliver(w, c)
    PROVE  TypeOK'
<1>1. job[w] \in Jobs /\ job[w].copy \in Copies /\ job[w].disposition \in Dispositions
  BY JobFields DEF TypeOK
<1>2. Quarantines(w) => quarantined[job[w].copy] \cup {QuarantineReason(w)} \in SUBSET Reasons
  <2>1. Quarantines(w) => QuarantineReason(w) \in Reasons
    BY <1>1 DEF Quarantines, QuarantineReason, Reasons
  <2>2. quarantined[job[w].copy] \in SUBSET Reasons
    BY <1>1 DEF TypeOK
  <2> QED
    BY <2>1, <2>2
<1>3. CASE Acknowledge(w)
  <2>1. pc' \in [Workers -> PCs] /\ job' \in [Workers -> Jobs]
    BY <1>3, MoveTypes DEF Acknowledge
  <2> QED
    BY <1>1, <1>3, <2>1 DEF Acknowledge, TypeOK, caller
<1>4. CASE Nak(w)
  <2>1. pc' \in [Workers -> PCs] /\ job' \in [Workers -> Jobs]
    BY <1>4, MoveTypes DEF Nak
  <2> QED
    BY <1>4, <2>1 DEF Nak, TypeOK, caller, store
<1>5. CASE QuarantineStored(w)
  <2>1. pc' \in [Workers -> PCs] /\ job' = job
    BY <1>5, MoveTypes DEF QuarantineStored, PCs
  <2>2. quarantined' \in [Copies -> SUBSET Reasons]
    BY <1>1, <1>2, <1>5 DEF QuarantineStored, TypeOK
  <2> QED
    BY <1>5, <2>1, <2>2 DEF QuarantineStored, TypeOK, caller
<1>6. CASE QuarantineFails(w)
  <2>1. pc' \in [Workers -> PCs] /\ job' \in [Workers -> Jobs]
    BY <1>6, MoveTypes, StopTypes DEF QuarantineFails
  <2>2. quarantined' \in [Copies -> SUBSET Reasons]
    BY <1>1, <1>2, <1>6 DEF QuarantineFails, TypeOK
  <2> QED
    BY <1>6, <2>1, <2>2 DEF QuarantineFails, TypeOK, caller
<1>7. CASE Terminate(w)
  <2>1. pc' \in [Workers -> PCs] /\ job' \in [Workers -> Jobs]
    BY <1>7, MoveTypes DEF Terminate
  <2> QED
    BY <1>1, <1>7, <2>1 DEF Terminate, TypeOK, caller
<1>8. ASSUME NEW c \in Copies, Deliver(w, c) PROVE TypeOK'
  <2> DEFINE n == IF attempts[c] > MaxAttempts THEN attempts[c] ELSE attempts[c] + 1
             d == IF n > MaxAttempts THEN "exhausted" ELSE "none"
             l == IF n > MaxAttempts THEN "settle" ELSE "gate"
  <2>1. n \in 0..(MaxAttempts + 1)
    BY LimitsAssumption DEF TypeOK
  <2>2. d \in Dispositions /\ l \in PCs
    BY DEF Dispositions, Reasons, PCs
  <2>3. /\ attempts' = [attempts EXCEPT ![c] = n] /\ SetJob(w, Job(c, n, d)) /\ Goto(w, l)
        /\ UNCHANGED <<source, quarantined, winner, records, removed, delayed, caller>>
    BY <1>8 DEF Deliver
  <2> HIDE DEF n, d, l
  <2>4. pc' \in [Workers -> PCs] /\ job' \in [Workers -> Jobs]
    BY <2>1, <2>2, <2>3, MoveTypes, JobTypes
  <2> QED
    BY <2>1, <2>3, <2>4 DEF TypeOK, caller
<1> QED
  BY <1>3, <1>4, <1>5, <1>6, <1>7, <1>8 DEF Settle

\* Each handler step keeps the types (NatsCommandHandler::handle, publish_response).
LEMMA HandleTypes ==
    ASSUME TypeOK, NEW w \in Workers, WorkerInv(w), Handle(w)
    PROVE  TypeOK'
<1> DEFINE Local == pc' \in [Workers -> PCs] /\ job' \in [Workers -> Jobs]
<1>1. job[w] \in Jobs /\ job[w].body \in Bodies \cup {NoBody} /\ job[w].disposition \in Dispositions
  BY JobFields DEF TypeOK
<1>2. /\ {"gate", "read", "authority", "process", "prepare", "publish", "verify", "settle"} \subseteq PCs
      /\ {"acknowledge", "retry", "refused", "unauthorised", "blocked", "diagnosed", "failed"}
           \subseteq Dispositions
  BY DEF PCs, Gated, Dispositions, Reasons
<1>3. Technical("retryable") \in Bodies /\ Technical("blocked") \in Bodies
      /\ \A d \in Decisions : Business(d) \in Bodies
  BY DEF Bodies
<1>4. ASSUME Local, UNCHANGED <<store, caller>> PROVE TypeOK'
  BY <1>4 DEF TypeOK, store, caller
<1>5. CASE Refuse(w) \/ ProcessingTimeout(w) \/ Unavailable(w)
  <2>1. Local
    BY <1>2, <1>5, MoveTypes DEF Refuse, ProcessingTimeout, Unavailable
  <2> QED
    BY <1>4, <1>5, <2>1 DEF Refuse, ProcessingTimeout, Unavailable
<1>6. CASE AcquireGate(w) \/ PublishReconcile(w)
  <2>1. pc' \in [Workers -> PCs] /\ job' = job
    BY <1>2, <1>6, MoveTypes DEF AcquireGate, PublishReconcile
  <2> QED
    BY <1>4, <1>6, <2>1 DEF AcquireGate, PublishReconcile, TypeOK
<1>7. CASE ReadResponse(w)
  <2>1. PICK n \in 0..Len(records) :
          /\ SetJob(w, [job[w] EXCEPT !.body = BodyAt(n)])
          /\ Goto(w, IF BodyAt(n) \in {NoBody, Technical("retryable")}
                     THEN "process" ELSE "authority")
    BY <1>7 DEF ReadResponse
  <2>2. BodyAt(n) \in Bodies \cup {NoBody}
    BY LatestType
  <2>3. [job[w] EXCEPT !.body = BodyAt(n)] \in Jobs
    BY <1>1, <2>2, JobTypes
  <2>4. Local
    BY <1>2, <2>1, <2>3, MoveTypes
  <2> QED
    BY <1>4, <1>7, <2>4 DEF ReadResponse
<1>8. CASE ConsultAuthority(w)
  <2>1. winner # None => Business(winner) \in Bodies
    BY <1>3 DEF TypeOK
  <2>2. Local
    BY <1>2, <1>8, <2>1, MoveTypes DEF ConsultAuthority
  <2> QED
    BY <1>4, <1>8, <2>2 DEF ConsultAuthority
<1>9. CASE ProcessCompletes(w)
  <2>1. PICK d \in Decisions :
          /\ winner' = IF winner = None THEN d ELSE winner
          /\ Respond(w, Business(winner'), "acknowledge")
    BY <1>9 DEF ProcessCompletes
  <2>2. winner' \in Decisions
    BY <2>1 DEF TypeOK
  <2>3. Local
    BY <1>2, <1>3, <2>1, <2>2, MoveTypes
  <2> QED
    BY <1>9, <2>2, <2>3 DEF ProcessCompletes, TypeOK, caller
<1>10. CASE ProcessFails(w)
  <2>1. winner' \in Decisions \cup {None}
    BY <1>10 DEF ProcessFails, TypeOK
  <2>2. Local
    BY <1>2, <1>3, <1>10, MoveTypes DEF ProcessFails
  <2> QED
    BY <1>10, <2>1, <2>2 DEF ProcessFails, TypeOK, caller
<1>11. CASE Prepare(w)
  <2> DEFINE b == job[w].body
             new(n) == [id |-> IF b.kind = "business" THEN BusinessId
                               ELSE [generation |-> Len(records), predecessor |-> n],
                        predecessor |-> n, exact |-> FALSE]
             seen(n) == [id |-> records[n].id, predecessor |-> n, exact |-> TRUE]
  <2>1. job[w].body \in Bodies
    BY <1>11, IntentBody DEF WorkerInv, Prepare
  <2>2. PICK n \in 0..Len(records) :
          \/ BodyAt(n) = b /\ Goto(w, "publish") /\ SetJob(w, [job[w] EXCEPT !.prepared = seen(n)])
          \/ Goto(w, "publish") /\ SetJob(w, [job[w] EXCEPT !.prepared = new(n)])
          \/ Dispose(w, "retry")
    BY <1>11 DEF Prepare
  <2>3. Len(records) \in 0..MaxRecords /\ n \in 0..MaxRecords
    BY LatestType, LimitsAssumption DEF TypeOK
  <2>4. new(n) \in Prepared
    BY <2>3, Identities DEF Prepared
  <2>5. ASSUME BodyAt(n) = b PROVE seen(n) \in Prepared
    <3>1. b.kind # NoBody.kind
      BY <2>1, Kinds
    <3>2. n # 0
      BY <2>5, <3>1, LatestType
    <3>3. records[n].id \in Tokens
      BY <3>2, LatestType
    <3> QED
      BY <2>3, <3>3 DEF Prepared
  <2> HIDE DEF new, seen
  <2>6. Local
    BY <1>1, <1>2, <2>2, <2>4, <2>5, MoveTypes, JobTypes
  <2> QED
    BY <1>4, <1>11, <2>6 DEF Prepare
<1>12. CASE PublishStored(w)
  <2>1. Publication(w) \in Publications
    BY <1>12, IntentBody DEF PublishStored, WorkerInv
  <2>2. records' \in Seq(Records) /\ Len(records') <= MaxRecords /\ Len(records') = Len(records) + 1
    BY <1>12, <2>1, StoredShape DEF PublishStored, Appended
  <2>3. Local
    BY <1>1, <1>12, MoveTypes DEF PublishStored
  <2>4. removed' \subseteq 1..Len(records')
    BY <1>12, <2>2 DEF PublishStored, TypeOK
  <2> QED
    BY <1>12, <2>2, <2>3, <2>4 DEF PublishStored, TypeOK, caller
<1>13. CASE PublishUnknown(w)
  <2>1. Publication(w) \in Publications
    BY <1>13, IntentBody DEF PublishUnknown, WorkerInv
  <2>2. /\ records' \in Seq(Records) /\ Len(records') <= MaxRecords
        /\ Len(records') = Len(records) \/ Len(records') = Len(records) + 1
    BY <1>13, <2>1, OfferShape DEF PublishUnknown, Appended, TypeOK
  <2>3. Local
    BY <1>13, MoveTypes DEF PublishUnknown
  <2>4. removed' \subseteq 1..Len(records')
    BY <1>13, <2>2 DEF PublishUnknown, TypeOK
  <2>5. delayed' \subseteq Publications
    BY <1>13, <2>1 DEF PublishUnknown, TypeOK
  <2> QED
    BY <1>13, <2>2, <2>3, <2>4, <2>5 DEF PublishUnknown, TypeOK, caller
<1>14. CASE Verify(w)
  <2>1. Local
    BY <1>1, <1>2, <1>14, MoveTypes DEF Verify
  <2> QED
    BY <1>4, <1>14, <2>1 DEF Verify
<1>15. CASE VerifyUnavailable(w)
  <2>1. Local
    BY <1>15, MoveTypes DEF VerifyUnavailable
  <2> QED
    BY <1>4, <1>15, <2>1 DEF VerifyUnavailable
<1> QED
  BY <1>5, <1>6, <1>7, <1>8, <1>9, <1>10, <1>11, <1>12, <1>13, <1>14, <1>15 DEF Handle

\* Each step of the caller keeps the types (NatsMessagingAdapter::dispatch).
LEMMA DispatchTypes == ASSUME TypeOK, Dispatch PROVE TypeOK'
<1>1. /\ NoBody \in Bodies \cup {NoBody}
      /\ winner # None => Business(winner) \in Bodies \cup {NoBody}
  BY DEF TypeOK, Bodies
<1>2. \A n \in Retained : records[n].body \in Bodies
  BY LatestType DEF Retained, TypeOK
<1>3. ASSUME \E b \in Bodies \cup {NoBody} : CallerReturns(b)
      PROVE  /\ cpc' \in {"idle", "publish", "admit", "wait", "heard"}
             /\ heard' \in Bodies \cup {NoBody} /\ told' \in Bodies \cup {NoBody}
  BY <1>3 DEF CallerReturns
<1>4. CASE DispatchLookup \/ DispatchAdmit \/ DispatchReturn \/ DispatchGivesUp
  <2>1. /\ cpc' \in {"idle", "publish", "admit", "wait", "heard"}
        /\ heard' \in Bodies \cup {NoBody} /\ told' \in Bodies \cup {NoBody}
    BY <1>1, <1>3, <1>4 DEF TypeOK, DispatchLookup, DispatchAdmit, DispatchReturn, DispatchGivesUp
  <2>2. UNCHANGED <<store, pc, job>>
    BY <1>4 DEF DispatchLookup, DispatchAdmit, DispatchReturn, DispatchGivesUp
  <2> QED
    BY <2>1, <2>2 DEF TypeOK, store
<1>5. CASE DispatchRead
  BY <1>2, <1>5 DEF TypeOK, DispatchRead, store
<1>6. CASE DispatchPublish \/ DispatchPublishFails
  <2>1. source' \in [Copies -> {"none", "queued", "acked", "termed"}]
    BY <1>6 DEF TypeOK, DispatchPublish, DispatchPublishFails
  <2>2. /\ cpc' \in {"idle", "publish", "admit", "wait", "heard"}
        /\ heard' \in Bodies \cup {NoBody} /\ told' \in Bodies \cup {NoBody}
    BY <1>1, <1>3, <1>6 DEF TypeOK, DispatchPublish, DispatchPublishFails
  <2>3. UNCHANGED <<attempts, quarantined, winner, records, removed, delayed, pc, job>>
    BY <1>6 DEF DispatchPublish, DispatchPublishFails
  <2> QED
    BY <2>1, <2>2, <2>3 DEF TypeOK
<1> QED
  BY <1>4, <1>5, <1>6 DEF Dispatch

\* The types are preserved by every step of an execution that keeps the worker invariant.
LEMMA TypeStep ==
    ASSUME TypeOK, \A w \in Workers : WorkerInv(w), Next
    PROVE  TypeOK'
<1>1. ASSUME NEW h \in Hosts, Abort(h) PROVE TypeOK'
  <2>1. pc' \in [Workers -> PCs] /\ job' \in [Workers -> Jobs]
    BY <1>1, StopTypes DEF Abort
  <2> QED
    BY <1>1, <2>1 DEF Abort, TypeOK, store, caller
<1>2. ASSUME NEW m \in delayed, DeliverPublication(m) PROVE TypeOK'
  <2>1. m \in Publications
    BY DEF TypeOK
  <2>2. /\ records' \in Seq(Records) /\ Len(records') <= MaxRecords
        /\ Len(records') = Len(records) \/ Len(records') = Len(records) + 1
    BY <1>2, <2>1, OfferShape DEF DeliverPublication, Appended
  <2>3. removed' \subseteq 1..Len(records') /\ delayed' \subseteq Publications
    BY <1>2, <2>2 DEF DeliverPublication, TypeOK
  <2> QED
    BY <1>2, <2>2, <2>3 DEF DeliverPublication, TypeOK, caller
<1>3. CASE AgeOut \/ \E n \in 1..Len(records) : RemoveDiagnostic(n)
  <2>1. PICK n \in Retained : removed' = removed \cup {n} /\ records' = records
    BY <1>3 DEF AgeOut, RemoveDiagnostic
  <2>2. removed' \subseteq 1..Len(records')
    BY <2>1 DEF Retained, TypeOK
  <2> QED
    BY <1>3, <2>2 DEF AgeOut, RemoveDiagnostic, TypeOK, caller
<1> QED
  BY <1>1, <1>2, <1>3, SettleTypes, HandleTypes, DispatchTypes DEF Next

-----------------------------------------------------------------------------
(* What a delivery relies on. *)

\* What no step takes back: stored responses, the decision, quarantine evidence.
Grows ==
    /\ \A n \in 1..Len(records) : n \in 1..Len(records') /\ records'[n] = records[n]
    /\ winner # None => winner' = winner
    /\ \A c \in Copies : quarantined[c] \subseteq quarantined'[c]

\* Every step only adds to the response subject, the authority and the evidence.
LEMMA StepGrows ==
    ASSUME TypeOK, \A w \in Workers : WorkerInv(w), Next
    PROVE  Grows
<1>1. \A m \in Publications : Appended(m) =>
         \A n \in 1..Len(records) : n \in 1..Len(records') /\ records'[n] = records[n]
  BY DEF TypeOK, Appended
<1>2. ASSUME UNCHANGED <<records, winner, quarantined>> PROVE Grows
  BY <1>2 DEF Grows
<1>3. ASSUME NEW w \in Workers, QuarantineStored(w) \/ QuarantineFails(w) PROVE Grows
  <2>1. job[w].copy \in Copies
    BY JobFields DEF TypeOK
  <2>2. \A c \in Copies : quarantined[c] \subseteq quarantined'[c]
    BY <1>3, <2>1 DEF QuarantineStored, QuarantineFails, TypeOK
  <2> QED
    BY <1>3, <2>2 DEF QuarantineStored, QuarantineFails, Grows
<1>4. ASSUME NEW w \in Workers, ProcessCompletes(w) \/ ProcessFails(w) PROVE Grows
  BY <1>4 DEF ProcessCompletes, ProcessFails, Grows
<1>5. ASSUME NEW w \in Workers, PublishStored(w) PROVE Grows
  <2>1. Publication(w) \in Publications
    BY <1>5, IntentBody DEF PublishStored, WorkerInv
  <2>2. Appended(Publication(w))
    BY <1>5, <2>1, StoredShape DEF PublishStored
  <2> QED
    BY <1>1, <1>5, <2>1, <2>2 DEF PublishStored, Grows
<1>6. ASSUME NEW w \in Workers, PublishUnknown(w) PROVE Grows
  <2>1. Publication(w) \in Publications
    BY <1>6, IntentBody DEF PublishUnknown, WorkerInv
  <2>2. Appended(Publication(w)) \/ UNCHANGED records
    BY <1>6, <2>1, OfferShape DEF PublishUnknown
  <2> QED
    BY <1>1, <1>6, <2>1, <2>2 DEF PublishUnknown, Grows
<1>7. ASSUME NEW m \in delayed, DeliverPublication(m) PROVE Grows
  <2>1. m \in Publications
    BY DEF TypeOK
  <2>2. Appended(m) \/ UNCHANGED records
    BY <1>7, <2>1, OfferShape DEF DeliverPublication
  <2> QED
    BY <1>1, <1>7, <2>1, <2>2 DEF DeliverPublication, Grows
<1>8. CASE AgeOut \/ (\E n \in 1..Len(records) : RemoveDiagnostic(n)) \/ Dispatch
           \/ \E h \in Hosts : Abort(h)
  BY <1>2, <1>8 DEF AgeOut, RemoveDiagnostic, Abort, store, Dispatch, DispatchLookup, DispatchPublish,
     DispatchPublishFails, DispatchAdmit, DispatchRead, DispatchReturn, DispatchGivesUp
<1>9. ASSUME NEW w \in Workers,
             Acknowledge(w) \/ Nak(w) \/ Terminate(w) \/ (\E c \in Copies : Deliver(w, c))
               \/ Refuse(w) \/ AcquireGate(w) \/ ProcessingTimeout(w) \/ ReadResponse(w)
               \/ ConsultAuthority(w) \/ Unavailable(w) \/ Prepare(w) \/ PublishReconcile(w)
               \/ Verify(w) \/ VerifyUnavailable(w)
      PROVE  Grows
  BY <1>2, <1>9 DEF Acknowledge, Nak, Terminate, Deliver, Refuse, AcquireGate, ProcessingTimeout,
     ReadResponse, ConsultAuthority, Unavailable, Prepare, PublishReconcile, Verify,
     VerifyUnavailable, store
<1> QED
  BY <1>3, <1>4, <1>5, <1>6, <1>7, <1>8, <1>9 DEF Next, Settle, Handle

\* What growth keeps: stored responses, the decision, predecessors, evidence.
LEMMA GrowthKeeps ==
    ASSUME TypeOK, TypeOK', Grows
    PROVE  /\ \A b : WasStored(b) => \E n \in 1..Len(records') : records'[n].body = b
           /\ \A b : Decided(b) => winner' # None /\ b = Business(winner')
           /\ \A n : Replaceable(n) =>
                 /\ n \in 0..Len(records')
                 /\ (IF n = 0 THEN NoBody ELSE records'[n].body).kind # "business"
<1>1. \A b : WasStored(b) => \E n \in 1..Len(records') : records'[n].body = b
  BY DEF WasStored, Grows
<1>2. \A b : Decided(b) => winner' # None /\ b = Business(winner')
  BY DEF Decided, Grows
<1>3. ASSUME NEW n, Replaceable(n)
      PROVE  /\ n \in 0..Len(records')
             /\ (IF n = 0 THEN NoBody ELSE records'[n].body).kind # "business"
  <2>1. Len(records) \in Nat /\ n \in 0..Len(records)
    BY <1>3 DEF TypeOK, Replaceable
  <2>2. CASE n = 0
    <3>1. Len(records') \in Nat
      BY DEF TypeOK
    <3> QED
      BY <2>2, <3>1, Kinds
  <2>3. CASE n # 0
    <3>1. n \in 1..Len(records)
      BY <2>1, <2>3
    <3> QED
      BY <1>3, <2>3, <3>1 DEF Grows, Replaceable, BodyAt
  <2> QED
    BY <2>2, <2>3
<1> QED
  BY <1>1, <1>2, <1>3

\* A worker that does not move keeps what it relies on.
LEMMA WorkerStays ==
    ASSUME TypeOK, TypeOK', Grows, NEW w \in Workers, WorkerInv(w),
           pc'[w] = pc[w], job'[w] = job[w]
    PROVE  WorkerInv(w)'
<1>1. pc[w] = "authority" => WasStored(job[w].body)'
  BY GrowthKeeps DEF WorkerInv, WasStored
<1>2. pc[w] \in {"prepare", "publish", "verify"} => Intent(w)'
  BY GrowthKeeps DEF WorkerInv, Intent, Decided
<1>3. pc[w] \in {"publish", "verify"} =>
         (job[w].prepared.exact \/ Replaceable(job[w].prepared.predecessor))'
  BY GrowthKeeps DEF WorkerInv, Replaceable, BodyAt
<1>4. pc[w] = "settle" =>
        /\ job[w].disposition = "acknowledge" => winner' # None /\ WasStored(Business(winner))'
        /\ job[w].disposition = "diagnosed" => WasStored(Technical("blocked"))'
  BY GrowthKeeps DEF WorkerInv, WasStored, Grows
<1>5. pc[w] = "term" => quarantined'[job[w].copy] # {}
  <2>1. job[w].copy \in Copies
    BY JobFields DEF TypeOK
  <2> QED
    BY <2>1 DEF WorkerInv, Grows
<1> QED
  BY <1>1, <1>2, <1>3, <1>4, <1>5 DEF WorkerInv

\* Where a move of worker w leaves it, and that the others do not move.
LEMMA MoveShape ==
    ASSUME TypeOK, NEW w \in Workers
    PROVE  /\ \A l : Goto(w, l) => pc'[w] = l /\ \A v \in Workers \ {w} : pc'[v] = pc[v]
           /\ \A j : SetJob(w, j) => job'[w] = j /\ \A v \in Workers \ {w} : job'[v] = job[v]
           /\ \A c, n, d : Job(c, n, d).copy = c /\ Job(c, n, d).disposition = d
                          /\ Job(c, n, d).body = NoBody
BY DEF TypeOK, Goto, SetJob, Job

\* Only worker w moves.
Alone(w) == \A v \in Workers \ {w} : pc'[v] = pc[v] /\ job'[v] = job[v]

\* A delivery that is disposed of has earned its disposition.
LEMMA DisposeKeeps ==
    ASSUME TypeOK, NEW w \in Workers, NEW d, Dispose(w, d),
           d = "acknowledge" =>
              winner' # None /\ \E n \in 1..Len(records') : records'[n].body = Business(winner'),
           d = "diagnosed" => \E n \in 1..Len(records') : records'[n].body = Technical("blocked")
    PROVE  WorkerInv(w)' /\ Alone(w)
<1>1. pc'[w] = "settle" /\ job'[w].disposition = d /\ Alone(w)
  BY MoveShape DEF Dispose, Alone
<1> QED
  BY <1>1 DEF WorkerInv, WasStored

\* A response to be published has its intent.
LEMMA RespondKeeps ==
    ASSUME TypeOK, NEW w \in Workers, NEW b, NEW d, Respond(w, b, d),
           \/ d = "acknowledge" /\ winner' # None /\ b = Business(winner')
           \/ d = "retry" /\ b = Technical("retryable")
           \/ d = "diagnosed" /\ b = Technical("blocked")
    PROVE  WorkerInv(w)' /\ Alone(w)
<1>1. job[w] \in Jobs
  BY DEF TypeOK
<1> DEFINE j == [job[w] EXCEPT !.body = b, !.disposition = d]
<1>2. j.body = b /\ j.disposition = d
  BY <1>1 DEF Jobs
<1>3. Goto(w, "prepare") /\ SetJob(w, j)
  BY DEF Respond
<1> HIDE DEF j
<1>4. pc'[w] = "prepare" /\ job'[w].disposition = d /\ job'[w].body = b /\ Alone(w)
  BY <1>2, <1>3, MoveShape DEF Alone
<1> QED
  BY <1>4 DEF WorkerInv, Intent, Decided

\* A worker that leaves its delivery relies on nothing.
LEMMA IdleKeeps == ASSUME NEW w, pc'[w] \in {"idle", "gate", "read", "process"} PROVE WorkerInv(w)'
BY DEF WorkerInv

\* A publication to be tried again is the same one.
LEMMA TryKeeps ==
    ASSUME TypeOK, TypeOK', Grows, NEW w \in Workers, WorkerInv(w),
           pc[w] \in {"publish", "verify"}, TryAgain(w)
    PROVE  WorkerInv(w)' /\ Alone(w)
<1>1. CASE job[w].tries + 1 < MaxTries
  <2>1. job[w] \in Jobs
    BY DEF TypeOK
  <2>2. /\ [job[w] EXCEPT !.tries = @ + 1].body = job[w].body
        /\ [job[w] EXCEPT !.tries = @ + 1].disposition = job[w].disposition
        /\ [job[w] EXCEPT !.tries = @ + 1].prepared = job[w].prepared
    BY <2>1 DEF Jobs
  <2>3. /\ pc'[w] = "publish" /\ job'[w].body = job[w].body
        /\ job'[w].disposition = job[w].disposition /\ job'[w].prepared = job[w].prepared
        /\ Alone(w)
    BY <1>1, <2>2, MoveShape DEF TryAgain, Alone
  <2>4. Intent(w)'
    BY <2>3, GrowthKeeps DEF WorkerInv, Intent, Decided
  <2>5. (job[w].prepared.exact \/ Replaceable(job[w].prepared.predecessor))'
    BY <2>3, GrowthKeeps DEF WorkerInv, Replaceable, BodyAt
  <2> QED
    BY <2>3, <2>4, <2>5 DEF WorkerInv
<1>2. CASE ~(job[w].tries + 1 < MaxTries)
  BY <1>2, DisposeKeeps DEF TryAgain
<1> QED
  BY <1>1, <1>2

\* The consumer's steps keep what its deliveries rely on.
LEMMA SettleKeeps ==
    ASSUME TypeOK, TypeOK', Grows, \A v \in Workers : WorkerInv(v), NEW w \in Workers,
           Settle(w) \/ \E c \in Copies : Deliver(w, c)
    PROVE  \A v \in Workers : WorkerInv(v)'
<1>1. ASSUME Alone(w), WorkerInv(w)' PROVE \A v \in Workers : WorkerInv(v)'
  BY <1>1, WorkerStays DEF Alone
<1>2. Rest(w) => Alone(w) /\ WorkerInv(w)'
  BY MoveShape, IdleKeeps DEF Rest, Alone
<1>3. CASE Acknowledge(w) \/ Nak(w) \/ Terminate(w)
  BY <1>1, <1>2, <1>3 DEF Acknowledge, Nak, Terminate
<1>4. CASE QuarantineStored(w)
  <2>1. pc'[w] = "term" /\ job' = job /\ \A v \in Workers \ {w} : pc'[v] = pc[v]
    BY <1>4, MoveShape DEF QuarantineStored
  <2>2. job[w].copy \in Copies
    BY JobFields DEF TypeOK
  <2>3. quarantined'[job[w].copy] # {}
    BY <1>4, <2>2 DEF QuarantineStored, TypeOK
  <2>4. WorkerInv(w)'
    BY <2>1, <2>3 DEF WorkerInv
  <2> QED
    BY <1>1, <2>1, <2>4 DEF Alone
<1>5. CASE QuarantineFails(w)
  <2>1. CASE Rest(w)
    BY <1>1, <1>2, <2>1
  <2>2. CASE Stop(HostOf[w])
    <3>1. \A v \in Workers : pc'[v] = "idle" \/ (pc'[v] = pc[v] /\ job'[v] = job[v])
      BY <2>2 DEF Stop
    <3> QED
      BY <3>1, IdleKeeps, WorkerStays
  <2> QED
    BY <1>5, <2>1, <2>2 DEF QuarantineFails
<1>6. ASSUME NEW c \in Copies, Deliver(w, c) PROVE \A v \in Workers : WorkerInv(v)'
  <2>1. /\ Alone(w)
        /\ pc'[w] = "gate" \/ (pc'[w] = "settle" /\ job'[w].disposition = "exhausted")
    BY <1>6, MoveShape DEF Deliver, Alone
  <2>2. WorkerInv(w)'
    BY <2>1, IdleKeeps DEF WorkerInv
  <2> QED
    BY <1>1, <2>1, <2>2
<1> QED
  BY <1>3, <1>4, <1>5, <1>6 DEF Settle

\* The handler's steps keep what its deliveries rely on.
LEMMA HandleKeeps ==
    ASSUME TypeOK, TypeOK', Grows, \A v \in Workers : WorkerInv(v), NEW w \in Workers, Handle(w)
    PROVE  \A v \in Workers : WorkerInv(v)'
<1>1. ASSUME Alone(w), WorkerInv(w)' PROVE \A v \in Workers : WorkerInv(v)'
  BY <1>1, WorkerStays DEF Alone
<1>2. WorkerInv(w) /\ job[w] \in Jobs
  BY DEF TypeOK
<1>3. \A d \in {"refused", "retry", "unauthorised", "blocked", "failed"} :
         Dispose(w, d) => WorkerInv(w)' /\ Alone(w)
  BY DisposeKeeps
<1>4. CASE Refuse(w) \/ ProcessingTimeout(w) \/ Unavailable(w)
  BY <1>1, <1>3, <1>4 DEF Refuse, ProcessingTimeout, Unavailable
<1>5. CASE AcquireGate(w)
  BY <1>1, <1>5, MoveShape, IdleKeeps DEF AcquireGate, Alone
<1>6. CASE PublishReconcile(w)
  <2>1. /\ pc[w] = "publish" /\ pc'[w] = "verify" /\ job' = job /\ Alone(w)
        /\ UNCHANGED <<winner, records>>
    BY <1>6, MoveShape DEF PublishReconcile, Alone, store
  <2>2. WorkerInv(w)'
    BY <1>2, <2>1 DEF WorkerInv, Intent, Decided, Replaceable, BodyAt
  <2> QED
    BY <1>1, <2>1, <2>2
<1>7. CASE ReadResponse(w)
  <2>1. PICK n \in 0..Len(records) :
          /\ SetJob(w, [job[w] EXCEPT !.body = BodyAt(n)])
          /\ Goto(w, IF BodyAt(n) \in {NoBody, Technical("retryable")}
                     THEN "process" ELSE "authority")
    BY <1>7 DEF ReadResponse
  <2> DEFINE j == [job[w] EXCEPT !.body = BodyAt(n)]
  <2>2. j.body = BodyAt(n)
    BY <1>2 DEF Jobs
  <2>3. SetJob(w, j)
    BY <2>1
  <2> HIDE DEF j
  <2>4. Alone(w) /\ job'[w].body = BodyAt(n)
    BY <2>1, <2>2, <2>3, MoveShape DEF Alone
  <2>5. pc'[w] = "process" \/ (pc'[w] = "authority" /\ BodyAt(n) # NoBody)
    BY <2>1, MoveShape
  <2>6. CASE pc'[w] = "process"
    BY <1>1, <2>4, <2>6, IdleKeeps
  <2>7. CASE pc'[w] = "authority" /\ BodyAt(n) # NoBody
    <3>1. n \in 1..Len(records) /\ records[n].body = job'[w].body
      BY <2>4, <2>7, LatestType
    <3>2. WorkerInv(w)'
      BY <1>7, <2>7, <3>1 DEF WorkerInv, WasStored, ReadResponse, store
    <3> QED
      BY <1>1, <2>4, <3>2
  <2> QED
    BY <2>5, <2>6, <2>7
<1>8. CASE ConsultAuthority(w)
  <2>1. UNCHANGED <<winner, records>> /\ WasStored(job[w].body)
    BY <1>2, <1>8 DEF ConsultAuthority, store, WorkerInv
  <2>2. \/ Dispose(w, "acknowledge") /\ Decided(job[w].body)
        \/ Dispose(w, "unauthorised") \/ Dispose(w, "blocked")
        \/ Respond(w, Business(winner), "acknowledge") /\ winner # None
    BY <1>8 DEF ConsultAuthority, Decided
  <2>3. CASE Dispose(w, "acknowledge") /\ Decided(job[w].body)
    <3>1. winner' # None /\ \E n \in 1..Len(records') : records'[n].body = Business(winner')
      BY <2>1, <2>3 DEF Decided, WasStored
    <3> QED
      BY <1>1, <2>3, <3>1, DisposeKeeps
  <2>4. CASE Respond(w, Business(winner), "acknowledge") /\ winner # None
    BY <1>1, <2>1, <2>4, RespondKeeps
  <2> QED
    BY <1>1, <1>3, <2>2, <2>3, <2>4
<1>9. CASE ProcessCompletes(w)
  <2>1. winner' # None /\ Respond(w, Business(winner'), "acknowledge")
    BY <1>9, NoneAssumption DEF ProcessCompletes
  <2> QED
    BY <1>1, <2>1, RespondKeeps
<1>10. CASE ProcessFails(w)
  <2>1. \/ Respond(w, Technical("retryable"), "retry")
        \/ Respond(w, Technical("blocked"), "diagnosed")
        \/ Dispose(w, "retry") \/ Dispose(w, "failed")
    BY <1>10 DEF ProcessFails
  <2> QED
    BY <1>1, <1>3, <2>1, RespondKeeps
<1>11. CASE Prepare(w)
  <2> DEFINE b == job[w].body
             new(n) == [id |-> IF b.kind = "business" THEN BusinessId
                               ELSE [generation |-> Len(records), predecessor |-> n],
                        predecessor |-> n, exact |-> FALSE]
             seen(n) == [id |-> records[n].id, predecessor |-> n, exact |-> TRUE]
  <2>1. PICK n \in 0..Len(records) :
          \/ Goto(w, "publish") /\ SetJob(w, [job[w] EXCEPT !.prepared = seen(n)])
          \/ /\ BodyAt(n).kind # "business"
             /\ Goto(w, "publish") /\ SetJob(w, [job[w] EXCEPT !.prepared = new(n)])
          \/ Dispose(w, "retry")
    BY <1>11 DEF Prepare
  <2>2. pc[w] = "prepare" /\ Intent(w) /\ UNCHANGED <<winner, records>>
    BY <1>2, <1>11 DEF Prepare, WorkerInv, store
  <2>3. seen(n).exact = TRUE /\ new(n).predecessor = n
    OBVIOUS
  <2> HIDE DEF new, seen
  <2>4. ASSUME NEW p, p.exact = TRUE \/ (p.predecessor = n /\ BodyAt(n).kind # "business"),
               Goto(w, "publish"), SetJob(w, [job[w] EXCEPT !.prepared = p])
        PROVE  Alone(w) /\ WorkerInv(w)'
    <3> DEFINE j == [job[w] EXCEPT !.prepared = p]
    <3>1. j.body = job[w].body /\ j.disposition = job[w].disposition /\ j.prepared = p
      BY <1>2 DEF Jobs
    <3>2. SetJob(w, j)
      BY <2>4
    <3> HIDE DEF j
    <3>3. /\ Alone(w) /\ pc'[w] = "publish" /\ job'[w].prepared = p
          /\ job'[w].body = job[w].body /\ job'[w].disposition = job[w].disposition
      BY <2>4, <3>1, <3>2, MoveShape DEF Alone
    <3>4. Intent(w)'
      BY <2>2, <3>3 DEF Intent, Decided
    <3>5. (job[w].prepared.exact \/ Replaceable(job[w].prepared.predecessor))'
      BY <2>2, <2>4, <3>3 DEF Replaceable, BodyAt
    <3> QED
      BY <3>3, <3>4, <3>5 DEF WorkerInv
  <2> QED
    BY <1>1, <1>3, <2>1, <2>3, <2>4
<1>12. CASE PublishStored(w)
  <2>1. Intent(w) /\ Dispose(w, job[w].disposition) /\ winner' = winner
    BY <1>2, <1>12 DEF PublishStored, WorkerInv
  <2>2. Appended(Publication(w))
    BY <1>12, <2>1, IntentBody, StoredShape DEF PublishStored
  <2>3. /\ Len(records) + 1 \in 1..Len(records')
        /\ records'[Len(records) + 1] = [body |-> Publication(w).body, id |-> Publication(w).id]
    BY <2>2 DEF Appended, TypeOK
  <2>4. records'[Len(records) + 1].body = job[w].body
    BY <2>3 DEF Publication
  <2> QED
    BY <1>1, <2>1, <2>3, <2>4, DisposeKeeps DEF Intent, Decided
<1>13. CASE PublishUnknown(w) \/ VerifyUnavailable(w)
  <2>1. pc[w] \in {"publish", "verify"} /\ TryAgain(w)
    BY <1>13 DEF PublishUnknown, VerifyUnavailable
  <2> QED
    BY <1>1, <1>2, <2>1, TryKeeps
<1>14. CASE Verify(w)
  <2>1. Intent(w) /\ UNCHANGED <<winner, records>>
    BY <1>2, <1>14 DEF Verify, WorkerInv, store
  <2>2. PICK n \in 0..Len(records) :
          Dispose(w, IF n > 0 /\ records[n] = [body |-> job[w].body, id |-> job[w].prepared.id]
                     THEN job[w].disposition ELSE "retry")
    BY <1>14 DEF Verify
  <2>3. CASE n > 0 /\ records[n] = [body |-> job[w].body, id |-> job[w].prepared.id]
    <3>1. \E k \in 1..Len(records') : records'[k].body = job[w].body
      BY <2>1, <2>3 DEF TypeOK
    <3> QED
      BY <1>1, <2>1, <2>2, <2>3, <3>1, DisposeKeeps DEF Intent, Decided
  <2>4. CASE ~(n > 0 /\ records[n] = [body |-> job[w].body, id |-> job[w].prepared.id])
    BY <1>1, <1>3, <2>2, <2>4
  <2> QED
    BY <2>3, <2>4
<1> QED
  BY <1>4, <1>5, <1>6, <1>7, <1>8, <1>9, <1>10, <1>11, <1>12, <1>13, <1>14 DEF Handle

\* Every step keeps what the deliveries rely on.
LEMMA WorkerStep ==
    ASSUME TypeOK, \A v \in Workers : WorkerInv(v), Next
    PROVE  \A v \in Workers : WorkerInv(v)'
<1>1. TypeOK' /\ Grows
  BY TypeStep, StepGrows
<1>2. ASSUME NEW h \in Hosts, Abort(h) PROVE \A v \in Workers : WorkerInv(v)'
  <2>1. \A v \in Workers : pc'[v] = "idle" \/ (pc'[v] = pc[v] /\ job'[v] = job[v])
    BY <1>2 DEF Abort, Stop
  <2> QED
    BY <1>1, <2>1, IdleKeeps, WorkerStays
<1>3. CASE AgeOut \/ (\E n \in 1..Len(records) : RemoveDiagnostic(n)) \/ Dispatch
           \/ \E m \in delayed : DeliverPublication(m)
  <2>1. UNCHANGED <<pc, job>>
    BY <1>3 DEF AgeOut, RemoveDiagnostic, DeliverPublication, Dispatch, DispatchLookup,
       DispatchPublish, DispatchPublishFails, DispatchAdmit, DispatchRead, DispatchReturn,
       DispatchGivesUp
  <2> QED
    BY <1>1, <2>1, WorkerStays
<1> QED
  BY <1>1, <1>2, <1>3, SettleKeeps, HandleKeeps DEF Next

-----------------------------------------------------------------------------
(* The response subject. *)

\* A publication that the server may store: prepared, by a handler or on its way.
Ready(m) ==
    /\ m \in Publications
    /\ Replaceable(m.predecessor)
    /\ m.body.kind = "business" => Decided(m.body)

\* Every step leaves the subject alone or appends one publication that was ready.
LEMMA SubjectStep ==
    ASSUME TypeOK, \A v \in Workers : WorkerInv(v), LateInv, Next
    PROVE  UNCHANGED records \/ \E m \in Publications : Ready(m) /\ Appended(m) /\ winner' = winner
<1>1. ASSUME NEW w \in Workers, pc[w] = "publish", ~job[w].prepared.exact PROVE Ready(Publication(w))
  <2>1. Intent(w) /\ Replaceable(job[w].prepared.predecessor)
    BY <1>1 DEF WorkerInv
  <2>2. Publication(w) \in Publications
    BY <2>1, IntentBody
  <2>3. job[w].body.kind = "business" => Decided(job[w].body)
    BY <2>1, Kinds DEF Intent
  <2> QED
    BY <2>1, <2>2, <2>3 DEF Ready, Publication
<1>2. ASSUME NEW w \in Workers, PublishStored(w) \/ PublishUnknown(w)
      PROVE  UNCHANGED records \/ \E m \in Publications : Ready(m) /\ Appended(m) /\ winner' = winner
  <2>1. Ready(Publication(w)) /\ Publication(w) \in Publications
    BY <1>1, <1>2 DEF PublishStored, PublishUnknown, Ready
  <2>2. UNCHANGED records \/ Appended(Publication(w))
    BY <1>2, <2>1, StoredShape, OfferShape DEF PublishStored, PublishUnknown
  <2>3. winner' = winner
    BY <1>2 DEF PublishStored, PublishUnknown
  <2> QED
    BY <2>1, <2>2, <2>3
<1>3. ASSUME NEW m \in delayed, DeliverPublication(m)
      PROVE  UNCHANGED records \/ \E k \in Publications : Ready(k) /\ Appended(k) /\ winner' = winner
  <2>1. Ready(m) /\ m \in Publications
    BY DEF TypeOK, LateInv, Ready
  <2>2. UNCHANGED records \/ Appended(m)
    BY <1>3, <2>1, OfferShape DEF DeliverPublication
  <2> QED
    BY <1>3, <2>1, <2>2 DEF DeliverPublication
<1>4. CASE AgeOut \/ (\E n \in 1..Len(records) : RemoveDiagnostic(n)) \/ Dispatch
           \/ \E h \in Hosts : Abort(h)
  BY <1>4 DEF AgeOut, RemoveDiagnostic, Abort, store, Dispatch, DispatchLookup, DispatchPublish,
     DispatchPublishFails, DispatchAdmit, DispatchRead, DispatchReturn, DispatchGivesUp
<1>5. ASSUME NEW w \in Workers,
             Settle(w) \/ (\E c \in Copies : Deliver(w, c))
               \/ Refuse(w) \/ AcquireGate(w) \/ ProcessingTimeout(w) \/ ReadResponse(w)
               \/ ConsultAuthority(w) \/ ProcessCompletes(w) \/ ProcessFails(w) \/ Unavailable(w)
               \/ Prepare(w) \/ PublishReconcile(w) \/ Verify(w) \/ VerifyUnavailable(w)
      PROVE  UNCHANGED records
  BY <1>5 DEF Settle, Acknowledge, Nak, QuarantineStored, QuarantineFails, Terminate, Deliver,
     Refuse, AcquireGate, ProcessingTimeout, ReadResponse, ConsultAuthority, ProcessCompletes,
     ProcessFails, Unavailable, Prepare, PublishReconcile, Verify, VerifyUnavailable, store
<1> QED
  BY <1>2, <1>3, <1>4, <1>5 DEF Next, Handle

\* A new late publication is one that a handler had ready.
LEMMA LateStep ==
    ASSUME TypeOK, \A v \in Workers : WorkerInv(v), LateInv, Next
    PROVE  LateInv'
<1>1. TypeOK' /\ Grows
  BY TypeStep, StepGrows
<1>2. ASSUME NEW m \in delayed'
      PROVE  m \in delayed \/ \E w \in Workers : /\ pc[w] = "publish" /\ ~job[w].prepared.exact
                                               /\ m = Publication(w)
  BY <1>2 DEF Next, Settle, Acknowledge, Nak, QuarantineStored, QuarantineFails, Terminate, Deliver,
     Handle, Refuse, AcquireGate, ProcessingTimeout, ReadResponse, ConsultAuthority,
     ProcessCompletes, ProcessFails, Unavailable, Prepare, PublishStored, PublishReconcile,
     PublishUnknown, Verify, VerifyUnavailable, Abort, DeliverPublication, AgeOut,
     RemoveDiagnostic, Dispatch, DispatchLookup, DispatchPublish, DispatchPublishFails,
     DispatchAdmit, DispatchRead, DispatchReturn, DispatchGivesUp, store
<1>3. ASSUME NEW m \in delayed'
      PROVE  Replaceable(m.predecessor) /\ (m.body.kind = "business" => Decided(m.body))
  <2>1. CASE m \in delayed
    BY <2>1 DEF LateInv
  <2>2. ASSUME NEW w \in Workers, pc[w] = "publish", ~job[w].prepared.exact, m = Publication(w)
        PROVE  Replaceable(m.predecessor) /\ (m.body.kind = "business" => Decided(m.body))
    <3>1. Intent(w) /\ Replaceable(job[w].prepared.predecessor)
      BY <2>2 DEF WorkerInv
    <3>2. job[w].body.kind = "business" => Decided(job[w].body)
      BY <3>1, Kinds DEF Intent
    <3> QED
      BY <2>2, <3>1, <3>2 DEF Publication
  <2> QED
    BY <1>2, <2>1, <2>2
<1> QED
  BY <1>1, <1>3, GrowthKeeps DEF LateInv, Replaceable, BodyAt, Decided

\* A stale publication states the same decision as a fresh one.
LEMMA TruthStep ==
    ASSUME TypeOK, \A v \in Workers : WorkerInv(v), LateInv, AnsweredTruly, Next
    PROVE  AnsweredTruly'
<1>1. TypeOK' /\ Grows
  BY TypeStep, StepGrows
<1>2. Len(Legacy) \in Nat
  BY LegacyAssumption
<1>3. CASE UNCHANGED records
  BY <1>3, <1>1 DEF AnsweredTruly, Decided, Grows
<1>4. ASSUME NEW m \in Publications, Ready(m), Appended(m), winner' = winner PROVE AnsweredTruly'
  <2> SUFFICES ASSUME NEW n \in (Len(Legacy) + 1)..Len(records'), records'[n].body.kind = "business"
               PROVE  winner' # None /\ records'[n].body = Business(winner')
    BY DEF AnsweredTruly, Decided
  <2>1. Len(records) \in Nat
    BY DEF TypeOK
  <2>2. CASE n <= Len(records)
    <3>1. n \in (Len(Legacy) + 1)..Len(records) /\ records'[n] = records[n]
      BY <1>2, <1>4, <2>1, <2>2 DEF Appended
    <3> QED
      BY <1>4, <3>1 DEF AnsweredTruly, Decided
  <2>3. CASE ~(n <= Len(records))
    <3>1. n = Len(records) + 1
      BY <1>2, <1>4, <2>1, <2>3 DEF Appended
    <3>2. records'[n].body = m.body
      BY <1>4, <3>1 DEF Appended
    <3> QED
      BY <1>4, <3>2 DEF Ready, Decided
  <2> QED
    BY <2>2, <2>3
<1> QED
  BY <1>3, <1>4, SubjectStep

\* A publication that was ready finds no business response to overwrite.
LEMMA OverwriteStep ==
    ASSUME TypeOK, \A v \in Workers : WorkerInv(v), LateInv, Next,
           NEW n \in 1..Len(records), IsLatest(n), records[n].body.kind = "business"
    PROVE  records' = records
<1> SUFFICES ASSUME NEW m \in Publications, Ready(m), Appended(m) PROVE FALSE
  BY SubjectStep
<1>1. IsLatest(m.predecessor) /\ m.predecessor \in 0..Len(records)
  BY DEF Appended, StoreAllowed, Ready, Replaceable
<1>2. n \in Retained /\ n # 0 /\ Len(records) \in Nat
  BY DEF IsLatest, TypeOK
<1>3. n <= m.predecessor
  BY <1>1, <1>2 DEF IsLatest
<1>4. m.predecessor \in Retained
  BY <1>1, <1>2 DEF IsLatest
<1>5. m.predecessor <= n
  BY <1>4 DEF IsLatest
<1>6. m.predecessor = n
  BY <1>1, <1>2, <1>3, <1>5
<1> QED
  BY <1>2, <1>6 DEF Ready, Replaceable, BodyAt

-----------------------------------------------------------------------------
(* Settlement and the caller. *)

\* Only an acknowledgement or a termination by a worker at that stage settles.
LEMMA SettleShape ==
    ASSUME TypeOK, Next, NEW c \in Copies
    PROVE  /\ source'[c] = "acked" => source[c] = "acked" \/ \E w \in Workers :
                 pc[w] = "settle" /\ job[w].disposition = "acknowledge"
           /\ source'[c] = "termed" => source[c] = "termed" \/ \E w \in Workers :
                 pc[w] = "term" /\ job[w].copy = c
           /\ "diagnosed" \in quarantined'[c] => "diagnosed" \in quarantined[c] \/
                 \E w \in Workers : pc[w] = "settle" /\ job[w].disposition = "diagnosed"
<1>1. \A w \in Workers : job[w].copy \in Copies
  BY JobFields DEF TypeOK
<1>2. source' = source \/ (\E w \in Workers : Acknowledge(w) \/ Terminate(w))
      \/ \E k \in Copies : source' = [source EXCEPT ![k] = "queued"]
  BY DEF Next, Settle, Acknowledge, Nak, QuarantineStored, QuarantineFails, Terminate, Deliver,
     Handle, Refuse, AcquireGate, ProcessingTimeout, ReadResponse, ConsultAuthority,
     ProcessCompletes, ProcessFails, Unavailable, Prepare, PublishStored, PublishReconcile,
     PublishUnknown, Verify, VerifyUnavailable, Abort, DeliverPublication, AgeOut,
     RemoveDiagnostic, Dispatch, DispatchLookup, DispatchPublish, DispatchPublishFails,
     DispatchAdmit, DispatchRead, DispatchReturn, DispatchGivesUp, store
<1>3. quarantined' = quarantined \/ \E w \in Workers :
         /\ Quarantines(w)
         /\ quarantined' = [quarantined EXCEPT ![job[w].copy] = @ \cup {QuarantineReason(w)}]
  BY DEF Next, Settle, Acknowledge, Nak, QuarantineStored, QuarantineFails, Terminate, Deliver,
     Handle, Refuse, AcquireGate, ProcessingTimeout, ReadResponse, ConsultAuthority,
     ProcessCompletes, ProcessFails, Unavailable, Prepare, PublishStored, PublishReconcile,
     PublishUnknown, Verify, VerifyUnavailable, Abort, DeliverPublication, AgeOut,
     RemoveDiagnostic, Dispatch, DispatchLookup, DispatchPublish, DispatchPublishFails,
     DispatchAdmit, DispatchRead, DispatchReturn, DispatchGivesUp, store
<1>4. source'[c] = "acked" => source[c] = "acked" \/ \E w \in Workers :
         pc[w] = "settle" /\ job[w].disposition = "acknowledge"
  BY <1>1, <1>2 DEF TypeOK, Acknowledge, Terminate
<1>5. source'[c] = "termed" => source[c] = "termed" \/ \E w \in Workers :
         pc[w] = "term" /\ job[w].copy = c
  BY <1>1, <1>2 DEF TypeOK, Acknowledge, Terminate
<1>6. "diagnosed" \in quarantined'[c] => "diagnosed" \in quarantined[c] \/
         \E w \in Workers : pc[w] = "settle" /\ job[w].disposition = "diagnosed"
  BY <1>1, <1>3 DEF TypeOK, Quarantines, QuarantineReason
<1> QED
  BY <1>4, <1>5, <1>6

\* What settles a command was earned before.
LEMMA SettledStep ==
    ASSUME DeliveryInv, Next
    PROVE  AckMeansAnswered' /\ TermMeansQuarantined' /\ DiagnosedHasEvidence'
<1>1. TypeOK /\ (\A w \in Workers : WorkerInv(w)) /\ TypeOK' /\ Grows
  BY TypeStep, StepGrows DEF DeliveryInv
<1>2. ASSUME NEW c \in Copies, source'[c] = "acked"
      PROVE  winner' # None /\ \E n \in 1..Len(records') : records'[n].body = Business(winner')
  <2>1. winner # None /\ WasStored(Business(winner))
    BY <1>1, <1>2, SettleShape DEF DeliveryInv, AckMeansAnswered, WasStored, WorkerInv
  <2> QED
    BY <1>1, <2>1, GrowthKeeps DEF Grows
<1>3. ASSUME NEW c \in Copies, source'[c] = "termed" PROVE quarantined'[c] # {}
  <2>1. quarantined[c] # {}
    BY <1>1, <1>3, SettleShape DEF DeliveryInv, TermMeansQuarantined, WorkerInv
  <2> QED
    BY <1>1, <2>1 DEF Grows
<1>4. ASSUME NEW c \in Copies, "diagnosed" \in quarantined'[c]
      PROVE  \E n \in 1..Len(records') : records'[n].body = Technical("blocked")
  <2>1. WasStored(Technical("blocked"))
    BY <1>1, <1>4, SettleShape DEF DeliveryInv, DiagnosedHasEvidence, WasStored, WorkerInv
  <2> QED
    BY <1>1, <2>1, GrowthKeeps
<1> QED
  BY <1>2, <1>3, <1>4 DEF AckMeansAnswered, TermMeansQuarantined, DiagnosedHasEvidence

\* A caller with an outcome service returns what the authority says, or nothing.
LEMMA CallerStep ==
    ASSUME DeliveryInv, Next
    PROVE  CallerToldWinner'
<1>1. TypeOK /\ CallerToldWinner /\ Grows
  BY StepGrows DEF DeliveryInv
<1> SUFFICES ASSUME OutcomeService, told'.kind = "business"
             PROVE  winner' # None /\ told' = Business(winner')
  BY DEF CallerToldWinner
<1>2. told' = told \/ (told'.kind # "business") \/ (winner # None /\ told' = Business(winner))
  <2>1. CASE Dispatch
    BY <2>1, Kinds DEF Dispatch, DispatchLookup, DispatchPublish, DispatchPublishFails,
       DispatchAdmit, DispatchRead, DispatchReturn, DispatchGivesUp, CallerReturns
  <2>2. CASE ~Dispatch
    BY <2>2 DEF caller, Next, Settle, Acknowledge, Nak, QuarantineStored, QuarantineFails, Terminate,
       Deliver, Handle, Refuse, AcquireGate, ProcessingTimeout, ReadResponse, ConsultAuthority,
       ProcessCompletes, ProcessFails, Unavailable, Prepare, PublishStored, PublishReconcile,
       PublishUnknown, Verify, VerifyUnavailable, Abort, DeliverPublication, AgeOut,
       RemoveDiagnostic
  <2> QED
    BY <2>1, <2>2
<1> QED
  BY <1>1, <1>2 DEF CallerToldWinner, Grows

-----------------------------------------------------------------------------
(* The theorems. *)

\* DeliveryInv is inductive.
LEMMA DeliveryStep == ASSUME DeliveryInv, [Next]_vars PROVE DeliveryInv'
<1>1. CASE Next
  <2>1. TypeOK' /\ (\A w \in Workers : WorkerInv(w))' /\ LateInv' /\ AnsweredTruly'
    BY <1>1, TypeStep, WorkerStep, LateStep, TruthStep DEF DeliveryInv
  <2>2. /\ AckMeansAnswered' /\ TermMeansQuarantined' /\ DiagnosedHasEvidence'
        /\ CallerToldWinner'
    BY <1>1, SettledStep, CallerStep
  <2> QED
    BY <2>1, <2>2 DEF DeliveryInv
<1>2. CASE UNCHANGED vars
  BY <1>2 DEF vars, DeliveryInv, TypeOK, WorkerInv, LateInv, AckMeansAnswered, TermMeansQuarantined,
     DiagnosedHasEvidence, AnsweredTruly, CallerToldWinner, WasStored, Intent, Decided,
     Replaceable, BodyAt
<1> QED
  BY <1>1, <1>2

\* The inductive invariant holds from the start.
LEMMA DeliveryInit == ASSUME Init PROVE DeliveryInv
<1>1. Legacy \in Seq(Records) /\ Len(Legacy) <= MaxRecords /\ Len(Legacy) \in Nat
  <2>1. {[body |-> Business(d), id |-> BusinessId] : d \in Decisions} \subseteq Records
    BY Identities DEF Records, Bodies
  <2> QED
    BY <2>1, LegacyAssumption
<1>2. TypeOK
  <2>1. NoJob \in Jobs /\ "idle" \in PCs /\ 0 \in 0..(MaxAttempts + 1)
    <3>1. 0 \in 0..(MaxAttempts + 1)
      BY LimitsAssumption
    <3> QED
      BY <3>1, JobTypes DEF PCs
  <2>2. pc \in [Workers -> PCs] /\ job \in [Workers -> Jobs]
    BY <2>1 DEF Init
  <2>3. /\ source \in [Copies -> {"none", "queued", "acked", "termed"}]
        /\ attempts \in [Copies -> 0..(MaxAttempts + 1)]
        /\ quarantined \in [Copies -> SUBSET Reasons]
    BY <2>1 DEF Init
  <2> QED
    BY <1>1, <2>2, <2>3 DEF Init, TypeOK
<1>3. \A w \in Workers : WorkerInv(w)
  BY DEF Init, WorkerInv
<1>4. LateInv /\ AckMeansAnswered /\ TermMeansQuarantined /\ DiagnosedHasEvidence
  BY DEF Init, LateInv, AckMeansAnswered, TermMeansQuarantined, DiagnosedHasEvidence
<1>5. AnsweredTruly /\ CallerToldWinner
  BY <1>1, Kinds DEF Init, AnsweredTruly, CallerToldWinner
<1> QED
  BY <1>2, <1>3, <1>4, <1>5 DEF DeliveryInv

\* The inductive invariant holds in every reachable state.
THEOREM DeliveryCorrect == Spec => []DeliveryInv
<1>1. Init => DeliveryInv
  BY DeliveryInit
<1>2. DeliveryInv /\ [Next]_vars => DeliveryInv'
  BY DeliveryStep
<1> QED
  BY <1>1, <1>2, PTL DEF Spec

\* Every variable of command delivery has its type.
THEOREM DeliveryTypes == Spec => []TypeOK
BY DeliveryCorrect, PTL DEF DeliveryInv

\* A message leaves the work queue by acknowledgement only once the command is
\* decided and a response with the decision was stored, whatever deliveries,
\* publications and crashes overlapped (NatsCommandHandler::handle).
THEOREM AcknowledgedIsAnswered == Spec => []AckMeansAnswered
BY DeliveryCorrect, PTL DEF DeliveryInv

\* A message is terminated only with durable quarantine evidence (quarantine_or_nak).
THEOREM TerminatedIsQuarantined == Spec => []TermMeansQuarantined
BY DeliveryCorrect, PTL DEF DeliveryInv

\* A quarantine after a typed failure follows a stored diagnostic (handle).
THEOREM QuarantineHasDiagnostic == Spec => []DiagnosedHasEvidence
BY DeliveryCorrect, PTL DEF DeliveryInv

\* No business response other than the authority's decision is ever stored,
\* whichever late publication arrives (publish_response).
THEOREM ResponsesAreTrue == Spec => []ResponsesMatchAuthority
<1>1. DeliveryInv => ResponsesMatchAuthority
  BY DEF DeliveryInv, AnsweredTruly, ResponsesMatchAuthority, Decided
<1> QED
  BY <1>1, DeliveryCorrect, PTL

\* A caller with an outcome service is told the authority's decision or none (dispatch).
THEOREM CallersLearnTheDecision == Spec => []CallerToldWinner
BY DeliveryCorrect, PTL DEF DeliveryInv

\* While a business response is the last message, no publication is stored behind
\* it: a stale one fails its expected sequence (prepare_command_response).
THEOREM BusinessIsFinal == Spec => BusinessNeverOverwritten
<1>1. DeliveryInv /\ [Next]_vars =>
        [\A n \in 1..Len(records) :
           IsLatest(n) /\ records[n].body.kind = "business" => records' = records]_vars
  <2> SUFFICES ASSUME DeliveryInv, Next, NEW n \in 1..Len(records), IsLatest(n),
                      records[n].body.kind = "business"
               PROVE  records' = records
    OBVIOUS
  <2> QED
    BY OverwriteStep DEF DeliveryInv
<1> QED
  BY <1>1, DeliveryCorrect, PTL DEF Spec, BusinessNeverOverwritten
===============================================================================
