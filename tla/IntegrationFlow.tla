---------------------------- MODULE IntegrationFlow ----------------------------
(* A committed domain event crosses contexts: the domain-event worker of the     *)
(* producer publishes it as an integration event under a derived identity, the   *)
(* stream drops repetitions only while its window remembers them, and every      *)
(* durable subscriber maps each stored message to one command under an           *)
(* operation derived from its own name and the message's.  Publications are      *)
(* retried by the adapter and by redelivery of the domain event, deliveries are  *)
(* repeated after a retry, a lost acknowledgement or a crash, and both sides     *)
(* may be upgraded in between.                                                   *)
(*                                                                               *)
(* The worker's ordering is DomainEventWorker's, the consumer's quarantine and   *)
(* the command's way to its decision are CommandDelivery's.                      *)
EXTENDS Naturals, Sequences, FiniteSets

CONSTANTS
    Sources,      \* committed domain events: [id, traced, mappable]
    Publishers,   \* worker attempts that handle a domain event
    Durables,     \* integration-command subscriptions
    Handlers,     \* concurrent deliveries of each
    MaxTries,     \* MAXIMUM_PUBLISH_ATTEMPTS
    MaxSchema,    \* schema versions the contract goes through
    MaxMapping,   \* versions of the consumer's mapper
    MaxTime,      \* bound of the model: clock
    MaxStream,    \* bound of the model: stored messages
    MaxFaults     \* bound of the model: failures, losses, crashes, forgotten entries

BoundsAssumption ==
    {MaxTries, MaxSchema, MaxMapping, MaxTime, MaxStream, MaxFaults} \subseteq Nat

VARIABLES
    source,   \* the domain-event worker's progress per event
    pub,      \* each publication in progress
    stream,   \* the integration-event stream
    window,   \* identities its duplicate window remembers
    late,     \* publications still on their way to it
    fate,     \* per durable and position: pending, acked or quarantined
    at,       \* each handler's delivery
    effects,  \* commands decided for integration events, in order
    now,      \* clock
    writes, reads, mapping,  \* deployed schema of producer and consumers, mapper version
    faults

producer == <<source, pub>>
broker == <<stream, window, late>>
consumer == <<fate, at, effects>>
deployed == <<writes, reads, mapping>>
vars == <<source, pub, stream, window, late, fate, at, effects, now, writes, reads, mapping, faults>>

Idle == [pc |-> "idle"]

\* integration_message_id: source event, address and schema, not the time.
MessageId(m) == <<m.source.id, m.schema>>

Init ==
    /\ source = [e \in Sources |-> "none"]
    /\ pub = [p \in Publishers |-> Idle]
    /\ stream = << >> /\ window = {} /\ late = {}
    /\ fate = [d \in Durables |-> << >>]
    /\ at = [h \in Durables \X Handlers |-> Idle]
    /\ effects = << >>
    /\ now = 1
    /\ writes = 1 /\ reads = 1 /\ mapping = 1
    /\ faults = 0

Fails == faults < MaxFaults /\ faults' = faults + 1

\* A transaction of the producer commits the event.
Commit(e) ==
    /\ source[e] = "none"
    /\ source' = [source EXCEPT ![e] = "due"]
    /\ UNCHANGED <<pub, broker, consumer, now, deployed, faults>>

-----------------------------------------------------------------------------
(* IntegrationEventPublisher and the adapter's publish loop. *)

\* IntegrationEventBus::encode: the time is the attempt's own.
Encoded(e) == [source |-> e, schema |-> writes, time |-> now, valid |-> TRUE]

\* A delivery of the domain event is handled, possibly beside an older attempt.
Publish(p, e) ==
    /\ pub[p] = Idle
    /\ source[e] = "due"
    /\ e.traced
    /\ pub' = [pub EXCEPT ![p] = [pc |-> "send", message |-> Encoded(e), left |-> MaxTries]]
    /\ UNCHANGED <<source, broker, consumer, now, deployed, faults>>

\* CommittedEventContext::new: an event without correlation cannot be published.
Untraced(e) ==
    /\ source[e] = "due"
    /\ ~e.traced
    /\ source' = [source EXCEPT ![e] = "blocked"]
    /\ UNCHANGED <<pub, broker, consumer, now, deployed, faults>>

\* The stream stores message m, unless its window remembers the identity.
Store(m) ==
    IF MessageId(m) \in window THEN UNCHANGED <<stream, window, fate>>
    ELSE /\ Len(stream) < MaxStream
         /\ stream' = Append(stream, m)
         /\ window' = window \cup {MessageId(m)}
         /\ fate' = [d \in Durables |-> Append(fate[d], "pending")]

\* The acknowledgement arrives, for the first or a repeated publication: the
\* handler succeeded and the domain event's delivery is confirmed.
Confirmed(p) ==
    /\ pub[p].pc = "send"
    /\ Store(pub[p].message)
    /\ source' = [source EXCEPT ![pub[p].message.source] = "done"]
    /\ pub' = [pub EXCEPT ![p] = Idle]
    /\ UNCHANGED <<late, at, effects, now, deployed, faults>>

\* A timeout or an unavailable broker: the same message again, and after the
\* last attempt a retryable error, so the domain event stays due.
AfterFailure(p) ==
    /\ pub' = [pub EXCEPT ![p] =
          IF pub[p].left > 1 THEN [pub[p] EXCEPT !.left = pub[p].left - 1] ELSE Idle]
    /\ UNCHANGED source

\* Nobody answers in time: stored, still on its way, or lost.
Unconfirmed(p) ==
    /\ pub[p].pc = "send"
    /\ Fails
    /\ AfterFailure(p)
    /\ \/ Store(pub[p].message) /\ UNCHANGED late
       \/ late' = late \cup {pub[p].message} /\ UNCHANGED <<stream, window, fate>>
       \/ UNCHANGED <<broker, fate>>
    /\ UNCHANGED <<at, effects, now, deployed>>

\* Rejected or misconfigured: the worker is blocked until an operator acts.
Refused(p) ==
    /\ pub[p].pc = "send"
    /\ Fails
    /\ source' = [source EXCEPT ![pub[p].message.source] = "blocked"]
    /\ pub' = [pub EXCEPT ![p] = Idle]
    /\ UNCHANGED <<broker, consumer, now, deployed>>

\* The worker's process ends.
PublisherStops(p) ==
    /\ pub[p] # Idle
    /\ Fails
    /\ pub' = [pub EXCEPT ![p] = Idle]
    /\ UNCHANGED <<source, broker, consumer, now, deployed>>

-----------------------------------------------------------------------------
(* The stream. *)

\* A late publication is processed like any other.
Arrives(m) ==
    /\ m \in late
    /\ Store(m)
    /\ late' = late \ {m}
    /\ UNCHANGED <<producer, at, effects, now, deployed, faults>>

\* The duplicate window passes.
Forget(i) ==
    /\ i \in window
    /\ Fails
    /\ window' = window \ {i}
    /\ UNCHANGED <<producer, stream, late, consumer, now, deployed>>

\* Something else on the subject: identity, causation and route disagree.
Foreign(e) ==
    /\ Len(stream) < MaxStream
    /\ Fails
    /\ stream' = Append(stream, [source |-> e, schema |-> reads, time |-> now, valid |-> FALSE])
    /\ fate' = [d \in Durables |-> Append(fate[d], "pending")]
    /\ UNCHANGED <<producer, window, late, at, effects, now, deployed>>

Tick ==
    /\ now < MaxTime
    /\ now' = now + 1
    /\ UNCHANGED <<producer, broker, consumer, deployed, faults>>

\* The producer's contract, the consumers' contract or their mapper is deployed anew.
Upgrade ==
    /\ \/ writes < MaxSchema /\ writes' = writes + 1 /\ UNCHANGED <<reads, mapping>>
       \/ reads < MaxSchema /\ reads' = reads + 1 /\ UNCHANGED <<writes, mapping>>
       \/ mapping < MaxMapping /\ mapping' = mapping + 1 /\ UNCHANGED <<writes, reads>>
    /\ UNCHANGED <<producer, broker, consumer, now, faults>>

-----------------------------------------------------------------------------
(* IntegrationEventCommandHandler. *)

Message(h) == stream[at[h].position]
Goto(h, r) == at' = [at EXCEPT ![h] = r]

\* The durable delivers a message it has no final answer for, perhaps again.
Deliver(h, n) ==
    /\ at[h] = Idle
    /\ n \in 1..Len(stream)
    /\ fate[h[1]][n] = "pending"
    /\ Goto(h, [pc |-> "handle", position |-> n])
    /\ UNCHANGED <<producer, broker, fate, effects, now, deployed, faults>>

\* EncodedIntegrationMessage::decode.
Decodes(m) == m.valid /\ m.schema = reads

Settle(h, f) ==
    /\ fate' = [fate EXCEPT ![h[1]][at[h].position] = f]
    /\ Goto(h, Idle)

\* Unreadable, of another schema, or beyond the mapper: quarantined.
Quarantine(h) ==
    /\ at[h].pc = "handle"
    /\ ~Decodes(Message(h)) \/ ~Message(h).source.mappable
    /\ Settle(h, "quarantined")
    /\ UNCHANGED <<producer, broker, effects, now, deployed, faults>>

\* Fault: the operation is derived from the time the event carries.
OperationOfTime(h) == <<h[1], MessageId(Message(h)), Message(h).time>>

\* integration_operation_id: the durable's name and the message's identity.
OperationId(h) == <<h[1], MessageId(Message(h))>>

\* The command decided for the delivery; created_at is the event's time.
Effect(h) ==
    [op |-> OperationId(h), durable |-> h[1], source |-> Message(h).source,
     schema |-> Message(h).schema, created |-> Message(h).time, mapped |-> mapping]

Decided(o) == \E i \in 1..Len(effects) : effects[i].op = o

\* The dispatched command is decided, or was: another content under the same
\* operation is answered with a conflict, which settles nothing anew.
Decide(h) == effects' = IF Decided(OperationId(h)) THEN effects ELSE Append(effects, Effect(h))

Dispatchable(h) == at[h].pc = "handle" /\ Decodes(Message(h)) /\ Message(h).source.mappable

\* A response, acceptance or rejection, arrives: the delivery is acknowledged.
Dispatch(h) ==
    /\ Dispatchable(h)
    /\ Decide(h)
    /\ Goto(h, [at[h] EXCEPT !.pc = "ack"])
    /\ UNCHANGED <<producer, broker, fate, now, deployed, faults>>

\* RetryAfter: the delivery stays pending, or was the last one allowed.
AfterUnavailable(h) ==
    \/ Goto(h, Idle) /\ UNCHANGED fate
    \/ Settle(h, "quarantined")

\* The command bus is unavailable or times out, before or after the decision.
Unavailable(h) ==
    /\ Dispatchable(h)
    /\ Fails
    /\ Decide(h) \/ UNCHANGED effects
    /\ AfterUnavailable(h)
    /\ UNCHANGED <<producer, broker, now, deployed>>

\* The execution fails technically, or the command is invalid: quarantined.
Blocked(h) ==
    /\ Dispatchable(h)
    /\ Fails
    /\ Settle(h, "quarantined")
    /\ UNCHANGED <<producer, broker, effects, now, deployed>>

Acknowledge(h) ==
    /\ at[h].pc = "ack"
    /\ Settle(h, "acked")
    /\ UNCHANGED <<producer, broker, effects, now, deployed, faults>>

\* The handler or its process ends, or its acknowledgement is lost.
HandlerStops(h) ==
    /\ at[h] # Idle
    /\ Fails
    /\ Goto(h, Idle)
    /\ UNCHANGED <<producer, broker, fate, effects, now, deployed>>

-----------------------------------------------------------------------------
Handle(h) == Quarantine(h) \/ Dispatch(h) \/ Acknowledge(h)

Next ==
    \/ \E e \in Sources : Commit(e) \/ Untraced(e) \/ Foreign(e)
    \/ \E p \in Publishers :
          \/ \E e \in Sources : Publish(p, e)
          \/ Confirmed(p) \/ Unconfirmed(p) \/ Refused(p) \/ PublisherStops(p)
    \/ \E m \in late : Arrives(m)
    \/ \E i \in window : Forget(i)
    \/ Tick \/ Upgrade
    \/ \E h \in Durables \X Handlers :
          \/ \E n \in 1..Len(stream) : Deliver(h, n)
          \/ Handle(h) \/ Unavailable(h) \/ Blocked(h) \/ HandlerStops(h)

Spec == Init /\ [][Next]_vars

-----------------------------------------------------------------------------
(* Properties. *)

\* A subscription acts at most once on a domain event published under one
\* schema, although the event may be stored several times with different times
\* (the duplicate window is bounded) and each copy delivered again and again, by
\* handlers that overlap and under a mapper that changed meanwhile.
OneEffect ==
    \A i, j \in 1..Len(effects) :
        /\ effects[i].durable = effects[j].durable
        /\ effects[i].source = effects[j].source
        /\ effects[i].schema = effects[j].schema
        => i = j
===============================================================================
