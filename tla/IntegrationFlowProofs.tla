------------------------- MODULE IntegrationFlowProofs -------------------------
(* A subscription has one effect per source event and schema, for any number of *)
(* events, publishers, subscriptions, handlers, copies and failures.            *)
EXTENDS IntegrationFlow, SequenceTheorems, TLAPS

-----------------------------------------------------------------------------
(* The inductive invariant. *)

Messages == [source : Sources, schema : Nat, time : Nat, valid : BOOLEAN]

Effects ==
    [op : Durables \X ({e.id : e \in Sources} \X Nat), durable : Durables,
     source : Sources, schema : Nat, created : Nat, mapped : Nat]

Deployed == now \in Nat /\ writes \in Nat /\ reads \in Nat /\ mapping \in Nat

\* Whatever is published, under way or stored is a message.
MessagesTyped ==
    /\ \A p \in Publishers : pub[p].pc = "send" => pub[p].message \in Messages
    /\ late \subseteq Messages
    /\ stream \in Seq(Messages)

\* A handler that is not idle holds a stored message.
HoldsStored ==
    \A h \in Durables \X Handlers :
        at[h].pc # "idle" => at[h].position \in 1..Len(stream)

\* The operation of an effect is derived from the subscription and the message.
OperationDerived ==
    \A i \in 1..Len(effects) :
        effects[i].op = <<effects[i].durable, <<effects[i].source.id, effects[i].schema>>>>

\* An operation is decided once.
DecidedOnce ==
    \A i, j \in 1..Len(effects) : effects[i].op = effects[j].op => i = j

FlowInv ==
    /\ Deployed
    /\ MessagesTyped
    /\ pub \in [Publishers -> [pc : {"idle"}] \cup [pc : {"send"}, message : Messages, left : Nat]]
    /\ at \in [Durables \X Handlers ->
                  [pc : {"idle"}] \cup [pc : {"handle", "ack"}, position : Nat]]
    /\ HoldsStored
    /\ effects \in Seq(Effects)
    /\ OperationDerived
    /\ DecidedOnce

-----------------------------------------------------------------------------
(* Appending to what was stored or decided. *)

\* A longer stream keeps what it held.
LEMMA AppendedStream ==
    ASSUME NEW S, NEW q \in Seq(S), NEW x \in S
    PROVE  /\ Append(q, x) \in Seq(S)
           /\ Len(Append(q, x)) = Len(q) + 1
           /\ \A i \in 1..Len(q) : Append(q, x)[i] = q[i]
           /\ Append(q, x)[Len(q) + 1] = x
           /\ Len(q) \in Nat
  OBVIOUS

\* Storing a message keeps the stream's type and never shortens it.
LEMMA StoreGrows ==
    ASSUME stream \in Seq(Messages), NEW m \in Messages, Store(m)
    PROVE  stream' \in Seq(Messages) /\ Len(stream) <= Len(stream')
  <1>1. CASE MessageId(m) \in window
    BY <1>1, AppendedStream DEF Store
  <1>2. CASE MessageId(m) \notin window
    <2>1. stream' = Append(stream, m)
      BY <1>2 DEF Store
    <2> QED  BY <2>1, AppendedStream
  <1> QED  BY <1>1, <1>2

\* What a handler holds stays stored while the stream grows.
LEMMA StillStored ==
    ASSUME HoldsStored, UNCHANGED at, Len(stream) \in Nat, Len(stream') \in Nat,
           Len(stream) <= Len(stream')
    PROVE  HoldsStored'
  <1> SUFFICES ASSUME NEW h \in Durables \X Handlers, at[h].pc # "idle"
               PROVE  at[h].position \in 1..Len(stream')
    BY DEF HoldsStored
  <1>1. at[h].position \in 1..Len(stream)
    BY DEF HoldsStored
  <1> QED  BY <1>1

\* A command decided for a delivery: its operation is derived and was free.
LEMMA DecideKeeps ==
    ASSUME FlowInv, NEW h \in Durables \X Handlers, at[h].pc # "idle", Decide(h)
    PROVE  effects' \in Seq(Effects) /\ OperationDerived' /\ DecidedOnce'
  <1>1. Message(h) \in Messages
    BY DEF FlowInv, MessagesTyped, HoldsStored, Message
  <1>2. CASE Decided(OperationId(h))
    BY <1>2 DEF Decide, FlowInv, OperationDerived, DecidedOnce
  <1>3. CASE ~Decided(OperationId(h))
    <2> DEFINE e == Effect(h)
    <2>1. /\ e \in Effects
          /\ e.op = <<e.durable, <<e.source.id, e.schema>>>>
          /\ e.op = OperationId(h)
      BY <1>1 DEF Effect, Effects, Messages, OperationId, MessageId, FlowInv, Deployed
    <2>2. effects' = Append(effects, e)
      BY <1>3 DEF Decide
    <2>3. effects \in Seq(Effects)
      BY DEF FlowInv
    <2> HIDE DEF e
    <2>4. /\ effects' \in Seq(Effects)
          /\ Len(effects') = Len(effects) + 1
          /\ \A i \in 1..Len(effects) : effects'[i] = effects[i]
          /\ effects'[Len(effects) + 1] = e
          /\ Len(effects) \in Nat
      BY <2>1, <2>2, <2>3, AppendedStream
    <2>5. \A i \in 1..Len(effects) : effects[i].op # e.op
      BY <1>3, <2>1 DEF Decided
    <2>6. OperationDerived'
      <3> SUFFICES ASSUME NEW i \in 1..Len(effects')
                   PROVE  effects'[i].op = <<effects'[i].durable, <<effects'[i].source.id, effects'[i].schema>>>>
        BY DEF OperationDerived
      <3>1. CASE i \in 1..Len(effects)
        BY <3>1, <2>4 DEF FlowInv, OperationDerived
      <3>2. CASE i = Len(effects) + 1
        BY <3>2, <2>4, <2>1
      <3> QED  BY <3>1, <3>2, <2>4
    <2>7. DecidedOnce'
      <3> SUFFICES ASSUME NEW i \in 1..Len(effects'), NEW j \in 1..Len(effects'),
                          effects'[i].op = effects'[j].op
                   PROVE  i = j
        BY DEF DecidedOnce
      <3>1. CASE i \in 1..Len(effects) /\ j \in 1..Len(effects)
        BY <3>1, <2>4 DEF FlowInv, DecidedOnce
      <3>2. CASE i = Len(effects) + 1 \/ j = Len(effects) + 1
        BY <3>2, <2>4, <2>5
      <3> QED  BY <3>1, <3>2, <2>4
    <2> QED  BY <2>4, <2>6, <2>7
  <1> QED  BY <1>2, <1>3

-----------------------------------------------------------------------------
(* The invariant is inductive. *)

LEMMA FlowInit == Init => FlowInv
  BY DEF Init, FlowInv, Deployed, MessagesTyped, HoldsStored, OperationDerived,
     DecidedOnce, Idle

LEMMA FlowStep ==
    ASSUME BoundsAssumption, FlowInv, [Next]_vars
    PROVE  FlowInv'
  <1> USE DEF FlowInv
  <1>0. CASE UNCHANGED vars
    BY <1>0 DEF vars, Deployed, MessagesTyped, HoldsStored, OperationDerived, DecidedOnce
  <1>1. ASSUME NEW e \in Sources, Commit(e) \/ Untraced(e)
        PROVE  FlowInv'
    BY <1>1 DEF Commit, Untraced, broker, consumer, deployed, Deployed, MessagesTyped,
       HoldsStored, OperationDerived, DecidedOnce
  <1>2. ASSUME NEW e \in Sources, Foreign(e)
        PROVE  FlowInv'
    <2> DEFINE m == [source |-> e, schema |-> reads, time |-> now, valid |-> FALSE]
    <2>1. m \in Messages /\ stream \in Seq(Messages)
      BY DEF Messages, Deployed, MessagesTyped
    <2>2. stream' = Append(stream, m)
      BY <1>2 DEF Foreign
    <2> HIDE DEF m
    <2>3. stream' \in Seq(Messages) /\ Len(stream) <= Len(stream') /\ Len(stream) \in Nat /\ Len(stream') \in Nat
      BY <2>1, <2>2, AppendedStream
    <2>4. UNCHANGED <<pub, late, at, effects, now, writes, reads, mapping>>
      BY <1>2 DEF Foreign, producer, deployed
    <2>5. HoldsStored'
      BY <2>3, <2>4, StillStored
    <2> QED  BY <2>3, <2>4, <2>5 DEF Deployed, MessagesTyped, OperationDerived, DecidedOnce
  <1>3. ASSUME NEW p \in Publishers, NEW e \in Sources, Publish(p, e)
        PROVE  FlowInv'
    <2>1. Encoded(e) \in Messages
      BY DEF Encoded, Messages, Deployed
    <2>2. pub' = [pub EXCEPT ![p] = [pc |-> "send", message |-> Encoded(e), left |-> MaxTries]]
      BY <1>3 DEF Publish
    <2>3. MaxTries \in Nat
      BY BoundsAssumption DEF BoundsAssumption
    <2>4. UNCHANGED <<stream, late, at, effects, now, writes, reads, mapping>>
      BY <1>3 DEF Publish, broker, consumer, deployed
    <2> QED  BY <2>1, <2>2, <2>3, <2>4 DEF Deployed, MessagesTyped, HoldsStored, OperationDerived, DecidedOnce
  <1>4. ASSUME NEW p \in Publishers, Confirmed(p)
        PROVE  FlowInv'
    <2>1. pub[p].message \in Messages /\ stream \in Seq(Messages)
      BY <1>4 DEF Confirmed, MessagesTyped
    <2>2. stream' \in Seq(Messages) /\ Len(stream) <= Len(stream')
      BY <2>1, <1>4, StoreGrows DEF Confirmed
    <2>3. Len(stream) \in Nat /\ Len(stream') \in Nat
      BY <2>1, <2>2
    <2>4. UNCHANGED <<late, at, effects, now, writes, reads, mapping>>
      BY <1>4 DEF Confirmed, deployed
    <2>5. pub' = [pub EXCEPT ![p] = Idle]
      BY <1>4 DEF Confirmed
    <2> QED  BY <2>2, <2>3, <2>4, <2>5 DEF Deployed, MessagesTyped, HoldsStored, OperationDerived, DecidedOnce, Idle
  <1>5. ASSUME NEW p \in Publishers, Unconfirmed(p)
        PROVE  FlowInv'
    <2>1. pub[p].message \in Messages /\ stream \in Seq(Messages) /\ pub[p].pc = "send"
      BY <1>5 DEF Unconfirmed, MessagesTyped
    <2>2. /\ stream' \in Seq(Messages)
          /\ Len(stream) <= Len(stream')
          /\ late' \subseteq Messages
      <3>1. CASE Store(pub[p].message) /\ UNCHANGED late
        BY <3>1, <2>1, StoreGrows DEF MessagesTyped
      <3>2. CASE late' = late \cup {pub[p].message} /\ UNCHANGED <<stream, window, fate>>
        BY <3>2, <2>1 DEF MessagesTyped
      <3>3. CASE UNCHANGED <<broker, fate>>
        BY <3>3 DEF MessagesTyped, broker
      <3> QED  BY <3>1, <3>2, <3>3, <1>5 DEF Unconfirmed
    <2>3. Len(stream) \in Nat /\ Len(stream') \in Nat
      BY <2>1, <2>2
    <2>4. UNCHANGED <<at, effects, now, writes, reads, mapping>>
      BY <1>5 DEF Unconfirmed, deployed
    <2>5. /\ pub' \in [Publishers -> [pc : {"idle"}] \cup [pc : {"send"}, message : Messages, left : Nat]]
          /\ \A q \in Publishers : pub'[q].pc = "send" => pub'[q].message \in Messages
      <3>1. pub[p] \in [pc : {"send"}, message : Messages, left : Nat]
        BY <2>1
      <3> DEFINE r == IF pub[p].left > 1 THEN [pub[p] EXCEPT !.left = @ - 1] ELSE Idle
      <3>3. r \in [pc : {"idle"}] \cup [pc : {"send"}, message : Messages, left : Nat]
        BY <3>1 DEF Idle
      <3>4. pub' = [pub EXCEPT ![p] = r]
        BY <1>5 DEF Unconfirmed, AfterFailure
      <3> HIDE DEF r
      <3>5. pub' \in [Publishers -> [pc : {"idle"}] \cup [pc : {"send"}, message : Messages, left : Nat]]
        BY <3>3, <3>4
      <3> QED  BY <3>5
    <2> QED  BY <2>2, <2>3, <2>4, <2>5 DEF Deployed, MessagesTyped, HoldsStored, OperationDerived, DecidedOnce
  <1>6. ASSUME NEW p \in Publishers, Refused(p) \/ PublisherStops(p)
        PROVE  FlowInv'
    <2>1. pub' = [pub EXCEPT ![p] = Idle]
      BY <1>6 DEF Refused, PublisherStops
    <2>2. UNCHANGED <<stream, late, at, effects, now, writes, reads, mapping>>
      BY <1>6 DEF Refused, PublisherStops, broker, consumer, deployed
    <2> QED  BY <2>1, <2>2 DEF Deployed, MessagesTyped, HoldsStored, OperationDerived, DecidedOnce, Idle
  <1>7. ASSUME NEW m \in late, Arrives(m)
        PROVE  FlowInv'
    <2>1. m \in Messages /\ stream \in Seq(Messages)
      BY DEF MessagesTyped
    <2>2. stream' \in Seq(Messages) /\ Len(stream) <= Len(stream')
      BY <2>1, <1>7, StoreGrows DEF Arrives
    <2>3. Len(stream) \in Nat /\ Len(stream') \in Nat
      BY <2>1, <2>2
    <2>4. late' \subseteq late /\ UNCHANGED <<pub, at, effects, now, writes, reads, mapping>>
      BY <1>7 DEF Arrives, producer, deployed
    <2>5. HoldsStored'
      BY <2>2, <2>3, <2>4, StillStored
    <2> QED  BY <2>2, <2>4, <2>5 DEF Deployed, MessagesTyped, OperationDerived, DecidedOnce
  <1>8. ASSUME NEW i \in window, Forget(i)
        PROVE  FlowInv'
    BY <1>8 DEF Forget, producer, consumer, deployed, Deployed, MessagesTyped, HoldsStored,
       OperationDerived, DecidedOnce
  <1>9. CASE Tick \/ Upgrade
    BY <1>9 DEF Tick, Upgrade, producer, broker, consumer, deployed, Deployed, MessagesTyped,
       HoldsStored, OperationDerived, DecidedOnce
  <1>10. ASSUME NEW h \in Durables \X Handlers, NEW n \in 1..Len(stream), Deliver(h, n)
         PROVE  FlowInv'
    <2>1. at' = [at EXCEPT ![h] = [pc |-> "handle", position |-> n]]
      BY <1>10 DEF Deliver, Goto
    <2>2. UNCHANGED <<pub, stream, late, effects, now, writes, reads, mapping>>
      BY <1>10 DEF Deliver, producer, broker, deployed
    <2> QED  BY <2>1, <2>2 DEF Deployed, MessagesTyped, HoldsStored, OperationDerived, DecidedOnce
  <1>11. ASSUME NEW h \in Durables \X Handlers,
                Quarantine(h) \/ Acknowledge(h) \/ Blocked(h) \/ HandlerStops(h)
         PROVE  FlowInv'
    <2>1. at' = [at EXCEPT ![h] = Idle]
      BY <1>11 DEF Quarantine, Acknowledge, Blocked, HandlerStops, Settle, Goto
    <2>2. UNCHANGED <<pub, stream, late, effects, now, writes, reads, mapping>>
      BY <1>11 DEF Quarantine, Acknowledge, Blocked, HandlerStops, producer, broker, deployed
    <2> QED  BY <2>1, <2>2 DEF Deployed, MessagesTyped, HoldsStored, OperationDerived, DecidedOnce, Idle
  <1>12. ASSUME NEW h \in Durables \X Handlers, Dispatch(h)
         PROVE  FlowInv'
    <2>1. at[h].pc = "handle" /\ Decide(h)
      BY <1>12 DEF Dispatch, Dispatchable
    <2>2. effects' \in Seq(Effects) /\ OperationDerived' /\ DecidedOnce'
      BY <2>1, DecideKeeps
    <2>3. at' = [at EXCEPT ![h] = [at[h] EXCEPT !.pc = "ack"]]
      BY <1>12 DEF Dispatch, Goto
    <2>4. UNCHANGED <<pub, stream, late, now, writes, reads, mapping>>
      BY <1>12 DEF Dispatch, producer, broker, deployed
    <2>5. at[h] \in [pc : {"handle", "ack"}, position : Nat]
      BY <2>1
    <2> QED  BY <2>1, <2>2, <2>3, <2>4, <2>5 DEF Deployed, MessagesTyped, HoldsStored
  <1>13. ASSUME NEW h \in Durables \X Handlers, Unavailable(h)
         PROVE  FlowInv'
    <2>1. at[h].pc = "handle"
      BY <1>13 DEF Unavailable, Dispatchable
    <2>2. effects' \in Seq(Effects) /\ OperationDerived' /\ DecidedOnce'
      <3>1. CASE Decide(h)
        BY <3>1, <2>1, DecideKeeps
      <3>2. CASE UNCHANGED effects
        BY <3>2 DEF OperationDerived, DecidedOnce
      <3> QED  BY <3>1, <3>2, <1>13 DEF Unavailable
    <2>3. at' = [at EXCEPT ![h] = Idle]
      BY <1>13 DEF Unavailable, AfterUnavailable, Settle, Goto
    <2>4. UNCHANGED <<pub, stream, late, now, writes, reads, mapping>>
      BY <1>13 DEF Unavailable, producer, broker, deployed
    <2> QED  BY <2>2, <2>3, <2>4 DEF Deployed, MessagesTyped, HoldsStored, Idle
  <1> QED
    BY <1>0, <1>1, <1>2, <1>3, <1>4, <1>5, <1>6, <1>7, <1>8, <1>9, <1>10, <1>11, <1>12, <1>13
       DEF Next, Handle

-----------------------------------------------------------------------------
(* The theorem. *)

\* A subscription acts at most once on a domain event published under one
\* schema: whatever is stored again after the duplicate window, delivered again
\* or handled twice at once dispatches the same operation
\* (integration_operation_id), which is decided once.
THEOREM OneEffectPerEvent ==
    ASSUME BoundsAssumption
    PROVE  Spec => []OneEffect
  <1>1. Init => FlowInv
    BY FlowInit
  <1>2. FlowInv /\ [Next]_vars => FlowInv'
    BY FlowStep
  <1>3. FlowInv => OneEffect
    <2> SUFFICES ASSUME FlowInv, NEW i \in 1..Len(effects), NEW j \in 1..Len(effects),
                        effects[i].durable = effects[j].durable,
                        effects[i].source = effects[j].source,
                        effects[i].schema = effects[j].schema
                 PROVE  i = j
      BY DEF OneEffect
    <2>1. effects[i].op = effects[j].op
      BY DEF FlowInv, OperationDerived
    <2> QED  BY <2>1 DEF FlowInv, DecidedOnce
  <1> QED  BY <1>1, <1>2, <1>3, PTL DEF Spec
=============================================================================
