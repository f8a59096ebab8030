------------------------------ MODULE MCProgress ------------------------------
(* What must eventually happen to commands, events and the followers of a   *)
(* correlation, on small instances. The parts share no state: a behaviour   *)
(* is about the one that `part` names, and the others rest in their first   *)
(* state.                                                                   *)
EXTENDS Naturals, Sequences, TLC

VARIABLES
    part,
    commandJournal, state, commandDelayed, commandPc, req, evals, cand, ack, reply,
    source, attempts, quarantined, winner, records, removed, deliveryDelayed,
    deliveryPc, job, cpc, heard, told,
    workerJournal, pending, floor, handled, calm, workerPc, msg, seen, workerNext,
    recs, table, closing, budget, obs, subs

command ==
    <<commandJournal, state, commandDelayed, commandPc, req, evals, cand, ack, reply>>
delivery ==
    <<source, attempts, quarantined, winner, records, removed, deliveryDelayed,
      deliveryPc, job, cpc, heard, told>>
worker ==
    <<workerJournal, pending, floor, handled, calm, workerPc, msg, seen, workerNext>>
hub == <<recs, table, closing, budget, obs, subs>>
allVars == <<part, command, delivery, worker, hub>>

-----------------------------------------------------------------------------
(* Two operations on one stream. *)

TwoOperations == {[op |-> o, ident |-> "a", stamp |-> 1] : o \in {1, 2}}

\* Each worker executes its own operation.
Command == INSTANCE CommandExecution WITH
    Workers <- {1, 2}, Ops <- {1, 2}, Requests <- TwoOperations, Streams <- {"x"},
    Rejections <- {}, DetailExpiry <- FALSE, MaxRetries <- 1, MaxJournal <- 2,
    MaxDelayed <- 0, journal <- commandJournal, delayed <- commandDelayed,
    pc <- commandPc

-----------------------------------------------------------------------------
(* One message, two hosts. *)

Delivery == INSTANCE CommandDelivery WITH
    Workers <- {1, 2}, Hosts <- {1, 2}, HostOf <- <<1, 2>>, Copies <- {1},
    Decisions <- {"accepted"}, Legacy <- <<>>, OutcomeService <- TRUE,
    ReplayPublication <- FALSE, MaxAttempts <- 1, MaxTries <- 1, MaxRecords <- 1,
    MaxDelayed <- 0, delayed <- deliveryDelayed, pc <- deliveryPc

-----------------------------------------------------------------------------
(* A migrated durable: one transaction of two events was confirmed before. *)

ConfirmedPair == << [start |-> 1, count |-> 2], [start |-> 1, count |-> 2], [start |-> 0, count |-> 0] >>

Replicas == INSTANCE DomainEventWorker WITH
    Workers <- {1, 2}, Prior <- ConfirmedPair, Migrated <- 2, MaxBatch <- 2,
    MaxJournal <- 5, journal <- workerJournal, pc <- workerPc, next <- workerNext

-----------------------------------------------------------------------------
(* Two observers and one subscriber of a record. *)

Hub == INSTANCE CorrelationHub WITH
    Corrs <- {"a"}, Modes <- {"test", "dispatch"}, Messages <- {1}, Contents <- {1},
    Oversized <- {}, Observers <- {1, 2}, Subscribers <- {"s"}, MaxCorrelations <- 1,
    MaxEvents <- 1, MaxConflicts <- 1, RawBudget <- 2, MaxRecords <- 1, MaxRevision <- 2

-----------------------------------------------------------------------------
\* The instances satisfy what the modules assume of their constants.
ASSUME InstancesAssumption ==
    /\ Hub!HubAssumption

-----------------------------------------------------------------------------
Init ==
    /\ part \in
        {"command", "delivery", "worker", "hub"}
    /\ Command!Init
    /\ Delivery!Init
    /\ Replicas!Init
    /\ Hub!Init

Next ==
    \/ /\ part = "command" /\ Command!Next /\ \A w \in {1, 2} : commandPc'[w] # "idle" => req'[w].op = w
       /\ UNCHANGED <<part, delivery, worker, hub>>
    \/ /\ part = "delivery" /\ Delivery!Next
       /\ UNCHANGED <<part, command, worker, hub>>
    \/ /\ part = "worker" /\ Replicas!Next
       /\ UNCHANGED <<part, command, delivery, hub>>
    \/ /\ part = "hub" /\ Hub!Next
       /\ UNCHANGED <<part, command, delivery, worker>>

Spec == Init /\ [][Next]_allVars

\* The fairness each module states, of the part the behaviour is about.
FairSpec ==
    /\ Spec
    /\ \A w \in {1, 2} : WF_command(part = "command" /\ Command!Step(w))
    /\ \A w \in {1, 2} : WF_delivery(part = "delivery" /\ (Delivery!Handle(w) \/ Delivery!Settle(w)))
    /\ \A c \in {1} :
          /\ WF_delivery(part = "delivery" /\ \E w \in {1, 2} : Delivery!Deliver(w, c))
          /\ SF_delivery(part = "delivery" /\
                      \E w \in {1, 2} : job[w].copy = c /\ Delivery!QuarantineStored(w))
          /\ SF_delivery(part = "delivery" /\
                      (\E w \in {1, 2} : job[w].copy = c /\ (Delivery!Terminate(w) \/ Delivery!Acknowledge(w))))
    /\ WF_worker(part = "worker" /\ Replicas!Calm)
    /\ \A w \in {1, 2} : WF_worker(part = "worker" /\ Replicas!Step(w))
    /\ WF_worker(part = "worker" /\ \E w \in {1, 2}, n \in 1..Len(workerJournal) : Replicas!Deliver(w, n))
    /\ \A o \in {1, 2} : WF_hub(part = "hub" /\ (Hub!InsertMessage(o) \/ Hub!AppendEvent(o) \/ Hub!Notify(o)))
    /\ \A s \in {"s"} : WF_hub(part = "hub" /\ Hub!Check(s)) /\ WF_hub(part = "hub" /\ Hub!Wake(s))
    /\ \A r \in 1..1 : WF_hub(part = "hub" /\ Hub!Close(r))

-----------------------------------------------------------------------------
\* Every execution returns: conflicts, races and recoveries never loop for ever.
Returns == part = "command" => Command!Returns

\* Every queued command is eventually acknowledged or quarantined.
Settled == part = "delivery" => Delivery!Settled

\* Every committed event is eventually confirmed.
EventuallyConfirmed == part = "worker" => Replicas!EventuallyConfirmed

\* A subscriber that waits although an event is there for it, or although its
\* record is closed, does not wait forever: no notification is lost.
NobodyWaitsForever == part = "hub" => Hub!NobodyWaitsForever
=============================================================================
