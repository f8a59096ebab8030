------------------------------- MODULE MCEvents -------------------------------
(* Committed events on their way: the workers of a domain-event subscriber, *)
(* and read models with their setup. The parts share no state: a behaviour  *)
(* is about the one that `part` names, and the others rest in their first   *)
(* state.                                                                   *)
EXTENDS EventConsumers, TLC

CONSTANTS w1, w2   \* interchangeable workers

VARIABLES
    part

allVars == <<part, vars, model, setup>>

Alike == Permutations({w1, w2})

\* A durable created with the journal.
NoPrior == << >>

-----------------------------------------------------------------------------
(* Two replicas of a subscriber. *)

Replicas == INSTANCE DomainEventWorker

-----------------------------------------------------------------------------
(* Two deliveries to one document, from the domain stream or the integration stream. *)

Domain == INSTANCE ReadModel WITH
    Orders <- {}, MaxBus <- 0, MaxVersion <- 0, MaxRemoved <- 0, floor <- settled, pc <- phase
Removal == INSTANCE ReadModel WITH
    Orders <- {}, MaxHist <- 2, MaxBus <- 0, MaxVersion <- 0, floor <- settled, pc <- phase
Business == INSTANCE ReadModel WITH
    Orders <- {"consecutive", "latest"}, MaxHist <- 0, MaxLost <- 0, MaxRemoved <- 0,
    floor <- settled, pc <- phase
Broker == INSTANCE ReadModel WITH
    Orders <- {"broker"}, MaxHist <- 0, MaxBus <- 2, floor <- settled, pc <- phase

-----------------------------------------------------------------------------
(* Two builders of one model; two event types share a name, one of them with a declared producer. *)

Orderly == [b \in {"b1", "b2"} |-> "orders"]
TheEventName == [e \in {"billed", "paid", "zero"} |-> IF e = "zero" THEN "zero" ELSE "changed"]
TheDeclared == [e \in {"billed", "paid", "zero"} |-> IF e = "billed" THEN "billing" ELSE "none"]

-----------------------------------------------------------------------------
PartInit ==
    /\ part \in
        {"worker", "domain", "removal", "business", "broker", "setup"}
    /\ Replicas!Init
    /\ IF part = "removal" THEN Removal!Init ELSE IF part = "business" THEN Business!Init ELSE IF part = "broker" THEN Broker!Init ELSE Domain!Init
    /\ Setup!Init

PartNext ==
    \/ /\ part = "worker" /\ Replicas!Next
       /\ UNCHANGED <<part, model, setup>>
    \/ /\ \/ part = "domain" /\ Domain!Next
          \/ part = "removal" /\ Removal!Next
          \/ part = "business" /\ Business!Next
          \/ part = "broker" /\ Broker!Next
       /\ UNCHANGED <<part, vars, setup>>
    \/ /\ part = "setup" /\ Setup!Next
       /\ UNCHANGED <<part, vars, model>>

PartSpec == PartInit /\ [][PartNext]_allVars

=============================================================================
