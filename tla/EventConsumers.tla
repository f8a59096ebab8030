---------------------------- MODULE EventConsumers ----------------------------
(* What becomes of committed events: the workers of a domain-event subscriber,   *)
(* read models, and the setup of read models.  They share no state; each         *)
(* promises something of its own.                                                *)
EXTENDS DomainEventWorker

CONSTANTS
    Keys, Unhandled, Orders, Retries, MaxAttempts,
    MaxHist, MaxBus, MaxVersion, MaxLost, MaxRemoved,
    Builders, Names, BadNames, ModelOf, DomainEvents, Foreign, Uncoded,
    EventTypes,    \* integration event types
    Unversioned, EventName, Declared, Contexts, Home, Policies, BadPolicies, None, MaxCalls

VARIABLES
    hist, bus, settled, delivered, quarantined, dispatched, bucket, seq, removed, lost,
    phase, job, tries, base, draft,
    stage, calls, domain, inputs, sources, error, bindings, registered

model ==
    <<hist, bus, settled, delivered, quarantined, dispatched, bucket, seq, removed, lost,
      phase, job, tries, base, draft>>
setup == <<stage, calls, domain, inputs, sources, error, bindings, registered>>

Model == INSTANCE ReadModel WITH floor <- settled, pc <- phase
Setup == INSTANCE ReadModelSetup WITH Events <- EventTypes

ASSUME ModelAssumption == Model!ReadModelAssumption
ASSUME SetupAssumption == Setup!SetupAssumption

-----------------------------------------------------------------------------
\* A document's domain part is always exactly its key's events up to the
\* checkpoint, each once and in stream order, and no successful dispatch is ever
\* taken out again unless the document was removed: however deliveries overlap,
\* skip ahead, are answered late or meet deletions.
DomainIsComplete == Model!DomainIsComplete

\* The integration durable never passes a message without its effect: it is
\* applied, superseded, quarantined, or its document was removed.
SettledHasEffect == Model!SettledHasEffect

\* Two running models never share a name, however their builds interleave.
NameHeldOnce == Setup!NameHeldOnce
===============================================================================
