----------------------------- MODULE ReadModelSetup -----------------------------
(* Registering and connecting read models.  A builder collects handlers and      *)
(* policies and remembers its first mistake; build() binds them, opens storage   *)
(* and history, and only then claims the model's name.  Builders of one registry *)
(* run concurrently, and opening storage may fail at any time.                   *)
EXTENDS Naturals, Sequences, FiniteSets, SequencesExt

CONSTANTS
    Builders,
    Names, BadNames,    \* models, and those whose name or schema version is invalid
    ModelOf,            \* the model each builder registers
    DomainEvents,
    Foreign,            \* domain events of an aggregate in another bounded context
    Uncoded,            \* domain events whose aggregate has no registered codec
    Events,             \* integration event types
    Unversioned,        \* those with schema version 0
    EventName,          \* the name of each integration event type
    Declared,           \* its declared producer context, or None
    Contexts, Home,     \* bounded contexts in scope, and the models' own
    Policies,           \* orders an integration source may use
    BadPolicies,        \* those whose source name is invalid
    None,
    MaxCalls            \* bound of the model: registrations of one builder

SetupAssumption ==
    /\ ModelOf \in [Builders -> Names] /\ BadNames \subseteq Names
    /\ Foreign \cup Uncoded \subseteq DomainEvents /\ Unversioned \subseteq Events
    /\ Home \in Contexts /\ None \notin Contexts \cup Policies /\ BadPolicies \subseteq Policies
    /\ Declared \in [Events -> Contexts \cup {None}]

VARIABLES
    stage,       \* where each builder is
    calls,       \* registrations made
    domain,      \* domain events with a reducer
    inputs,      \* integration events with a handler, in order
    sources,     \* integration events with an explicit [context, policy]
    error,       \* a registration was refused
    bindings,    \* the subscriptions bound by build()
    registered   \* names claimed in the shared registry

registration == <<calls, domain, inputs, sources, error>>
vars == <<stage, calls, domain, inputs, sources, error, bindings, registered>>

Unset == [context |-> None, order |-> None]

Init ==
    /\ stage = [b \in Builders |-> "registering"]
    /\ calls = [b \in Builders |-> 0]
    /\ domain = [b \in Builders |-> {}]
    /\ inputs = [b \in Builders |-> <<>>]
    /\ sources = [b \in Builders |-> [e \in Events |-> Unset]]
    /\ error = [b \in Builders |-> ModelOf[b] \in BadNames]
    /\ bindings = [b \in Builders |-> <<>>]
    /\ registered = {}

Goto(b, s) == stage' = [stage EXCEPT ![b] = s]

Registering(b) ==
    /\ stage[b] = "registering" /\ calls[b] < MaxCalls
    /\ calls' = [calls EXCEPT ![b] = @ + 1]
    /\ UNCHANGED <<stage, bindings, registered>>

\* fail: only the first mistake is kept.
Fail(b, wrong) == error' = [error EXCEPT ![b] = @ \/ wrong]

\* try_on_domain_event: an aggregate without a codec registers nothing.
OnDomainEvent(b, e) ==
    /\ Registering(b)
    /\ Fail(b, e \in Foreign \/ e \in Uncoded \/ e \in domain[b])
    /\ domain' = [domain EXCEPT ![b] = IF e \in Uncoded THEN @ ELSE @ \cup {e}]
    /\ UNCHANGED <<inputs, sources>>

\* try_on_integration_event: a second handler is refused and not kept.
OnIntegrationEvent(b, e) ==
    LET again == e \in Range(inputs[b]) IN
    /\ Registering(b)
    /\ Fail(b, again \/ e \in Unversioned)
    /\ inputs' = [inputs EXCEPT ![b] = IF again THEN @ ELSE Append(@, e)]
    /\ UNCHANGED <<domain, sources>>

\* integration_source: a later policy replaces an earlier one, as a mistake.
IntegrationSource(b, e, c, o) ==
    /\ Registering(b)
    /\ Fail(b, \/ c \notin Contexts \/ o \in BadPolicies
               \/ (Declared[e] # None /\ Declared[e] # c)
               \/ sources[b][e] # Unset)
    /\ sources' = [sources EXCEPT ![b][e] = [context |-> c, order |-> o]]
    /\ UNCHANGED <<domain, inputs>>

-----------------------------------------------------------------------------
(* build. *)

\* bind with its policy, or by default broker order from the declared context,
\* or else the model's own.
Bind(b, e) ==
    LET s == IF sources[b][e] # Unset THEN sources[b][e]
             ELSE [context |-> IF Declared[e] = None THEN Home ELSE Declared[e],
                   order |-> "broker"]
    IN  [event |-> e, address |-> <<s.context, EventName[e]>>, order |-> s.order]

Bound(b) == [i \in 1..Len(inputs[b]) |-> Bind(b, inputs[b][i])]

SameAddress(bs) == \E i, j \in 1..Len(bs) : i < j /\ bs[i].address = bs[j].address

Unused(b) == \E e \in Events : sources[b][e] # Unset /\ e \notin Range(inputs[b])

BeginBuild(b) ==
    /\ stage[b] = "registering"
    /\ IF \/ error[b]
          \/ (domain[b] = {} /\ inputs[b] = <<>>)
          \/ SameAddress(Bound(b)) \/ Unused(b)
       THEN Goto(b, "failed") /\ UNCHANGED bindings
       ELSE Goto(b, "opening") /\ bindings' = [bindings EXCEPT ![b] = Bound(b)]
    /\ UNCHANGED <<registration, registered>>

\* The backend verifies and opens the model's bucket; it may be unavailable or
\* differ from the model's policy.
Open(b) ==
    /\ stage[b] = "opening"
    /\ Goto(b, IF domain[b] # {} THEN "history" ELSE "connecting") \/ Goto(b, "failed")
    /\ UNCHANGED <<registration, bindings, registered>>

\* History is opened only for models of domain events.
OpenHistory(b) ==
    /\ stage[b] = "history"
    /\ Goto(b, "connecting") \/ Goto(b, "failed")
    /\ UNCHANGED <<registration, bindings, registered>>

\* Fault: an existing claim is not noticed.
ClaimAgain(b) ==
    /\ stage[b] = "connecting"
    /\ registered' = registered \cup {ModelOf[b]}
    /\ Goto(b, "running")
    /\ UNCHANGED <<registration, bindings>>

\* The session gets its resources, and the name is claimed under the registry's
\* lock; a name that is taken fails the build.
Claim(b) ==
    /\ stage[b] = "connecting"
    /\ registered' = registered \cup {ModelOf[b]}
    /\ Goto(b, IF ModelOf[b] \in registered THEN "failed" ELSE "running")
    /\ UNCHANGED <<registration, bindings>>

Next ==
    \E b \in Builders :
        \/ \E e \in DomainEvents : OnDomainEvent(b, e)
        \/ \E e \in Events : OnIntegrationEvent(b, e)
        \/ \E e \in Events, c \in Contexts, o \in Policies : IntegrationSource(b, e, c, o)
        \/ BeginBuild(b) \/ Open(b) \/ OpenHistory(b) \/ Claim(b)

Spec == Init /\ [][Next]_vars

-----------------------------------------------------------------------------
(* Properties. *)

Running == {b \in Builders : stage[b] = "running"}

\* Two running models never share a name, however their builds interleave.
NameHeldOnce == \A b, c \in Running : ModelOf[b] = ModelOf[c] => b = c
===============================================================================
