---------------------------- MODULE CommandService -----------------------------
(* The command processor as a service: who may execute a command or read its    *)
(* outcome, what the audit sink is told, what a caller admits, and the gate     *)
(* and message list of the in-memory adapter in front of it.  A processor has   *)
(* one of two profiles: trusted infrastructure (no scope, no policy, no audit)  *)
(* or policy-enabled.  The execution itself is one step here: CommandExecution  *)
(* shows what the store behind it guarantees.                                   *)
EXTENDS Naturals, Sequences, FiniteSets

CONSTANTS
    Slots,       \* concurrent calls
    Commands,    \* [op, ident, stamp, home]: operation, identity, created_at, own route
    Callers,     \* TrustedCommandContext: [principal, scope]
    Grants,      \* <<principal, access>> pairs the policy may ever grant
    Ingress,     \* the ways in: "memory", "http" (process), "lookup" (the NATS worker's)
    Decisions,   \* decisions of handlers and of the framework
    Trusted,     \* the trusted profile
    Proxied,     \* the service is another one that may mix outcomes up
    Audited,     \* an audit sink is configured
    Maximum,     \* retention capacity of the in-memory audit sink
    MaxAttempts, \* bound of the model: calls
    MaxChanges   \* bound of the model: changes of the policy

BoundsAssumption == Maximum \in Nat /\ MaxAttempts \in Nat /\ MaxChanges \in Nat
\* The trusted profile calls its own processor and keeps no audit.
ProfileAssumption == Trusted => ~Audited /\ ~Proxied

VARIABLES
    policy,    \* the pairs the authorizer grants now
    changes,   \* how often it changed
    store,     \* by operation: NoDecision or the completed outcome
    sink,      \* records of the audit sink, oldest first
    commands,  \* message identities the in-memory adapter knows
    messages,  \* its list of command messages
    at,        \* each slot's call
    reports    \* what each attempt returned, in the order of their identities

adapter == <<commands, messages>>
vars == <<policy, changes, store, sink, commands, messages, at, reports>>

Operations == {c.op : c \in Commands}
NoDecision == [by |-> 0]

\* command_message_id: everything but the time of creation.
MessageId(c) == <<c.op, c.ident>>

NoResult == [kind |-> "none"]
Error(w) == [kind |-> "error", why |-> w]
Missing == [kind |-> "missing"]

\* CompletedOutcome: the marker's identity and decision, and the projected response.
Completed(o, e, n, d) ==
    [kind |-> "completed", origin |-> o, marker |-> e, for |-> n, response |-> d]

NoCall == [pc |-> "idle"]
Running(a) == at[a].pc # "idle"

Init ==
    /\ policy \in SUBSET Grants
    /\ changes = 0
    /\ store = [o \in Operations |-> NoDecision]
    /\ sink = << >>
    /\ commands = {} /\ messages = << >>
    /\ at = [a \in Slots |-> NoCall]
    /\ reports = << >>

Set(a, r) == at' = [at EXCEPT ![a] = r]
Goto(a, l) == Set(a, [at[a] EXCEPT !.pc = l])
Holds(a, r, l) == Set(a, [at[a] EXCEPT !.pc = l, !.result = r])

\* A caller hands in a command; AttemptId::generate numbers the attempt.
Call(a, v, c, w) ==
    /\ ~Running(a)
    /\ Len(reports) < MaxAttempts
    /\ Set(a, [pc |-> IF v = "memory" THEN "gate" ELSE "validate", via |-> v,
               cmd |-> c, who |-> w, id |-> Len(reports) + 1, result |-> NoResult,
               errs |-> {}, dup |-> FALSE])
    /\ reports' = Append(reports, [cmd |-> c, who |-> w, result |-> NoResult,
                                   audit |-> "none", dup |-> TRUE])
    /\ UNCHANGED <<policy, changes, store, sink, adapter>>

\* command_gate: one dispatch per message identity at a time.
EnterGate(a) ==
    /\ at[a].pc = "gate"
    /\ \A b \in Slots \ {a} : Running(b) /\ at[b].via = "memory" =>
          at[b].pc = "gate" \/ MessageId(at[b].cmd) # MessageId(at[a].cmd)
    /\ Goto(a, IF Trusted THEN "peek" ELSE "validate")
    /\ UNCHANGED <<policy, changes, store, sink, adapter, reports>>

\* InMemoryMessagingAdapter::dispatch looks for a duplicate before it processes.
Peek(a) ==
    /\ at[a].pc = "peek"
    /\ Set(a, [at[a] EXCEPT !.dup = MessageId(at[a].cmd) \in commands, !.pc = "validate"])
    /\ UNCHANGED <<policy, changes, store, sink, adapter, reports>>

\* validate_command and validate_service: a command of another route has no attempt.
Validate(a) ==
    /\ at[a].pc = "validate"
    /\ \/ /\ at[a].cmd.home
          /\ Goto(a, CASE Trusted -> "lookup" [] Audited -> "started" [] OTHER -> "read")
       \/ ~at[a].cmd.home /\ Holds(a, Error("invalid"), "return")
    /\ UNCHANGED <<policy, changes, store, sink, adapter, reports>>

-----------------------------------------------------------------------------
(* The audit sink. *)

\* AuditTerminal of the result the operation produced.
Terminal(r) ==
    CASE r.kind = "missing" -> "missing"
      [] r.kind = "error" -> IF r.why = "denied" THEN "denied" ELSE "failed"
      [] r.kind = "completed" -> IF r.response = "expired" THEN "expired" ELSE r.origin
      [] OTHER -> "none"

AuditRecord(a) ==
    [attempt |-> at[a].id, phase |-> at[a].pc, terminal |-> Terminal(at[a].result),
     cmd |-> at[a].cmd, who |-> at[a].who]

\* Where the call goes on after a record.
AfterAudit(a) == IF at[a].pc = "started" THEN "read" ELSE "return"

\* InMemoryCommandAuditSink::record: the oldest record makes room.
Retain(s, r) == IF Len(s) >= Maximum THEN Append(Tail(s), r) ELSE Append(s, r)

AuditStored(a) ==
    /\ at[a].pc \in {"started", "finished"}
    /\ Maximum > 0
    /\ sink' = Retain(sink, AuditRecord(a))
    /\ Goto(a, AfterAudit(a))
    /\ UNCHANGED <<policy, changes, store, adapter, reports>>

\* The sink refuses the record, has no capacity, or does not answer in time.
AuditFails(a) ==
    /\ at[a].pc \in {"started", "finished"}
    /\ Set(a, [at[a] EXCEPT !.pc = AfterAudit(a), !.errs = @ \cup {at[a].pc}])
    /\ UNCHANGED <<policy, changes, store, sink, adapter, reports>>

\* InMemoryCommandAuditSink::clear.
Clear ==
    /\ sink # << >>
    /\ sink' = << >>
    /\ UNCHANGED <<policy, changes, store, adapter, at, reports>>

-----------------------------------------------------------------------------
(* Authorization, lookup and execution. *)

\* Where a result goes: with a sink, it is audited first.
Ends(a, r) == Holds(a, r, IF Audited THEN "finished" ELSE "return")

\* CommandAccess the next check asks the authorizer for.
AccessAsked(pc) == pc

Authorize(a) ==
    /\ at[a].pc \in {"read", "execute"}
    /\ IF <<at[a].who.principal, AccessAsked(at[a].pc)>> \in policy
       THEN Goto(a, IF at[a].pc = "read" THEN "lookup" ELSE "run")
       ELSE Ends(a, Error("denied"))
    /\ UNCHANGED <<policy, changes, store, sink, adapter, reports>>

\* The authorizer's provider does not answer.
AuthorizeFails(a) ==
    /\ at[a].pc \in {"read", "execute"}
    /\ Ends(a, Error("unavailable"))
    /\ UNCHANGED <<policy, changes, store, sink, adapter, reports>>

\* The scope a processor of this profile attaches to the metadata.
ScopeOf(w) == IF Trusted THEN "none" ELSE w.scope

\* Fault: the caller's scope is no part of the identity.
SameIdentityAnyScope(e, c, w) == e.ident = c.ident

\* OutcomeMarker::validate_identity; the evidence's time is no part of it.
SameIdentity(e, c, w) == e.ident = c.ident /\ e.scope = ScopeOf(w)

\* project: what the completed outcome e is to the caller of command c.
Project(o, e, c) == Completed(o, e, MessageId(c), IF e.kept THEN e.decision ELSE "expired")

\* The trusted profile answers another identity with a conflict rejection.
Conflict(a) == IF Trusted THEN [kind |-> "conflict"] ELSE Error("identity")

Answer(a, e) ==
    IF SameIdentity(e, at[a].cmd, at[a].who)
    THEN Ends(a, Project("replayed", e, at[a].cmd))
    ELSE Ends(a, Conflict(a))

\* lookup_metadata, reconcile_completed.
Lookup(a) ==
    /\ at[a].pc = "lookup"
    /\ IF store[at[a].cmd.op] # NoDecision THEN Answer(a, store[at[a].cmd.op])
       ELSE IF at[a].via = "lookup" THEN Ends(a, Missing)
       ELSE Goto(a, IF Trusted THEN "run" ELSE "execute")
    /\ UNCHANGED <<policy, changes, store, sink, adapter, reports>>

\* The winner a's execution makes permanent: a handler's decision, or the
\* framework's for an unknown command or an invalid payload.
Winner(a, d) ==
    [by |-> at[a].id, op |-> at[a].cmd.op, ident |-> at[a].cmd.ident,
     stamp |-> at[a].cmd.stamp, scope |-> ScopeOf(at[a].who), decision |-> d, kept |-> TRUE]

\* project_commit: CompletionOrigin of the executor's commit.
Origin(appended) == IF appended THEN "committed" ELSE "replayed"

\* execute_missing on an undecided operation: appended, or found again after a
\* lost acknowledgement, or stored while the caller only learns of a failure.
Execute(a, d) ==
    /\ at[a].pc = "run"
    /\ store[at[a].cmd.op] = NoDecision
    /\ store' = [store EXCEPT ![at[a].cmd.op] = Winner(a, d)]
    /\ \/ \E appended \in BOOLEAN :
             Ends(a, Project(Origin(appended), Winner(a, d), at[a].cmd))
       \/ Ends(a, Error("unavailable"))
    /\ UNCHANGED <<policy, changes, sink, adapter, reports>>

\* A racing attempt decided first: its winner, if the identity is this one's.
ExecuteReplays(a) ==
    /\ at[a].pc = "run"
    /\ store[at[a].cmd.op] # NoDecision
    /\ IF SameIdentity(store[at[a].cmd.op], at[a].cmd, at[a].who)
       THEN Ends(a, Project(Origin(FALSE), store[at[a].cmd.op], at[a].cmd))
       ELSE Ends(a, Conflict(a))
    /\ UNCHANGED <<policy, changes, store, sink, adapter, reports>>

\* The store is unavailable, or the execution fails technically.
StoreFails(a) ==
    /\ at[a].pc \in {"lookup", "run"}
    /\ Ends(a, Error("unavailable"))
    /\ UNCHANGED <<policy, changes, store, sink, adapter, reports>>

-----------------------------------------------------------------------------
(* Admission and the receipt. *)

\* Another service's result: any permanent marker, any response.
Substituted(a) ==
    {Completed("replayed", store[o], MessageId(c), d) :
        o \in {p \in Operations : store[p] # NoDecision}, c \in Commands,
        d \in Decisions \cup {"expired"}}

\* ProcessedCommand::admit: key, identity, scope, availability, response, decision.
Admits(a, r) ==
    /\ r.marker.op = at[a].cmd.op
    /\ SameIdentity(r.marker, at[a].cmd, at[a].who)
    /\ r.for = MessageId(at[a].cmd)
    /\ r.response = r.marker.decision

\* What the caller makes of the service's result.
Admitted(a, r) ==
    IF r.kind # "completed" THEN r
    ELSE IF r.response = "expired" THEN Error("expired")
    ELSE IF Trusted \/ Admits(a, r) THEN r ELSE Error("blocked")

\* dispatch_as looks under the lock that records; dispatch, before it processed.
Duplicate(a) == IF Trusted THEN at[a].dup ELSE MessageId(at[a].cmd) \in commands

Recorded(r) == r.kind \in {"completed", "conflict"}

\* AuditDelivery: commands of another route are not audited.
Delivery(a) ==
    IF ~Audited \/ ~at[a].cmd.home THEN "disabled"
    ELSE IF at[a].errs = {} THEN "delivered" ELSE "failed"

\* The call returns: the admitted response is recorded and receipted.
Return(a) ==
    /\ at[a].pc = "return"
    /\ \E r \in {at[a].result} \cup (IF Proxied THEN Substituted(a) ELSE {}) :
          LET end == Admitted(a, r) dup == Duplicate(a) IN
          /\ reports' = [reports EXCEPT ![at[a].id] = [@ EXCEPT
                !.result = end, !.audit = Delivery(a), !.dup = dup \/ at[a].via # "memory"]]
          /\ IF at[a].via = "memory" /\ Recorded(end)
             THEN /\ commands' = commands \cup {MessageId(at[a].cmd)}
                  /\ messages' = IF dup THEN messages ELSE Append(messages, MessageId(at[a].cmd))
             ELSE UNCHANGED adapter
    /\ Set(a, NoCall)
    /\ UNCHANGED <<policy, changes, store, sink>>

\* The call's future is dropped: a disconnected client, a timeout, a shutdown.
\* What it asked of the store may still happen.
Drop(a) ==
    /\ Running(a)
    /\ Set(a, NoCall)
    /\ \/ UNCHANGED store
       \/ /\ at[a].pc = "run" /\ store[at[a].cmd.op] = NoDecision
          /\ \E d \in Decisions : store' = [store EXCEPT ![at[a].cmd.op] = Winner(a, d)]
    /\ UNCHANGED <<policy, changes, sink, adapter, reports>>

-----------------------------------------------------------------------------
(* The environment. *)

\* An administrator grants or revokes one access.
ChangePolicy(g) ==
    /\ ~Trusted
    /\ changes < MaxChanges
    /\ changes' = changes + 1
    /\ policy' = IF g \in policy THEN policy \ {g} ELSE policy \cup {g}
    /\ UNCHANGED <<store, sink, adapter, at, reports>>

\* The details of a decision are withdrawn (expire_details).
Expire(o) ==
    /\ store[o] # NoDecision
    /\ store[o].kept
    /\ store' = [store EXCEPT ![o].kept = FALSE]
    /\ UNCHANGED <<policy, changes, sink, adapter, at, reports>>

Step(a) ==
    \/ EnterGate(a) \/ Peek(a) \/ Validate(a) \/ AuditFails(a)
    \/ Authorize(a) \/ AuthorizeFails(a) \/ Lookup(a)
    \/ \E d \in Decisions : Execute(a, d)
    \/ ExecuteReplays(a) \/ StoreFails(a) \/ Return(a)

Next ==
    \/ \E a \in Slots : Step(a) \/ AuditStored(a) \/ Drop(a)
    \/ \E a \in Slots, v \in Ingress, c \in Commands, w \in Callers : Call(a, v, c, w)
    \/ \E g \in Grants : ChangePolicy(g)
    \/ \E o \in Operations : Expire(o)
    \/ Clear

Spec == Init /\ [][Next]_vars

-----------------------------------------------------------------------------
(* Properties. *)

\* What a caller is given as the outcome of its command is the permanent
\* decision of that operation, decided for the same content under the caller's
\* own security scope: never another tenant's outcome, however attempts race,
\* and even when the service mixed outcomes up.
OutcomesStayInScope ==
    \A i \in 1..Len(reports) : reports[i].result.kind = "completed" =>
        LET r == reports[i] e == store[r.cmd.op] IN
        /\ e # NoDecision
        /\ e.ident = r.cmd.ident
        /\ e.scope = ScopeOf(r.who)
        /\ r.result.response = e.decision
===============================================================================
