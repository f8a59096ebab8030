----------------------------- MODULE MessageSeries -----------------------------
(* A series of observed messages and command outcomes, and its comparison with   *)
(* an expected causal tree.  Observations arrive one at a time, in any order and *)
(* more than once; the execution loop marks where settling started and ended and *)
(* where the deadline passed.  The work limit of the comparison (100 000 steps)  *)
(* is far beyond these instances and is left out.                                *)
EXTENDS Causation

CONSTANTS
    Graphs,         \* the expected trees: sequences of nodes, validated
    Messages,       \* messages that may be observed, 0 standing for no cause
    Outcomes,       \* command outcomes that may be observed
    Content,        \* the contents of messages, in the order of their content keys
    CommandNames,   \* names of commands (the other names are events)
    None,           \* no payload, no outcome, no boundary
    MaxSeries       \* MAX_MESSAGE_SERIES_NODES

\* An expected node [key, parent, name, payload, outcome] has a natural key; its
\* payload is the set of fields it demands, or None for any payload.  A message
\* [id, cause, corr, name, payload] carries a set of fields; an outcome is
\* [response, command, corr, result].  A name stands for the kind, the name, the
\* schema version and the context together.
SeriesAssumption ==
    /\ \A g \in Graphs : Cardinality({i \in 1..Len(g) : g[i].parent = 0}) = 1
    /\ MaxSeries \in Nat

VARIABLES
    expected,   \* the expected tree
    messages,   \* messages in arrival order, each with its observation order
    outcomes,   \* command outcomes in arrival order, with their observation order
    next,       \* next_observation_order
    context     \* MessageSeriesComparisonContext: boundaries, None while unset

vars == <<expected, messages, outcomes, next, context>>

NoContext == [timeout |-> None, started |-> None, completed |-> None]

Init ==
    /\ expected \in Graphs
    /\ messages = <<>> /\ outcomes = <<>> /\ next = 0
    /\ context = NoContext

-----------------------------------------------------------------------------
(* Observation. *)

Stamped(r, order) == [f \in DOMAIN r \cup {"order"} |-> IF f = "order" THEN order ELSE r[f]]

\* A message seen before is a duplicate or, with other content, an identity
\* conflict; neither it nor one beyond the limit changes the series.
InsertMessage(m) ==
    IF \/ \E i \in 1..Len(messages) : messages[i].id = m.id
       \/ Len(messages) = MaxSeries
    THEN UNCHANGED vars
    ELSE /\ messages' = Append(messages, Stamped(m, next))
         /\ next' = next + 1
         /\ UNCHANGED <<expected, outcomes, context>>

\* One outcome per command and per response.
InsertCommandOutcome(o) ==
    IF \/ \E i \in 1..Len(outcomes) : outcomes[i].command = o.command \/ outcomes[i].response = o.response
       \/ Len(outcomes) = MaxSeries
    THEN UNCHANGED vars
    ELSE /\ outcomes' = Append(outcomes, Stamped(o, next))
         /\ next' = next + 1
         /\ UNCHANGED <<expected, messages, context>>

\* The execution loop's boundaries: orders from here on are during the settle
\* window, after it, or after the deadline.
StartSettle ==
    /\ context.started = None /\ context.timeout = None
    /\ context' = [context EXCEPT !.started = next]
    /\ UNCHANGED <<expected, messages, outcomes, next>>

CompleteSettle ==
    /\ context.started # None /\ context.completed = None /\ context.timeout = None
    /\ context' = [context EXCEPT !.completed = next]
    /\ UNCHANGED <<expected, messages, outcomes, next>>

PassDeadline ==
    /\ context.timeout = None /\ context.completed = None
    /\ context' = [context EXCEPT !.timeout = next]
    /\ UNCHANGED <<expected, messages, outcomes, next>>

Next ==
    \/ \E m \in Messages : InsertMessage(m)
    \/ \E o \in Outcomes : InsertCommandOutcome(o)
    \/ StartSettle \/ CompleteSettle \/ PassDeadline

Spec == Init /\ [][Next]_vars

-----------------------------------------------------------------------------
(* One expected node against one message. *)

OutcomesOf(id) == {i \in 1..Len(outcomes) : outcomes[i].command = id}

OutcomeOf(id) ==
    IF OutcomesOf(id) = {} THEN None ELSE outcomes[CHOOSE i \in OutcomesOf(id) : TRUE].result

\* The expected fields are a subset of the observed ones; no expectation is a wildcard.
PayloadMismatch(e, m) == e.payload # None /\ (m.payload = None \/ ~(e.payload \subseteq m.payload))

OutcomeMismatch(e, m) == e.outcome # None /\ OutcomeOf(m.id) # e.outcome

NodeMatches(e, m) == e.name = m.name /\ ~PayloadMismatch(e, m) /\ ~OutcomeMismatch(e, m)

\* candidate_content_key: the place of a message's content in a fixed order.
ContentKey(m) == CHOOSE i \in 1..Len(Content) : Content[i] = <<m.name, m.payload, OutcomeOf(m.id)>>

ObservedBefore(m, n) ==
    ContentKey(m) < ContentKey(n) \/ (ContentKey(m) = ContentKey(n) /\ m.id < n.id)

ExpectedChildren(k) ==
    SortSeq(SelectSeq(expected, LAMBDA e : e.parent = k), LAMBDA e, f : e.key < f.key)

ObservedChildren(ms, id) == SortSeq(SelectSeq(ms, LAMBDA m : m.cause = id), ObservedBefore)

-----------------------------------------------------------------------------
(* CompleteMatchSearch: the expected tree laid over the messages ms.  Siblings   *)
(* are matched by augmenting paths; matched maps a message to the expected node  *)
(* it is taken by.                                                               *)

Taken(matched, m, e) == [i \in DOMAIN matched \cup {m.id} |-> IF i = m.id THEN e ELSE matched[i]]

RECURSIVE SubtreeMatches(_, _, _), SiblingAssignment(_, _, _, _), Augment(_, _, _, _, _, _)

\* Try e on each of rest in turn; a message already taken is handed over when its
\* holder finds another among all.
Augment(ms, e, rest, all, matched, visited) ==
    IF rest = <<>> THEN [ok |-> FALSE, matched |-> matched, visited |-> visited]
    ELSE LET m == Head(rest)
             seen == visited \cup {m.id}
         IN  IF m.id \in visited \/ ~SubtreeMatches(ms, e, m)
             THEN Augment(ms, e, Tail(rest), all, matched, visited)
             ELSE IF m.id \notin DOMAIN matched
             THEN [ok |-> TRUE, matched |-> Taken(matched, m, e), visited |-> seen]
             ELSE LET moved == Augment(ms, matched[m.id], all, all, matched, seen)
                  IN  IF moved.ok
                      THEN [moved EXCEPT !.matched = Taken(moved.matched, m, e)]
                      ELSE Augment(ms, e, Tail(rest), all, moved.matched, moved.visited)

\* Later keys are inserted first.
SiblingAssignment(ms, exp, obs, matched) ==
    IF exp = <<>> THEN [ok |-> TRUE, matched |-> matched]
    ELSE LET step == Augment(ms, Last(exp), obs, obs, matched, {})
         IN  IF step.ok THEN SiblingAssignment(ms, Front(exp), obs, step.matched)
             ELSE [ok |-> FALSE, matched |-> matched]

Siblings(ms, e, m) ==
    SiblingAssignment(ms, ExpectedChildren(e.key), ObservedChildren(ms, m.id), <<>>)

SubtreeMatches(ms, e, m) == NodeMatches(e, m) /\ Siblings(ms, e, m).ok

MessageOf(ms, id) == ms[CHOOSE i \in 1..Len(ms) : ms[i].id = id]

RECURSIVE Materialize(_, _, _)
Materialize(ms, e, m) ==
    LET taken == Siblings(ms, e, m).matched
    IN  {<<e.key, m.id>>}
        \cup UNION {Materialize(ms, taken[id], MessageOf(ms, id)) : id \in DOMAIN taken}

\* The assignment of the first root whose subtree matches, or none.
CompleteAssignment(ms) ==
    LET root == ExpectedChildren(0)[1]
        roots == SelectSeq(ObservedChildren(ms, 0), LAMBDA m : SubtreeMatches(ms, root, m))
    IN  IF roots = <<>> THEN {} ELSE Materialize(ms, root, roots[1])

-----------------------------------------------------------------------------
(* The fallback: expected nodes by depth, each with its best causal candidate.   *)

RECURSIVE ExpectedDepth(_)
ExpectedDepth(e) ==
    IF e.parent = 0 THEN 0
    ELSE 1 + ExpectedDepth(expected[CHOOSE i \in 1..Len(expected) : expected[i].key = e.parent])

ByDepth ==
    SortSeq(expected, LAMBDA e, f : \/ ExpectedDepth(e) < ExpectedDepth(f)
                                    \/ ExpectedDepth(e) = ExpectedDepth(f) /\ e.key < f.key)

\* candidate_rank: fewer mismatches in the order name, payload, outcome, then content.
RankedBefore(e, m, n) ==
    LET Mismatches(c) == (IF e.name # c.name THEN 4 ELSE 0)
                         + (IF PayloadMismatch(e, c) THEN 2 ELSE 0)
                         + (IF OutcomeMismatch(e, c) THEN 1 ELSE 0)
    IN  Mismatches(m) < Mismatches(n) \/ (Mismatches(m) = Mismatches(n) /\ ObservedBefore(m, n))

\* Messages not yet matched that are caused by the match of e's parent.
Candidates(ms, e, matches) ==
    SelectSeq(ms, LAMBDA m : /\ \A p \in matches : p[2] # m.id
                             /\ IF e.parent = 0 THEN m.cause = 0
                                ELSE m.cause # 0 /\ <<e.parent, m.cause>> \in matches)

UnmatchedDiagnostics(ms, e, matches) ==
    LET alike == {i \in 1..Len(ms) : NodeMatches(e, ms[i])}
    IN  {<<"missing-expected", e.key>>}
        \cup (IF \E i \in alike : \A p \in matches : p[2] # ms[i].id
              THEN {<<"causation-mismatch", e.key>>}
              ELSE IF alike # {} THEN {<<"identity-conflict", e.key>>} ELSE {})

FieldDiagnostics(e, m) ==
    (IF e.name # m.name THEN {<<"name-mismatch", e.key>>} ELSE {})
    \cup (IF PayloadMismatch(e, m) THEN {<<"payload-mismatch", e.key>>} ELSE {})
    \cup (IF OutcomeMismatch(e, m) THEN {<<"command-outcome-mismatch", e.key>>} ELSE {})

Fallback(ms) ==
    LET Place(found, e) ==
            LET candidates == SortSeq(Candidates(ms, e, found.matches),
                                      LAMBDA m, n : RankedBefore(e, m, n))
                wrong == IF candidates = <<>> THEN UnmatchedDiagnostics(ms, e, found.matches)
                         ELSE FieldDiagnostics(e, candidates[1])
            IN  [matches |-> found.matches \cup (IF candidates = <<>> THEN {}
                                                 ELSE {<<e.key, candidates[1].id>>}),
                 diagnostics |-> found.diagnostics \cup wrong,
                 missing |-> found.missing \/ wrong # {}]
    IN  FoldLeft(Place, [matches |-> {}, diagnostics |-> {}, missing |-> FALSE], ByDepth)

Matching(ms) ==
    LET complete == CompleteAssignment(ms)
    IN  IF complete = {} THEN Fallback(ms)
        ELSE [matches |-> complete, diagnostics |-> {}, missing |-> FALSE]

-----------------------------------------------------------------------------
(* Diagnostics of what was observed: unresolved and foreign links, cycles,       *)
(* outcomes without their command, and observations outside their time.          *)

TopologyNodes(ms) == [i \in 1..Len(ms) |-> [key |-> ms[i].id, parent |-> ms[i].cause]]

StructureDiagnostics(ms) ==
    LET Known(id) == \E i \in 1..Len(ms) : ms[i].id = id
        linked == {m \in Range(ms) : m.cause # 0 /\ Known(m.cause)}
        cycles == FindCycles(ParentIndexes(TopologyNodes(ms)))
    IN  {<<"unresolved-observed-parent", m.id>> : m \in {m \in Range(ms) : m.cause # 0 /\ ~Known(m.cause)}}
        \cup {<<"cross-correlation-link", m.id>> :
                 m \in {m \in linked : m.corr # MessageOf(ms, m.cause).corr}}
        \cup {<<"causation-cycle", ms[cycles[c][1]].id>> : c \in 1..Len(cycles)}
        \cup {<<"unresolved-command-outcome", o.response>> : o \in {o \in Range(outcomes) : ~Known(o.command)}}
        \cup {<<"identity-conflict", o.response>> :
                 o \in {o \in Range(outcomes) : Known(o.command) /\ MessageOf(ms, o.command).name \notin CommandNames}}
        \cup {<<"cross-correlation-outcome", o.response>> :
                 o \in {o \in Range(outcomes) : /\ Known(o.command)
                                                /\ MessageOf(ms, o.command).name \in CommandNames
                                                /\ MessageOf(ms, o.command).corr # o.corr}}

Reached(boundary, order) == boundary # None /\ order >= boundary

TimingDiagnostics(missing) ==
    (IF context.timeout # None /\ missing THEN {<<"timeout-before-expectations", 0>>} ELSE {})
    \cup {<<"after-timeout", o.order>> :
             o \in {o \in Range(messages) \cup Range(outcomes) : Reached(context.timeout, o.order)}}
    \cup {<<"after-settle", o.order>> :
             o \in {o \in Range(messages) \cup Range(outcomes) : Reached(context.completed, o.order)}}
    \cup {<<"during-settle", o.order>> :
             o \in {o \in Range(messages) \cup Range(outcomes) :
                       Reached(context.started, o.order) /\ ~Reached(context.completed, o.order)}}

\* Fault: messages beyond the expected ones go unnoticed.
UnexpectedUnnoticed(ms, matches) == {}

UnexpectedDiagnostics(ms, matches) ==
    {<<"unexpected-observed", m.id>> : m \in {m \in Range(ms) : \A p \in matches : p[2] # m.id}}

\* compare_message_series: the assignment and every diagnostic; passed with none.
Compare(ms) ==
    LET found == Matching(ms)
    IN  [matches |-> found.matches,
         diagnostics |-> found.diagnostics \cup StructureDiagnostics(ms)
                         \cup UnexpectedDiagnostics(ms, found.matches)
                         \cup TimingDiagnostics(found.missing)]

Passed(comparison) == comparison.diagnostics = {}

-----------------------------------------------------------------------------
(* Reading a series back from its serialized form. *)

-----------------------------------------------------------------------------
(* Properties. *)

ObservedIds == {m.id : m \in Range(messages)}

\* The ways to lay the whole expected tree over messages: every expected node on a
\* message of its own that matches it, under the message its parent lies on.
Embeddings ==
    {f \in [{e.key : e \in Range(expected)} -> ObservedIds] :
        /\ IsInjective(f)
        /\ \A e \in Range(expected) :
              LET m == MessageOf(messages, f[e.key])
              IN  NodeMatches(e, m) /\ m.cause = (IF e.parent = 0 THEN 0 ELSE f[e.parent])}

Pairs(f) == {<<k, f[k]>> : k \in DOMAIN f}

\* A comparison passes exactly when the expected tree is the observed one, node
\* by node, with every link and outcome inside one correlation, every outcome on
\* a command, and no observation from the settle window or past a boundary.
PassedIsIsomorphic ==
    Passed(Compare(messages)) <=>
        /\ \E f \in Embeddings : ObservedIds = Range(f)
        /\ \A m \in Range(messages) : m.cause # 0 => MessageOf(messages, m.cause).corr = m.corr
        /\ \A o \in Range(outcomes) :
              \E m \in Range(messages) : m.id = o.command /\ m.name \in CommandNames /\ m.corr = o.corr
        /\ \A o \in Range(messages) \cup Range(outcomes), b \in {"timeout", "started", "completed"} :
              context[b] # None => o.order < context[b]
===============================================================================
