------------------------------- MODULE MCTracer -------------------------------
(* The tracer and what it shows, on small instances: operations, the        *)
(* evaluation of tests, the validation of expected graphs and their         *)
(* comparison with what was observed, and the observation window. The parts *)
(* share no state: a behaviour is about the one that `part` names, and the  *)
(* others rest in their first state.                                        *)
EXTENDS Tracer, TLC

CONSTANTS a, b,   \* interchangeable clients
          Nil     \* no payload, no outcome

VARIABLES
    part,
    nodes,
    expected, observed, outcomes, next, context

graph == <<nodes>>
series == <<expected, observed, outcomes, next, context>>
allVars == <<part, vars, evaluation, graph, feed, series>>

Alike == Permutations({a, b})

-----------------------------------------------------------------------------
(* Two clients submit, reset and run tests over a table of one or two places. *)

Table == INSTANCE TracerOperations
Scenario == INSTANCE TracerOperations WITH
    MaxOperations <- 2, MaxRecords <- 2, MaxGeneration <- 3

-----------------------------------------------------------------------------
(* One run or one capture over evidence that keeps changing. *)

Captured == INSTANCE TestEvaluation WITH
    Readers <- {"capture"}, Expected <- {"root", "event"}, Extra <- {"extra"},
    Wrong <- {}, Within <- 6, SettleFor <- 2, MaxTime <- 7, MaxChanges <- 3

-----------------------------------------------------------------------------
(* Graphs of up to three nodes with every field, and of up to five that differ only in their causes. *)

Graph == INSTANCE MessageGraph WITH
    Keys <- {"a", "b", "c", " "}, Blank <- " ", None <- "none", MaxSiblings <- 1,
    MaxDepth <- 2, MaxNodes <- 3, Bound <- 3
Shape == INSTANCE MessageGraph WITH
    Keys <- {"a", "b", "c", "d", "e", " "}, Blank <- " ", None <- "none",
    MaxSiblings <- 2, MaxDepth <- 2, MaxNodes <- 5, Bound <- 5
\* The shapes alone: nodes are added in the order of their keys.
AddPlain ==
    LET n == Len(nodes) + 1 IN
    n <= 5 /\ \E p \in {"a", "b", "c", "d", "e", " ", "none"} :
        Shape!Add([key |-> <<"a", "b", "c", "d", "e">>[n], parent |-> p, kind |-> "input"])

-----------------------------------------------------------------------------
(* The observation window. *)

Message(i, c, s, v) == [id |-> i, corr |-> c, size |-> s, valid |-> v]
\* Three flows for two places; the first can hold all its small messages but not
\* the large one.
Window == INSTANCE ObservationFeed WITH
    Names <- {}, Contents <- {1, 2}, Subscribers <- {}, MaxFlows <- 2, MaxMessages <- 2,
    MaxBytes <- 3, MaxGuards <- 0, MaxRevision <- 5, generation <- feedGeneration,
    Messages <-
        {Message("a", "x", 1, TRUE), Message("b", "x", 1, TRUE), Message("c", "x", 3, TRUE),
         Message("d", "y", 1, TRUE), Message("e", "z", 1, TRUE), Message("f", "z", 1, FALSE)}

-----------------------------------------------------------------------------
(* Four messages under trees whose siblings compete, and two with outcomes, foreign correlations and every boundary. *)

Node(k, p, n, fields, o) == [key |-> k, parent |-> p, name |-> n, payload |-> fields, outcome |-> o]
Root == Node(1, 0, "cmd", {}, "accepted")

\* Siblings with overlapping demands, and siblings told apart by their children.
Competing == <<Root, Node(2, 1, "evt", {}, Nil), Node(3, 1, "evt", {"x"}, Nil)>>
Nested == <<Root, Node(2, 1, "evt", Nil, Nil), Node(3, 1, "evt", Nil, Nil),
            Node(4, 3, "evt", {"x"}, Nil)>>

ContentOrder ==
    <<<<"cmd", {}, "accepted">>, <<"cmd", {}, Nil>>, <<"evt", {"x"}, "accepted">>, <<"evt", {"x"}, Nil>>,
      <<"evt", {}, "accepted">>, <<"evt", {}, Nil>>, <<"evt", Nil, "accepted">>, <<"evt", Nil, Nil>>,
      <<"cmd", {}, "rejected">>, <<"evt", {"x"}, "rejected">>,
      <<"evt", Nil, "rejected">>>>

Observed(i, c, g, n, fields) == [id |-> i, cause |-> c, corr |-> g, name |-> n, payload |-> fields]
MatchMessages ==
    {Observed(i, c, 1, x[1], x[2]) : i \in 1..4, c \in 0..4, x \in {<<"evt", {}>>, <<"evt", {"x"}>>}}
    \cup {Observed(i, c, 1, "cmd", {}) : i \in 1..2, c \in 0..4}
Reported(r, c, g, x) == [response |-> r, command |-> c, corr |-> g, result |-> x]

\* Two messages and their outcomes, in both correlations.
Pair == <<Root, Node(2, 1, "evt", {"x"}, Nil)>>
TimedMessages ==
    {Observed(i, c, g, x[1], x[2]) : i \in 1..2, c \in 0..1, g \in 1..2,
                                     x \in {<<"cmd", {}>>, <<"evt", {"x"}>>}}
TimedOutcomes ==
    {Reported(8, 1, 1, "accepted"), Reported(8, 1, 1, "rejected"),
     Reported(9, 1, 2, "accepted"), Reported(9, 2, 1, "accepted")}

Matching == INSTANCE MessageSeries WITH
    Graphs <- {Competing, Nested}, Messages <- MatchMessages,
    Outcomes <- {Reported(9, 1, 1, "accepted")}, Content <- ContentOrder,
    CommandNames <- {"cmd"}, MaxSeries <- 4, None <- Nil, messages <- observed
Timing == INSTANCE MessageSeries WITH
    Graphs <- {Pair}, Messages <- TimedMessages, Outcomes <- TimedOutcomes,
    Content <- ContentOrder, CommandNames <- {"cmd"}, MaxSeries <- 2, None <- Nil,
    messages <- observed
\* Identities arrive in ascending order, after the outcome of the first; causes,
\* names and payloads vary freely.
Ascend ==
    IF outcomes = <<>> THEN Matching!InsertCommandOutcome(Reported(9, 1, 1, "accepted"))
    ELSE \E m \in MatchMessages : m.id = Len(observed) + 1 /\ Matching!InsertMessage(m)

-----------------------------------------------------------------------------
\* The instances satisfy what the modules assume of their constants.
ASSUME InstancesAssumption ==
    /\ Table!OperationsAssumption
    /\ Scenario!OperationsAssumption
    /\ Captured!EvaluationAssumption
    /\ Graph!GraphAssumption
    /\ Shape!GraphAssumption
    /\ Window!BoundsAssumption
    /\ Matching!SeriesAssumption
    /\ Timing!SeriesAssumption

-----------------------------------------------------------------------------
PartInit ==
    /\ part \in
        {"table", "scenario", "verdict", "captured", "graph", "shape", "window", "sources",
         "matching", "timing"}
    /\ Table!Init
    /\ IF part = "captured" THEN Captured!Init ELSE Verdict!Init
    /\ Graph!Init
    /\ Feed!Init
    /\ IF part = "matching" THEN Matching!Init ELSE Timing!Init

PartNext ==
    \/ /\ \/ part = "table" /\ Table!Next
          \/ part = "scenario" /\ Scenario!Next
       /\ UNCHANGED <<part, evaluation, graph, feed, series>>
    \/ /\ \/ part = "verdict" /\ Verdict!Next
          \/ part = "captured" /\ Captured!Next
       /\ UNCHANGED <<part, vars, graph, feed, series>>
    \/ /\ \/ part = "graph" /\ Graph!Next
          \/ part = "shape" /\ AddPlain
       /\ UNCHANGED <<part, vars, evaluation, feed, series>>
    \/ /\ \/ part = "window" /\ Window!Next
          \/ part = "sources" /\ Feed!Next
       /\ UNCHANGED <<part, vars, evaluation, graph, series>>
    \/ /\ \/ part = "matching" /\ Ascend
          \/ part = "timing" /\ Timing!Next
       /\ UNCHANGED <<part, vars, evaluation, graph, feed>>

PartSpec == PartInit /\ [][PartNext]_allVars

-----------------------------------------------------------------------------
\* A graph passes validation exactly when it is a tree of well-formed nodes
\* hanging from one command with its input, within the supported width and depth.
AcceptedIsATree ==
    /\ part = "graph" => Graph!AcceptedIsATree
    /\ part = "shape" => Shape!AcceptedIsATree

\* A comparison passes exactly when the expected tree is the observed one, node
\* by node, with every link and outcome inside one correlation, every outcome on
\* a command, and no observation from the settle window or past a boundary.
PassedIsIsomorphic ==
    part \in {"matching", "timing"} => Timing!PassedIsIsomorphic
=============================================================================
