------------------------------ MODULE MessageGraph ------------------------------
(* Causal graphs of messages: a node names at most one cause.  Expected graphs   *)
(* are validated before a test runs.  A graph is built one node at a time here,  *)
(* so that every small graph is an input of the algorithms.                      *)
EXTENDS Causation

CONSTANTS
    Keys,         \* identities of nodes
    Blank,        \* an identity of white space only
    None,         \* no cause
    MaxSiblings,  \* MAXIMUM_EXPECTED_SIBLINGS
    MaxDepth,     \* MAXIMUM_EXPECTED_GRAPH_DEPTH
    MaxNodes,     \* MAX_MESSAGE_SERIES_NODES
    Bound         \* bound of the model: nodes of a graph

GraphAssumption == None \notin Keys /\ Blank \in Keys /\ MaxNodes \in Nat

VARIABLE nodes

\* A node: a command with its input, a command without payload, an event, or one
\* whose name, schema version, context or rejection code is malformed.
Kinds == {"input", "command", "event", "malformed"}
Nodes == [key : Keys, parent : Keys \cup {None}, kind : Kinds]

Init == nodes = <<>>

Add(n) == Len(nodes) < Bound /\ nodes' = Append(nodes, n)

Next == \E n \in Nodes : Add(n)

Spec == Init /\ [][Next]_nodes

-----------------------------------------------------------------------------
(* validate_graph: the codes of the issues found. *)

Issue(wrong, code) == IF wrong THEN {code} ELSE {}

DuplicateKeys(ns) == \E i, j \in 1..Len(ns) : i < j /\ ns[i].key = ns[j].key

NodeIssues(ns) ==
    Issue(\E i \in 1..Len(ns) : ns[i].key = Blank, "empty-node-key")
    \cup Issue(DuplicateKeys(ns), "duplicate-node-key")
    \cup Issue(\E i \in 1..Len(ns) : ns[i].parent = Blank, "empty-parent-key")
    \cup Issue(\E i \in 1..Len(ns) : ns[i].kind = "malformed", "invalid-fields")

ParentIssues(ns) ==
    Issue(\E i \in 1..Len(ns) : /\ ns[i].parent \notin {None, Blank}
                                /\ \A j \in 1..Len(ns) : ns[j].key # ns[i].parent,
          "unresolved-parent-key")

Roots(ns) == {i \in 1..Len(ns) : ns[i].parent = None}

\* One root, a command with its complete input.
RootIssues(ns) ==
    IF Cardinality(Roots(ns)) # 1 THEN {"invalid-root-count"}
    ELSE LET root == ns[CHOOSE i \in Roots(ns) : TRUE]
         IN  IF root.kind = "event" THEN {"root-not-command"}
             ELSE Issue(root.kind = "command", "missing-root-command-payload")

\* Fault: cycles are not looked for.
NoCycleIssues(ns) == {}

\* Cycles are looked for only where keys are unique and the graph is not too large.
CycleIssues(ns) ==
    Issue(/\ ~DuplicateKeys(ns) /\ Len(ns) <= MaxNodes
          /\ FindCycles(ParentIndexes(ns)) # <<>>,
          "causation-cycle")

\* How far a node's causes reach; a cycle ends the count at its first repetition.
RECURSIVE Depth(_, _, _)
Depth(ns, k, visited) ==
    IF k = None \/ k \in visited THEN 0
    ELSE 1 + (IF \E i \in 1..Len(ns) : ns[i].key = k
              THEN Depth(ns, ns[FirstIndex(ns, k)].parent, visited \cup {k}) ELSE 0)

BoundIssues(ns) ==
    Issue(\E k \in Keys : Cardinality({i \in 1..Len(ns) : ns[i].parent = k}) > MaxSiblings,
          "too-many-siblings")
    \cup Issue(/\ ~DuplicateKeys(ns)
               /\ \E i \in 1..Len(ns) : Depth(ns, ns[i].parent, {}) > MaxDepth,
               "message-graph-too-deep")

ValidateGraph(ns) ==
    IF ns = <<>> THEN {"empty-message-graph"}
    ELSE Issue(Len(ns) > MaxNodes, "too-many-nodes")
         \cup NodeIssues(ns) \cup ParentIssues(ns) \cup RootIssues(ns)
         \cup CycleIssues(ns) \cup BoundIssues(ns)

-----------------------------------------------------------------------------
(* Properties. *)

\* The causes of node i, direct and indirect, within Len(nodes) steps.
Causes(i) ==
    LET parents == ParentIndexes(nodes)
        up[n \in 0..Len(nodes)] ==
            IF n = 0 THEN {parents[i]} ELSE up[n - 1] \cup {parents[j] : j \in up[n - 1] \ {0}}
    IN  up[Len(nodes)] \ {0}

\* A graph passes validation exactly when it is a tree of well-formed nodes
\* hanging from one command with its input, within the supported width and depth.
AcceptedIsATree ==
    LET Level(i) == Cardinality(Causes(i))
        tree == /\ nodes # <<>> /\ Len(nodes) <= MaxNodes
                /\ ~DuplicateKeys(nodes)
                /\ \A i \in 1..Len(nodes) : nodes[i].kind # "malformed" /\ nodes[i].key # Blank
                /\ \E r \in 1..Len(nodes) :
                      /\ nodes[r].parent = None /\ nodes[r].kind = "input"
                      /\ \A i \in (1..Len(nodes)) \ {r} : nodes[i].parent # None /\ r \in Causes(i)
                /\ \A i \in 1..Len(nodes) :
                      /\ Level(i) <= MaxDepth
                      /\ Cardinality({j \in 1..Len(nodes) : nodes[j].parent = nodes[i].key})
                            <= MaxSiblings
    IN  ValidateGraph(nodes) = {} <=> tree
===============================================================================
