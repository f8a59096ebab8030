------------------------------- MODULE Causation -------------------------------
(* The walk over causes that finds cycles among nodes [key, parent]: shared by    *)
(* the validation of expected graphs and by the diagnosis of observed series.     *)
EXTENDS Naturals, Sequences, FiniteSets, SequencesExt

\* The index of each node's cause, 0 for none.
FirstIndex(ns, k) == CHOOSE i \in 1..Len(ns) : ns[i].key = k /\ \A j \in 1..(i - 1) : ns[j].key # k

ParentIndexes(ns) ==
    [i \in 1..Len(ns) |->
        IF \E j \in 1..Len(ns) : ns[j].key = ns[i].parent THEN FirstIndex(ns, ns[i].parent) ELSE 0]

\* Follow causes from i along path until a node already seen, or none.  A node
\* seen on this very path closes a cycle.
RECURSIVE Walk(_, _, _, _)
Walk(parents, i, path, seen) ==
    IF i = 0 \/ i \in seen THEN [path |-> path, cycle |-> <<>>]
    ELSE IF i \in Range(path)
         THEN [path |-> path,
               cycle |-> SubSeq(path, CHOOSE n \in 1..Len(path) : path[n] = i, Len(path))]
         ELSE Walk(parents, parents[i], Append(path, i), seen)

\* rotate_left: a cycle starts at its earliest node.
Rotated(c) ==
    LET first == CHOOSE n \in 1..Len(c) : \A m \in 1..Len(c) : c[n] <= c[m]
    IN  SubSeq(c, first, Len(c)) \o SubSeq(c, 1, first - 1)

\* Each start not yet seen is walked; all of its path is then seen.
RECURSIVE CyclesFrom(_, _, _)
CyclesFrom(parents, start, seen) ==
    IF start > Len(parents) THEN <<>>
    ELSE LET walk == Walk(parents, start, <<>>, seen)
         IN  (IF walk.cycle = <<>> THEN <<>> ELSE <<Rotated(walk.cycle)>>)
             \o CyclesFrom(parents, start + 1, seen \cup Range(walk.path))

FindCycles(parents) == SortSeq(CyclesFrom(parents, 1, {}), LAMBDA c, d : c[1] < d[1])
===============================================================================
