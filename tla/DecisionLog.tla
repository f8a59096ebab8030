------------------------------ MODULE DecisionLog ------------------------------
(* What the command runtime promises its callers, without executors, journal    *)
(* batches or detail records: every operation is decided at most once, a        *)
(* decision is made against the current state of every stream it read, details  *)
(* of a decision may be withdrawn for good, and a caller is only ever told a    *)
(* decision that is in the log.                                                 *)
EXTENDS Naturals, Sequences

CONSTANTS Callers,   \* who runs commands
          Entries    \* decisions: [req, decision, base, writes], req.op the operation

VARIABLES log,        \* the decisions in commit order
          withdrawn,  \* the decisions whose details are withdrawn
          told        \* what each caller was last told: {} or {decision}

vars == <<log, withdrawn, told>>

\* n is the position in lg of the last decision that wrote stream s, 0 if none.
IsLastSeq(lg, s, n) ==
    /\ n \in 0..Len(lg)
    /\ n > 0 => s \in lg[n].writes
    /\ \A j \in (n + 1)..Len(lg) : s \notin lg[j].writes

Decided(lg, o) == \E i \in 1..Len(lg) : lg[i].req.op = o

Init ==
    /\ log = << >>
    /\ withdrawn = {}
    /\ told = [c \in Callers |-> {}]

\* One decision becomes permanent, its operation undecided and its reads current.
Decide(e) ==
    /\ ~Decided(log, e.req.op)
    /\ \A s \in DOMAIN e.base : IsLastSeq(log, s, e.base[s])
    /\ log' = Append(log, e)
    /\ UNCHANGED <<withdrawn, told>>

\* The details of a decision are withdrawn.
Withdraw(i) ==
    /\ i \in 1..Len(log)
    /\ withdrawn' = withdrawn \cup {log[i]}
    /\ UNCHANGED <<log, told>>

\* A caller is told the decision at position i of the log.
Tell(c, i) ==
    /\ i \in 1..Len(log)
    /\ told' = [told EXCEPT ![c] = {log[i]}]
    /\ UNCHANGED <<log, withdrawn>>

\* A caller starts another attempt, or gives up without learning a decision.
Forget(c) ==
    /\ told' = [told EXCEPT ![c] = {}]
    /\ UNCHANGED <<log, withdrawn>>

Next ==
    \/ \E c \in Callers : Forget(c) \/ \E i \in 1..Len(log) : Tell(c, i)
    \/ \E i \in 1..Len(log) : Withdraw(i)
    \/ log' # log /\ \E e \in Entries : Decide(e)

Spec == Init /\ [][Next]_vars
===============================================================================
