-------------------------- MODULE MCCommandExecution --------------------------
(* Workers on one authority. In `expiry` and `isolation` two operations are      *)
(* executed: details are withdrawn while Active publications are delayed, or two *)
(* streams are read one by one. In `identity` and `late` rivals share one        *)
(* operation: it is retried, sent again later and reused for another command,    *)
(* which may be rejected, or its requests arrive after their senders stopped     *)
(* waiting. `part` names the instance a behaviour is about.                      *)
EXTENDS CommandExecution, TLC

CONSTANTS
    o1, o2, w1, w2,
    Parts   \* the instances a run is about

VARIABLES
    part

allVars == <<part, vars>>

Request(o, i, t) == [op |-> o, ident |-> i, stamp |-> t]

\* Two operations, each retried with the same identity and evidence.
TwoOperations == {Request(o1, "a", 1), Request(o2, "a", 1)}

\* One operation: delivered again, sent again with another created-at
\* timestamp, and its identifier reused for a different command.
OneOperation == {Request(o1, "a", 1), Request(o1, "a", 2), Request(o1, "b", 1)}

WorkerSymmetry == Permutations(Workers)

-----------------------------------------------------------------------------
\* One stream and room for one decision; details expire, and a request may be
\* delayed.
Expiry == INSTANCE CommandExecution WITH
    Streams <- {"x"}, MaxJournal <- 1
\* Two streams, read one by one; nothing is retried, expires or is delayed.
Isolation == INSTANCE CommandExecution WITH
    DetailExpiry <- FALSE, MaxRetries <- 0, MaxDelayed <- 0

\* The workers execute different operations.
Apart == \A v, w \in Workers : v # w /\ req[v] = req[w] => "idle" \in {pc[v], pc[w]}

-----------------------------------------------------------------------------
\* Nothing expires or is delayed.
Identity == INSTANCE CommandExecution WITH
    DetailExpiry <- FALSE, MaxDelayed <- 0
\* Room for one decision; details expire and a request may be delayed, but
\* nothing is sent again later.
Late == INSTANCE CommandExecution WITH
    Rejections <- {}, MaxJournal <- 1

NoneLater == \A w \in Workers : pc[w] # "idle" => req[w].stamp = 1

-----------------------------------------------------------------------------
PartInit == part \in Parts /\ Init

PartNext ==
    /\ \/ part = "expiry" /\ Expiry!Next
       \/ part = "isolation" /\ Isolation!Next /\ Apart'
       \/ part = "identity" /\ Identity!Next
       \/ part = "late" /\ Late!Next /\ NoneLater'
    /\ UNCHANGED part

PartSpec == PartInit /\ [][PartNext]_allVars
================================================================================
