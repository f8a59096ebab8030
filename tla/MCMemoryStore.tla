---------------------------- MODULE MCMemoryStore -----------------------------
(* The in-memory store with one operation used in several ways, and with    *)
(* decisions whose details are withdrawn. `part` names the instance a       *)
(* behaviour is about.                                                      *)
EXTENDS MemoryStore, TLC

VARIABLES
    part

allVars == <<part, vars>>

P(scope, op, print, decision, parts) ==
    [scope |-> scope, op |-> op, print |-> print, decision |-> decision, parts |-> parts]
Read == "s1" :> 0
Write(n) == "s1" :> n
ReadAndWrite == "s1" :> 0 @@ "s2" :> 1

\* One operation in two contexts, unscoped and direct, and another that reads one
\* stream and writes the other.
SharedOperation ==
    { P("a", "o", "f", "accepted", Write(2)), P("b", "o", "g", "none", Write(1)),
      P("none", "o", "f", "none", Write(2)), P("a", "p", "f", "accepted", ReadAndWrite) }
SharedAppend == {[stream |-> "s1", op |-> "o", print |-> "f", count |-> 1]}

\* A decision that reads one stream and writes the other, its rival rejection
\* and an acceptance that was never completed.
Guarded ==
    { P("a", "o", "f", "accepted", ReadAndWrite), P("a", "o", "f", "rejected", Read),
      P("b", "q", "f", "none", Write(1)) }

\* What either instance may propose.
AllProposals == SharedOperation \cup Guarded
ArchivedKeys == {<<"a", "o">>}

-----------------------------------------------------------------------------

Identity == INSTANCE MemoryStore WITH
    Proposals <- SharedOperation, Archived <- {}, MaxEvents <- 2
Decisions == INSTANCE MemoryStore WITH
    Proposals <- Guarded

-----------------------------------------------------------------------------
\* The instances satisfy what the modules assume of their constants.
ASSUME InstancesAssumption ==
    /\ ProposalsAssumption
    /\ Identity!ProposalsAssumption
    /\ Decisions!ProposalsAssumption

-----------------------------------------------------------------------------
PartInit ==
    /\ part \in
        {"identity", "decisions"}
    /\ Identity!Init

PartNext ==
    \/ /\ \/ part = "identity" /\ Identity!Next
          \/ part = "decisions" /\ Decisions!Next
       /\ UNCHANGED part

PartSpec == PartInit /\ [][PartNext]_allVars

-----------------------------------------------------------------------------
=============================================================================
