------------------------------ MODULE MCStorage -------------------------------
(* What is stored, on small instances: appends to the journal, what is read *)
(* back from it, the namespaces it lives in, the observer that follows      *)
(* streams, the inspection of quarantined messages, and the files of agent  *)
(* skills. The parts share no state: a behaviour is about the one that      *)
(* `part` names, and the others rest in their first state.                  *)
EXTENDS Storage, TLC

VARIABLES
    part,
    messages, last, committed, appended, damage, reader

history == <<messages, last, committed, appended, damage, reader>>
allVars == <<part, vars, history, namespace, observer, quarantine, skills>>

-----------------------------------------------------------------------------
(* Appends to one stream: direct writers and a session. *)

Races == INSTANCE StreamAppend
Recreated == INSTANCE StreamAppend WITH
    Sessions <- {"w1"}, Contents <- {"c1"}, MaxEpoch <- 2

-----------------------------------------------------------------------------
(* What is read back from the stream. *)

Intact == INSTANCE StoredHistory WITH
    Aggregates <- {"a", "b"}, Listed <- {"a"}, MaxEvents <- 1, MaxBatches <- 3,
    MaxDamage <- 0, log <- messages, batches <- appended
Damaged == INSTANCE StoredHistory WITH
    Aggregates <- {"a", "b"}, Listed <- {"a"}, MaxEvents <- 2, MaxBatches <- 2,
    MaxDamage <- 1, log <- messages, batches <- appended

-----------------------------------------------------------------------------
(* The namespace of a context's streams. *)

Plain == [epoch |-> "none", split |-> FALSE, readOnly |-> FALSE, size |-> 1]
Inline(e, n) == [epoch |-> e, split |-> FALSE, readOnly |-> FALSE, size |-> n]
Split == [epoch |-> "e1", split |-> TRUE, readOnly |-> FALSE, size |-> 1]

\* Nothing, a store from before transactions, or another context's stream.
Older == {[inc |-> 0],
          [epoch |-> "none", version |-> "none", subjects |-> "aggregate", size |-> 2, bind |-> 0, inc |-> 1],
          [epoch |-> "none", version |-> "none", subjects |-> "other", size |-> 1, bind |-> 0, inc |-> 1]}

StoreConfigs == {Plain, Inline("e1", 2), Inline("e2", 1)}

Pairs == INSTANCE StoreNamespace WITH
    Configs <- {Split, [Split EXCEPT !.readOnly = TRUE]}, Found <- {[inc |-> 0]},
    Actors <- {"w1", "w2"}, Operations <- {"o"}, MaxInc <- 4, MaxTasks <- 6,
    MaxFaults <- 1, streams <- names

-----------------------------------------------------------------------------
(* The observer's task, of one stream. *)

Follow == INSTANCE StreamObserver WITH
    Streams <- {"domain"}, MaxGen <- 3, MaxLen <- 2, MaxFaults <- 2, mode <- collecting,
    faults <- outages

-----------------------------------------------------------------------------
(* Pages and details of quarantined messages, within Test and in production. *)

Readable(k, s, v) == [kind |-> k, shape |-> "complete", size |-> s, content |-> v]
TwoKinds == {Readable("command", 1, "a"), Readable("integration", 2, "b")}
Shapes == {[kind |-> "command", shape |-> s, size |-> 1, content |-> v] :
             s \in {"complete", "binary", "garbled", "truncated", "misplaced", "oversize", "undecodable"},
             v \in {"a", "b"}}

Production == INSTANCE QuarantineInspection WITH
    Scope <- "production", Clients <- {"c"}, Records <- Shapes, Filters <- {"all"},
    Limit <- 1, Budget <- 2, Permits <- 1, MaxGen <- 2, MaxLen <- 1, MaxFaults <- 2,
    exists <- created, stored <- records, seen <- viewed, faults <- failures

-----------------------------------------------------------------------------
(* Two skills of two files; the newer release changes one file and drops another. *)

SkillNames == <<"develop", "tracer">>
Kit(Holds(_)) == [s \in {"develop", "tracer"} |-> [f \in Files |-> Holds(f)]]
Nothing == Kit(LAMBDA f : "none")
OlderKit == Kit(LAMBDA f : IF f = "added" THEN "none" ELSE "old")
NewerKit == Kit(LAMBDA f : IF f = "guide" THEN "new" ELSE "none")
Releases == {OlderKit, NewerKit}

-----------------------------------------------------------------------------
\* The instances satisfy what the modules assume of their constants.
ASSUME InstancesAssumption ==
    /\ Races!AppendAssumption
    /\ Recreated!AppendAssumption
    /\ Intact!HistoryAssumption
    /\ Pairs!BoundsAssumption /\ Pairs!ConfigsAssumption
    /\ Follow!BoundsAssumption
    /\ Production!BoundsAssumption

-----------------------------------------------------------------------------
PartInit ==
    /\ part \in
        {"races", "recreated", "intact", "damaged", "epochs", "pairs", "reset", "follow",
         "pages", "production", "skills"}
    /\ IF part = "recreated" THEN Recreated!Init ELSE Races!Init
    /\ Intact!Init
    /\ IF part = "epochs" THEN Space!Init ELSE Pairs!Init
    /\ IF part = "reset" THEN Watch!Init ELSE Follow!Init
    /\ Inspect!Init
    /\ Install!Init

PartNext ==
    \/ /\ \/ part = "races" /\ Races!Next
          \/ part = "recreated" /\ Recreated!Next
       /\ UNCHANGED <<part, history, namespace, observer, quarantine, skills>>
    \/ /\ \/ part = "intact" /\ Intact!Next
          \/ part = "damaged" /\ Damaged!Next
       /\ UNCHANGED <<part, vars, namespace, observer, quarantine, skills>>
    \/ /\ \/ part = "epochs" /\ Space!Next
          \/ part = "pairs" /\ Pairs!Next
       /\ UNCHANGED <<part, vars, history, observer, quarantine, skills>>
    \/ /\ \/ part = "reset" /\ Watch!Next
          \/ part = "follow" /\ Follow!Next
       /\ UNCHANGED <<part, vars, history, namespace, quarantine, skills>>
    \/ /\ \/ part = "pages" /\ Inspect!Next
          \/ part = "production" /\ Production!Next
       /\ UNCHANGED <<part, vars, history, namespace, observer, skills>>
    \/ /\ part = "skills" /\ Install!Next
       /\ UNCHANGED <<part, vars, history, namespace, observer, quarantine>>

PartSpec == PartInit /\ [][PartNext]_allVars

-----------------------------------------------------------------------------
\* Whatever was done to the stream, a history that is accepted, audited or not,
\* is a beginning of what was appended, and ends with a whole commit.
AcceptedIsTrue == Intact!AcceptedIsTrue
=============================================================================
