--------------------------- MODULE FixtureApplication ---------------------------
(* Applying fixtures: a fixture is a causal series of domain events over several *)
(* streams.  It is validated, planned with identities derived from its content,  *)
(* compared with what every stream already holds, and appended event by event;   *)
(* the streams are not written atomically.  Appliers run at once, are cut off,   *)
(* lose answers and try again, and the application writes to the same streams.   *)
EXTENDS Naturals, Sequences, FiniteSets

CONSTANTS
    Streams,
    Fixtures,     \* documents: [id, revision, messages], valid or not
    Appliers,
    MaxRuns,      \* bound of the model: applications an applier begins afresh
    MaxFaults,    \* bound of the model: failures, lost answers and cut-offs
    MaxForeign    \* bound of the model: events of the application itself

BoundsAssumption == {MaxRuns, MaxFaults, MaxForeign} \subseteq Nat

\* A document is a finite series of messages for the streams there are.
FixturesAssumption ==
    \A f \in Fixtures :
        Len(f.messages) \in Nat /\ \A i \in 1..Len(f.messages) : f.messages[i].stream \in Streams

VARIABLES
    store,     \* each stream's events
    run,       \* each applier's application
    runs,      \* applications begun, other than again after an error of the store
    foreign, faults

vars == <<store, run, runs, foreign, faults>>

Least(a, b) == IF a <= b THEN a ELSE b

-----------------------------------------------------------------------------
(* Documents.  A message is [id, corr, cause, stream, version, payload]. *)

Causes(f, m) == {i \in 1..Len(f.messages) : f.messages[i].id = m.cause}

\* validate_topology and validate_parent_order; an order of this kind has no cycle.
ValidCauses(f) ==
    \A i \in 1..Len(f.messages) : LET m == f.messages[i] IN m.cause # "none" =>
        \E k \in Causes(f, m) : k < i /\ f.messages[k].corr = m.corr

\* validate_stream_versions.
ValidVersions(f) ==
    \A i \in 1..Len(f.messages) :
        f.messages[i].version =
            1 + Cardinality({k \in 1..(i - 1) : f.messages[k].stream = f.messages[i].stream})

Valid(f) == ValidCauses(f) /\ ValidVersions(f)

\* message_fingerprint, and the operation, commit and event identities that follow
\* from it: the fixture, its revision and the message as it was written.
Operation(f, m) == [fixture |-> f.id, revision |-> f.revision, message |-> m]

\* The recorded event of message i, with its parent's derived identity as its cause.
Recorded(f, i) ==
    LET m == f.messages[i]
    IN [id |-> Operation(f, m), version |-> m.version,
        cause |-> {Operation(f, f.messages[k]) : k \in Causes(f, m)}]

PlannedEvent(f, i) ==
    [stream |-> f.messages[i].stream, event |-> Recorded(f, i),
     ordinal |-> Cardinality({k \in 1..(i - 1) : f.messages[k].stream = f.messages[i].stream})]

\* build_plan: in the order of the document.
Plan(f) == [i \in 1..Len(f.messages) |-> PlannedEvent(f, i)]

\* Where in the plan the events of one stream are; their ordinals give their order.
Planned(plan, s) == {i \in 1..Len(plan) : plan[i].stream = s}

-----------------------------------------------------------------------------
Idle == [pc |-> "idle", result |-> "none"]

Init ==
    /\ store = [s \in Streams |-> << >>]
    /\ run = [p \in Appliers |-> Idle]
    /\ runs = [p \in Appliers |-> 0]
    /\ foreign = 0 /\ faults = 0

Fails == faults < MaxFaults /\ faults' = faults + 1

\* An application ends with a report or an error.
Ended(r, result) == [r EXCEPT !.pc = "idle", !.result = result]
End(p, result) == run' = [run EXCEPT ![p] = Ended(@, result)]

\* MessageSeriesEngine::apply begins: nothing is read or written before the document
\* and its plan are found valid.
Begin(p, f) ==
    /\ run[p].pc = "idle"
    /\ IF run[p].result = "store" THEN UNCHANGED runs
       ELSE runs[p] < MaxRuns /\ runs' = [runs EXCEPT ![p] = @ + 1]
    /\ run' = [run EXCEPT ![p] =
          IF Valid(f)
          THEN [pc |-> "load", fixture |-> f, plan |-> Plan(f), result |-> "none",
                todo |-> {f.messages[i].stream : i \in 1..Len(f.messages)},
                prefix |-> [s \in Streams |-> 0], next |-> 1,
                applied |-> 0, reused |-> 0]
          ELSE [pc |-> "idle", result |-> "invalid"]]
    /\ UNCHANGED <<store, foreign, faults>>

\* Fault: a stream in use is taken as it is.
AgreesAlways(s, plan) == TRUE

\* As far as both go, a stream holds the planned events.
Agrees(s, plan) ==
    \A i \in Planned(plan, s) :
        plan[i].ordinal < Len(store[s]) => store[s][plan[i].ordinal + 1] = plan[i].event

\* A stream is loaded and compared with its part of the plan.
Load(p, s) ==
    /\ run[p].pc = "load" /\ s \in run[p].todo
    /\ LET shared == Least(Len(store[s]), Cardinality(Planned(run[p].plan, s)))
       IN IF ~Agrees(s, run[p].plan)
          THEN End(p, "conflicting-history")
          ELSE run' = [run EXCEPT ![p].todo = @ \ {s}, ![p].prefix[s] = shared,
                                  ![p].reused = @ + shared]
    /\ UNCHANGED <<store, runs, foreign, faults>>

\* Every stream is compared before the first event is appended.
Compared(r) == r.todo = {}

Preflighted(p) ==
    /\ run[p].pc = "load" /\ Compared(run[p])
    /\ run' = [run EXCEPT ![p].pc = "append"]
    /\ UNCHANGED <<store, runs, foreign, faults>>

\* The next event of the plan was found in its stream.
Skipped(r) == r.plan[r.next].ordinal < r.prefix[r.plan[r.next].stream]

Skip(p) ==
    /\ run[p].pc = "append" /\ run[p].next <= Len(run[p].plan) /\ Skipped(run[p])
    /\ run' = [run EXCEPT ![p].next = @ + 1]
    /\ UNCHANGED <<store, runs, foreign, faults>>

\* The event store's append of one event: an exact replay answers with what is stored,
\* another event under the operation or another version is refused.
Replayed(s, e) == \E i \in 1..Len(store[s]) : store[s][i] = e
Claimed(s, e) == \E i \in 1..Len(store[s]) : store[s][i].id = e.id
Fits(s, e) == Len(store[s]) = e.version - 1

AppendNext(p) ==
    /\ run[p].pc = "append" /\ run[p].next <= Len(run[p].plan) /\ ~Skipped(run[p])
    /\ LET s == run[p].plan[run[p].next].stream
           e == run[p].plan[run[p].next].event
       IN \/ /\ Replayed(s, e)
             /\ run' = [run EXCEPT ![p].next = @ + 1, ![p].reused = @ + 1]
             /\ UNCHANGED <<store, faults>>
          \/ /\ ~Claimed(s, e) /\ Fits(s, e)
             /\ store' = [store EXCEPT ![s] = Append(@, e)]
             /\ run' = [run EXCEPT ![p].next = @ + 1, ![p].applied = @ + 1]
             /\ UNCHANGED faults
          \/ /\ ~Replayed(s, e) /\ (Claimed(s, e) \/ ~Fits(s, e))
             /\ End(p, "store")
             /\ UNCHANGED <<store, faults>>
          \/ /\ ~Claimed(s, e) /\ Fits(s, e) /\ Fails   \* stored, and the answer lost
             /\ store' = [store EXCEPT ![s] = Append(@, e)]
             /\ run' = [run EXCEPT ![p] = Ended(@, "store")]
    /\ UNCHANGED <<runs, foreign>>

Report(p) ==
    /\ run[p].pc = "append" /\ run[p].next > Len(run[p].plan)
    /\ End(p, "report")
    /\ UNCHANGED <<store, runs, foreign, faults>>

\* The store fails, or the application is cut off, wherever it is.
CutOff(p) ==
    /\ run[p].pc # "idle" /\ Fails
    /\ End(p, "store")
    /\ UNCHANGED <<store, runs, foreign>>

\* A command of the application appends to a stream.
Foreign(s) ==
    /\ foreign < MaxForeign
    /\ foreign' = foreign + 1
    /\ store' = [store EXCEPT ![s] = Append(@, [id |-> [foreign |-> foreign], version |-> Len(@) + 1, cause |-> {}])]
    /\ UNCHANGED <<run, runs, faults>>

-----------------------------------------------------------------------------
Step(p) == (\E s \in Streams : Load(p, s)) \/ Preflighted(p) \/ Skip(p) \/ AppendNext(p) \/ Report(p)

Next ==
    \/ \E p \in Appliers : (\E f \in Fixtures : Begin(p, f)) \/ Step(p) \/ CutOff(p)
    \/ \E s \in Streams : Foreign(s)

Spec == Init /\ [][Next]_vars

-----------------------------------------------------------------------------
(* Properties. *)

\* The version that event i of the plan has in its stream.
Place(plan, i) == 1 + Cardinality({k \in 1..(i - 1) : plan[k].stream = plan[i].stream})

\* A report is true when it is given and stays so: every stream begins with the
\* fixture's events, all of them, and each was counted once, as applied or as reused.
ReportIsTrue ==
    \A p \in Appliers : run[p].result = "report" =>
        LET plan == run[p].plan
        IN  /\ run[p].applied + run[p].reused = Len(plan)
            /\ \A i \in 1..Len(plan) :
                  LET held == store[plan[i].stream]
                      n == Place(plan, i)
                  IN  n <= Len(held) /\ held[n] = plan[i].event
================================================================================
