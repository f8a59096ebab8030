----------------------------- MODULE CorrelationHub -----------------------------
(* The tracer's correlations: records that retain raw evidence and a bounded     *)
(* feed of events, observers that write both, subscribers that follow a feed     *)
(* from a cursor, and the removal of records by eviction and by a reset.  An     *)
(* observer or subscriber may hold a record that has left the table meanwhile.   *)
EXTENDS Naturals, Sequences, FiniteSets, SequencesExt, FiniteSetsExt

CONSTANTS
    Corrs,            \* correlation identities
    Modes,            \* operation modes, "dispatch" among them
    Messages,         \* message identities
    Contents,         \* contents a message identity may be observed with
    Oversized,        \* messages whose event exceeds the byte budget of a feed
    Observers,
    Subscribers,
    MaxCorrelations,  \* maximum_correlations
    MaxEvents,        \* maximum_events_per_correlation
    MaxConflicts,     \* MAXIMUM_OBSERVATION_CONFLICTS
    RawBudget,        \* MAXIMUM_RAW_EVIDENCE_BYTES_PER_CAPABILITY, one unit per item
    MaxRecords,       \* bound of the model: records ever registered
    MaxRevision       \* bound of the model: a record's revision when observation stops

HubAssumption ==
    /\ "dispatch" \in Modes
    /\ Oversized \subseteq Messages
    /\ {MaxCorrelations, MaxEvents, MaxConflicts, RawBudget} \subseteq Nat \ {0}

VARIABLES
    recs,     \* the records ever registered, in order
    table,    \* the records in the table: their indexes
    closing,  \* records a reset has removed and not yet closed
    budget,   \* retained raw evidence per mode
    obs,      \* what each observer is doing
    subs      \* what each subscriber is doing

vars == <<recs, table, closing, budget, obs, subs>>

\* The registered command is the first event of a feed.
Registered == <<[id |-> 1, msg |-> 0]>>

\* log (every event appended) is history.
NewRecord(c, mode) ==
    [corr |-> c, mode |-> mode, closed |-> FALSE, next |-> 2, events |-> Registered, evidence |-> {},
     conflicts |-> 0, failures |-> 0, revision |-> 0, subs |-> 0, log |-> Registered]

Idle == [pc |-> "idle", rec |-> 0, msg |-> 0, content |-> 0]

Off == [pc |-> "off", rec |-> 0, after |-> 0, cursor |-> 0, told |-> FALSE, seen |-> <<>>]

Init ==
    /\ recs = <<>> /\ table = {} /\ closing = {}
    /\ budget = [m \in Modes |-> 0]
    /\ obs = [o \in Observers |-> Idle]
    /\ subs = [s \in Subscribers |-> Off]

-----------------------------------------------------------------------------
(* The table. *)

RegisterCommand(c, mode) ==
    /\ Len(recs) < MaxRecords
    /\ \A r \in table : recs[r].corr # c
    /\ Cardinality(table) < MaxCorrelations
    /\ recs' = Append(recs, NewRecord(c, mode))
    /\ table' = table \cup {Len(recs) + 1}
    /\ UNCHANGED <<closing, budget, obs, subs>>

Size(rec) == Cardinality(rec.evidence) + rec.conflicts

Closed(rec) == [rec EXCEPT !.closed = TRUE, !.evidence = {}, !.conflicts = 0, !.failures = 0, !.revision = 0]

\* Every waiting subscriber of record r wakes.
Notified(r) == [s \in Subscribers |-> IF subs[s].rec = r THEN [subs[s] EXCEPT !.told = TRUE] ELSE subs[s]]

\* Fault: subscribers are not woken.
CloseSilently(r) ==
    /\ recs' = [recs EXCEPT ![r] = Closed(recs[r])]
    /\ budget' = [budget EXCEPT ![recs[r].mode] = @ - Size(recs[r])]
    /\ UNCHANGED subs

\* close_locked: evidence is dropped, its share of the budget released, and
\* everyone woken.
CloseLocked(r) ==
    /\ recs' = [recs EXCEPT ![r] = Closed(recs[r])]
    /\ budget' = [budget EXCEPT ![recs[r].mode] = @ - Size(recs[r])]
    /\ subs' = Notified(r)

\* A record without subscribers is removed and closed under its lifecycle lock.
RemoveIfInactive(r) ==
    /\ recs[r].subs = 0
    /\ table' = table \ {r}
    /\ CloseLocked(r)
    /\ UNCHANGED <<closing, obs>>

\* A reset removes every record of another mode at once, then closes them.
RetainDispatchCorrelations ==
    /\ LET removed == {r \in table : recs[r].mode # "dispatch"}
       IN  removed # {} /\ table' = table \ removed /\ closing' = closing \cup removed
    /\ UNCHANGED <<recs, budget, obs, subs>>

Close(r) ==
    /\ r \in closing
    /\ closing' = closing \ {r}
    /\ CloseLocked(r)
    /\ UNCHANGED <<table, obs>>

-----------------------------------------------------------------------------
(* Observers. *)

\* A record is looked up in the table and written to later.
Observe(o, r, m, v) ==
    /\ obs[o].pc = "idle" /\ recs[r].revision < MaxRevision
    /\ obs' = [obs EXCEPT ![o] = [pc |-> "insert", rec |-> r, msg |-> m, content |-> v]]
    /\ UNCHANGED <<recs, table, closing, budget, subs>>

KnownContent(rec, m) == {v \in Contents : <<m, v>> \in rec.evidence}

Fits(mode, more) == budget[mode] + more <= RawBudget

Done(o) == obs' = [obs EXCEPT ![o] = Idle]

\* A new message is retained if the budget holds it, and goes on to the feed; a
\* repeated one ends here; one with other content is retained as a conflict, the
\* oldest conflict making room.
InsertMessage(o) ==
    LET r == obs[o].rec
        rec == recs[r]
        m == obs[o].msg
        known == KnownContent(rec, m)
    IN  /\ obs[o].pc = "insert"
        /\ \/ /\ rec.closed \/ known = {obs[o].content}
              /\ Done(o)
              /\ UNCHANGED <<recs, budget>>
           \/ /\ ~rec.closed /\ known = {}
              /\ IF Fits(rec.mode, 1)
                 THEN /\ recs' = [recs EXCEPT ![r].evidence = @ \cup {<<m, obs[o].content>>},
                                              ![r].revision = @ + 1]
                      /\ budget' = [budget EXCEPT ![rec.mode] = @ + 1]
                      /\ obs' = [obs EXCEPT ![o].pc = "append"]
                 ELSE Done(o) /\ UNCHANGED <<recs, budget>>
           \/ /\ ~rec.closed /\ known \notin {{}, {obs[o].content}}
              /\ LET more == IF rec.conflicts < MaxConflicts THEN 1 ELSE 0
                 IN  IF Fits(rec.mode, more)
                     THEN /\ recs' = [recs EXCEPT ![r].conflicts = @ + more, ![r].revision = @ + 1]
                          /\ budget' = [budget EXCEPT ![rec.mode] = @ + more]
                     ELSE UNCHANGED <<recs, budget>>
              /\ Done(o)
        /\ UNCHANGED <<table, closing, subs>>

\* The newest events that fit the feed.
Retained(events) == IF Len(events) > MaxEvents THEN Tail(events) ELSE events

\* An event takes the next number even when it turns out too large to retain.
AppendEvent(o) ==
    LET r == obs[o].rec
        event == [id |-> recs[r].next, msg |-> obs[o].msg]
    IN  /\ obs[o].pc = "append"
        /\ \/ recs[r].closed /\ Done(o) /\ UNCHANGED recs
           \/ /\ ~recs[r].closed
              /\ IF event.msg \in Oversized
                 THEN recs' = [recs EXCEPT ![r].next = @ + 1] /\ Done(o)
                 ELSE /\ recs' = [recs EXCEPT ![r].next = @ + 1,
                                              ![r].events = Retained(Append(@, event)),
                                              ![r].log = Append(@, event)]
                      /\ obs' = [obs EXCEPT ![o].pc = "notify"]
        /\ UNCHANGED <<table, closing, budget, subs>>

\* The notification follows the append, after the lock is released.
Notify(o) ==
    /\ obs[o].pc = "notify"
    /\ subs' = Notified(obs[o].rec)
    /\ Done(o)
    /\ UNCHANGED <<recs, table, closing, budget>>

\* An observation that could not be made is counted against the record.
RecordFailure(r) ==
    /\ ~recs[r].closed /\ recs[r].revision < MaxRevision
    /\ recs' = [recs EXCEPT ![r].failures = @ + 1, ![r].revision = @ + 1]
    /\ UNCHANGED <<table, closing, budget, obs, subs>>

-----------------------------------------------------------------------------
(* Subscribers. *)

LookUp(s, r) ==
    /\ subs[s].pc = "off"
    /\ subs' = [subs EXCEPT ![s] = [Off EXCEPT !.pc = "attach", !.rec = r]]
    /\ UNCHANGED <<recs, table, closing, budget, obs>>

Latest(rec) == rec.next - 1

Oldest(rec) == IF rec.events = <<>> THEN rec.next ELSE rec.events[1].id

\* Refused when the record has closed meanwhile, or when the cursor is ahead of
\* the feed or behind what it retains; otherwise the record is pinned.
Attach(s, after) ==
    LET r == subs[s].rec
        refused == recs[r].closed \/ after > Latest(recs[r]) \/ after + 1 < Oldest(recs[r])
    IN  /\ subs[s].pc = "attach"
        /\ subs' = [subs EXCEPT ![s] = IF refused THEN Off
                                       ELSE [@ EXCEPT !.pc = "check", !.after = after, !.cursor = after,
                                                      !.told = FALSE]]
        /\ recs' = IF refused THEN recs ELSE [recs EXCEPT ![r].subs = @ + 1]
        /\ UNCHANGED <<table, closing, budget, obs>>

Lagged(rec, cursor) == rec.events # <<>> /\ cursor + 1 < rec.events[1].id

\* The next event, the end of a closed or lagged feed, or a wait.
Check(s) ==
    LET rec == recs[subs[s].rec]
        later == SelectSeq(rec.events, LAMBDA e : e.id > subs[s].cursor)
    IN  /\ subs[s].pc = "check"
        /\ subs' = [subs EXCEPT ![s] =
               IF Lagged(rec, @.cursor) \/ (later = <<>> /\ rec.closed) THEN [@ EXCEPT !.pc = "ended"]
               ELSE IF later = <<>> THEN [@ EXCEPT !.pc = "wait"]
               ELSE [@ EXCEPT !.cursor = later[1].id, !.seen = Append(@, later[1])]]
        /\ UNCHANGED <<recs, table, closing, budget, obs>>

Wake(s) ==
    /\ subs[s].pc = "wait" /\ subs[s].told
    /\ subs' = [subs EXCEPT ![s].pc = "check", ![s].told = FALSE]
    /\ UNCHANGED <<recs, table, closing, budget, obs>>

\* A subscription is dropped, and no longer pins its record.
Unsubscribe(s) ==
    /\ subs[s].pc \in {"check", "wait", "ended"}
    /\ recs' = [recs EXCEPT ![subs[s].rec].subs = @ - 1]
    /\ subs' = [subs EXCEPT ![s] = Off]
    /\ UNCHANGED <<table, closing, budget, obs>>

Next ==
    \/ \E c \in Corrs, mode \in Modes : RegisterCommand(c, mode)
    \/ \E r \in table : RemoveIfInactive(r)
    \/ RetainDispatchCorrelations
    \/ \E r \in closing : Close(r)
    \/ \E o \in Observers, r \in table, m \in Messages, v \in Contents : Observe(o, r, m, v)
    \/ \E o \in Observers : InsertMessage(o) \/ AppendEvent(o) \/ Notify(o)
    \/ \E r \in table : RecordFailure(r)
    \/ \E s \in Subscribers, r \in table : LookUp(s, r)
    \/ \E s \in Subscribers, after \in 0..(Cardinality(Messages) + 2) : Attach(s, after)
    \/ \E s \in Subscribers : Check(s) \/ Wake(s) \/ Unsubscribe(s)

Spec == Init /\ [][Next]_vars

\* Observers and subscribers that have begun go on, and a reset closes what it removed.
Fairness ==
    /\ \A o \in Observers : WF_vars(InsertMessage(o) \/ AppendEvent(o) \/ Notify(o))
    /\ \A s \in Subscribers : WF_vars(Check(s)) /\ WF_vars(Wake(s))
    /\ \A r \in 1..MaxRecords : WF_vars(Close(r))

FairSpec == Spec /\ Fairness

-----------------------------------------------------------------------------
(* Properties. *)

Live(r) == ~recs[r].closed

\* A subscriber that waits although an event is there for it, or although its
\* record is closed, does not wait forever: no notification is lost.
NobodyWaitsForever ==
    \A s \in Subscribers :
        LET rec == recs[subs[s].rec]
        IN  [](subs[s].pc = "wait" /\ (rec.closed \/ \E i \in 1..Len(rec.log) : rec.log[i].id > subs[s].cursor)
               => <>(subs[s].pc # "wait"))
===============================================================================
