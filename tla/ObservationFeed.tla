----------------------------- MODULE ObservationFeed -----------------------------
(* The rolling window of application traffic: named sources that report their    *)
(* health through guards, flows of messages kept within bounds, resets that      *)
(* suspend collection, and subscribers that are shown replacement snapshots.     *)
(* Every operation takes the feed's lock once, so each is one step; a subscriber *)
(* waits, marks the revision as seen and then reads the window.                  *)
EXTENDS Naturals, Sequences, FiniteSets

CONSTANTS
    Names,        \* source names
    Messages,     \* what may be observed: [id, corr, size, valid]
    Contents,     \* contents an identity may arrive with
    Subscribers,
    MaxFlows,     \* MAXIMUM_FLOWS
    MaxMessages,  \* MAXIMUM_FLOW_MESSAGES
    MaxBytes,     \* MAXIMUM_FLOW_BYTES
    MaxSubs,      \* MAXIMUM_SUBSCRIPTIONS
    MaxGuards,    \* bound of the model: identities given out when a source registers
    MaxRevision   \* bound of the model: changes

BoundsAssumption ==
    {MaxFlows, MaxMessages, MaxBytes, MaxSubs, MaxGuards, MaxRevision} \subseteq Nat

VARIABLES
    sources,     \* registered: name -> [identity, status]
    guards,      \* ObservationSource values alive: [name, identity, said]
    flows,       \* oldest change first
    evicted, discarded,
    mode,        \* collecting, resetting or failed
    generation, revision, identity,
    subs         \* each subscriber: closed, or what it saw and was shown

window == <<flows, evicted, discarded>>
vars == <<sources, guards, window, mode, generation, revision, identity, subs>>

Closed == [pc |-> "closed"]

Init ==
    /\ sources = << >> /\ guards = {}
    /\ flows = << >> /\ evicted = 0 /\ discarded = 0
    /\ mode = "collecting" /\ generation = 0 /\ revision = 0 /\ identity = 0
    /\ subs = [s \in Subscribers |-> Closed]

\* notify: the revision and the watch channel change together, under the lock.
Notify == revision < MaxRevision /\ revision' = revision + 1

-----------------------------------------------------------------------------
(* Sources. *)

\* ObservationFeed::source: a name may be taken again once it is unavailable.
Register(n) ==
    /\ identity < MaxGuards
    /\ n \in DOMAIN sources => sources[n].status = "unavailable"
    /\ identity' = identity + 1
    /\ sources' = [k \in DOMAIN sources \cup {n} |->
          IF k = n THEN [identity |-> identity + 1, status |-> "connecting"] ELSE sources[k]]
    /\ guards' = guards \cup {[name |-> n, identity |-> identity + 1, said |-> "connecting"]}
    /\ Notify
    /\ UNCHANGED <<window, mode, generation, subs>>

\* A guard speaks only for the registration it was made for.
Owns(g) == sources[g.name].identity = g.identity

SetStatus(g, v) ==
    IF Owns(g) /\ sources[g.name].status # v
    THEN sources' = [sources EXCEPT ![g.name].status = v] /\ Notify
    ELSE UNCHANGED <<sources, revision>>

\* ready and unavailable.
Report(g, v) ==
    /\ g \in guards
    /\ g.said # v
    /\ guards' = (guards \ {g}) \cup {[g EXCEPT !.said = v]}
    /\ SetStatus(g, v)
    /\ UNCHANGED <<window, mode, generation, identity, subs>>

\* The observer's task ends, is cancelled or panics.
DropGuard(g) ==
    /\ g \in guards
    /\ guards' = guards \ {g}
    /\ SetStatus(g, "unavailable")
    /\ UNCHANGED <<window, mode, generation, identity, subs>>

Some(v) == \E n \in DOMAIN sources : sources[n].status = v

Status ==
    IF mode = "resetting" THEN "resetting"
    ELSE IF mode = "failed" \/ DOMAIN sources = {} \/ Some("unavailable") THEN "unavailable"
    ELSE IF Some("connecting") THEN "connecting" ELSE "live"

-----------------------------------------------------------------------------
(* Messages. *)

Position(c) == {i \in 1..Len(flows) : flows[i].corr = c}
Without(s, i) == SubSeq(s, 1, i - 1) \o SubSeq(s, i + 1, Len(s))

NewFlow(c) ==
    [id |-> <<generation, identity + 1>>, corr |-> c, kept |-> << >>, bytes |-> 0,
     conflicted |-> FALSE, truncated |-> FALSE, revision |-> 0]

\* The flow that changed longest ago makes room for a new one.
Evict(s) == IF Len(s) = MaxFlows THEN Tail(s) ELSE s

Full(f, m) == Cardinality(DOMAIN f.kept) >= MaxMessages \/ f.bytes + m.size > MaxBytes

\* The flow after message m with content v: unchanged by a repetition, marked by
\* another content under the same identity or by a message that does not fit.
Inserted(f, m, v) ==
    IF m.id \in DOMAIN f.kept
    THEN IF f.kept[m.id] = v THEN f ELSE [f EXCEPT !.conflicted = TRUE]
    ELSE IF Full(f, m) THEN [f EXCEPT !.truncated = TRUE]
    ELSE [f EXCEPT !.bytes = @ + m.size,
                   !.kept = [k \in DOMAIN f.kept \cup {m.id} |-> IF k = m.id THEN v ELSE f.kept[k]]]

Repeats(f, m, v) == m.id \in DOMAIN f.kept /\ f.kept[m.id] = v
Lost(f, m, v) == ~Repeats(f, m, v) /\ (m.id \in DOMAIN f.kept \/ Full(f, m))

\* A repetition leaves its flow where it was.
Repeated(others, f, i) == flows' = flows

\* ObservationFeed::observe.
Observe(m, v) ==
    /\ m.valid
    /\ mode = "collecting"
    /\ LET found == Position(m.corr)
           i == IF found = {} THEN 0 ELSE CHOOSE k \in found : TRUE
           f == IF found = {} THEN NewFlow(m.corr) ELSE flows[i]
           others == IF found = {} THEN Evict(flows) ELSE Without(flows, i)
       IN IF Repeats(f, m, v)
          THEN /\ Repeated(others, f, i)
               /\ UNCHANGED <<evicted, discarded, identity, revision>>
          ELSE /\ flows' = Append(others, [Inserted(f, m, v) EXCEPT !.revision = revision + 1])
               /\ evicted' = IF found = {} /\ Len(flows) = MaxFlows THEN evicted + 1 ELSE evicted
               /\ discarded' = IF Lost(f, m, v) THEN discarded + 1 ELSE discarded
               /\ identity' = IF found = {} THEN identity + 1 ELSE identity
               /\ Notify
    /\ UNCHANGED <<sources, guards, mode, generation, subs>>

\* A message that cannot be admitted, or could not be decoded, is only counted.
Discard(m) ==
    /\ ~m.valid
    /\ discarded' = discarded + 1
    /\ Notify
    /\ UNCHANGED <<sources, guards, flows, evicted, mode, generation, identity, subs>>

\* While a reset is under way, or after a failed one, nothing is collected.
Ignored(m) ==
    /\ m.valid
    /\ mode # "collecting"
    /\ UNCHANGED vars

-----------------------------------------------------------------------------
(* Resets. *)

Fresh(to) ==
    /\ mode' = to
    /\ generation' = generation + 1
    /\ flows' = << >> /\ evicted' = 0 /\ discarded' = 0
    /\ Notify

\* reset_guard.
ResetStarts ==
    /\ mode # "resetting"
    /\ Fresh("resetting")
    /\ UNCHANGED <<sources, guards, identity, subs>>

\* finish(true).
ResetSucceeds ==
    /\ mode = "resetting"
    /\ Fresh("collecting")
    /\ UNCHANGED <<sources, guards, identity, subs>>

\* finish(false), or the guard is dropped with the reset.
ResetFails ==
    /\ mode = "resetting"
    /\ mode' = "failed"
    /\ Notify
    /\ UNCHANGED <<sources, guards, window, generation, identity, subs>>

-----------------------------------------------------------------------------
(* Subscribers. *)

Shown == [generation |-> generation, revision |-> revision, status |-> Status,
          evicted |-> evicted, discarded |-> discarded, flows |-> flows]

Open == {s \in Subscribers : subs[s] # Closed}

Subscribe(s) ==
    /\ subs[s] = Closed
    /\ Cardinality(Open) < MaxSubs
    /\ subs' = [subs EXCEPT ![s] = [pc |-> "due", seen |-> 0, shown |-> << >>]]
    /\ UNCHANGED <<sources, guards, window, mode, generation, revision, identity>>

\* Fault: the window is read first and the revision marked as seen afterwards.
FrameReadsFirst(s) ==
    \/ /\ subs[s].pc = "due" \/ (subs[s].pc = "idle" /\ subs[s].seen # revision)
       /\ subs' = [subs EXCEPT ![s].pc = "reading", ![s].shown = Shown]
    \/ /\ subs[s].pc = "reading"
       /\ subs' = [subs EXCEPT ![s].pc = "idle", ![s].seen = revision]

\* next: the first frame is due at once; then the revision is marked as seen and
\* only then the window read.
Frame(s) ==
    \/ /\ subs[s].pc = "due" \/ (subs[s].pc = "idle" /\ subs[s].seen # revision)
       /\ subs' = [subs EXCEPT ![s].pc = "reading", ![s].seen = revision]
    \/ /\ subs[s].pc = "reading"
       /\ subs' = [subs EXCEPT ![s].pc = "idle", ![s].shown = Shown]

NextFrame(s) == Frame(s) /\ UNCHANGED <<sources, guards, window, mode, generation, revision, identity>>

\* Disconnecting gives the permit back.
Unsubscribe(s) ==
    /\ subs[s] # Closed
    /\ subs' = [subs EXCEPT ![s] = Closed]
    /\ UNCHANGED <<sources, guards, window, mode, generation, revision, identity>>

-----------------------------------------------------------------------------
Next ==
    \/ \E n \in Names : Register(n)
    \/ \E g \in guards : Report(g, "live") \/ Report(g, "unavailable") \/ DropGuard(g)
    \/ \E m \in Messages : (\E v \in Contents : Observe(m, v)) \/ Discard(m) \/ Ignored(m)
    \/ ResetStarts \/ ResetSucceeds \/ ResetFails
    \/ \E s \in Subscribers : Subscribe(s) \/ NextFrame(s) \/ Unsubscribe(s)

Spec == Init /\ [][Next]_vars

-----------------------------------------------------------------------------
(* Properties. *)

\* A subscriber with nothing left to be told has been shown the current window.
ToldMeansShown ==
    \A s \in Subscribers :
        subs[s].pc = "idle" /\ subs[s].seen = revision => subs[s].shown = Shown
================================================================================
