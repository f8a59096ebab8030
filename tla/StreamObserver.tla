----------------------------- MODULE StreamObserver -----------------------------
(* The task that watches an application's event streams for the observation      *)
(* feed, together with the reset that deletes and recreates those streams under  *)
(* it.  A stream may also be recreated by somebody else; the task notices by the *)
(* stream's creation time, before every message it hands on and when it polls.   *)
(* The feed itself is ObservationFeed's; here it is a mode and a set of messages.*)
EXTENDS Naturals, Sequences, FiniteSets

CONSTANTS
    Streams,    \* the domain-event and the integration-event stream
    MaxGen,     \* bound of the model: times a stream is created
    MaxLen,     \* bound of the model: messages of one creation
    MaxFaults   \* bound of the model: outages, errors, cancellations

BoundsAssumption == {MaxGen, MaxLen, MaxFaults} \subseteq Nat

VARIABLES
    exists,    \* whether each stream exists
    stored,    \* messages of each creation of a stream so far
    up,        \* whether the broker can be reached
    task,      \* the observer's task: off, or where it is
    cons,      \* per stream: [gen, next] of the ordered consumer
    source,    \* status the observation source shows
    reset,     \* where a reset is
    held,      \* whether the host still holds the task's handle
    late,      \* messages in the hands of aborted tasks that were not waited for
    mode, window,  \* the feed
    since,     \* history: creations the last successful reset left behind
    loose,     \* history: those of tasks whose handle a cancelled reset dropped
    faults

broker == <<exists, stored, up>>
observer == <<task, cons, source, held, late, loose>>
tasks == <<held, late, loose>>
feed == <<mode, window>>
vars == <<exists, stored, up, task, cons, source, held, late, loose, reset, mode, window,
          since, faults>>

Off == [pc |-> "off"]
Gen(f) == Len(stored[f])
Length(f) == stored[f][Gen(f)]
Message(f, g, n) == [stream |-> f, gen |-> g, number |-> n]

Init ==
    /\ exists = [f \in Streams |-> TRUE]
    /\ stored = [f \in Streams |-> <<0>>]
    /\ up = TRUE
    /\ task = Off
    /\ cons = [f \in Streams |-> [gen |-> 1, next |-> 1]]
    /\ source = "unavailable"
    /\ held = FALSE /\ late = {} /\ loose = {}
    /\ reset = "idle"
    /\ mode = "collecting" /\ window = {}
    /\ since = [f \in Streams |-> 1]
    /\ faults = 0

Fails == faults < MaxFaults /\ faults' = faults + 1
Reached(f) == up /\ exists[f]

-----------------------------------------------------------------------------
(* The streams. *)

Publish(f) ==
    /\ Reached(f)
    /\ Length(f) < MaxLen
    /\ stored' = [stored EXCEPT ![f][Gen(f)] = @ + 1]
    /\ UNCHANGED <<exists, up, observer, reset, feed, since, faults>>

Delete(f) == exists[f] /\ exists' = [exists EXCEPT ![f] = FALSE] /\ UNCHANGED <<stored, up>>
Create(f) ==
    /\ ~exists[f]
    /\ Gen(f) < MaxGen
    /\ exists' = [exists EXCEPT ![f] = TRUE]
    /\ stored' = [stored EXCEPT ![f] = Append(@, 0)]
    /\ UNCHANGED up

\* Somebody else recreates a stream.
Outside(f) ==
    /\ up
    /\ reset = "idle"
    /\ \/ Delete(f) /\ Fails
       \/ Create(f) /\ UNCHANGED faults
    /\ UNCHANGED <<observer, reset, feed, since>>

Outage ==
    /\ up /\ Fails
    /\ up' = FALSE
    /\ UNCHANGED <<exists, stored, observer, reset, feed, since>>

Recover ==
    /\ ~up
    /\ up' = TRUE
    /\ UNCHANGED <<exists, stored, observer, reset, feed, since, faults>>

-----------------------------------------------------------------------------
(* NatsCorrelationObserver::subscribe and NatsCorrelationSubscription::run. *)

\* prepare_observation: both subscriptions, from what is published next on, and
\* only then the source is ready.
Subscribed ==
    /\ \A f \in Streams : Reached(f)
    /\ cons' = [f \in Streams |-> [gen |-> Gen(f), next |-> Length(f) + 1]]
    /\ source' = "live"
    /\ task' = [pc |-> "select", aborted |-> FALSE]
    /\ held' = TRUE

\* The host starts the task outside a reset.
Start ==
    /\ task = Off
    /\ reset = "idle" /\ mode = "collecting"
    /\ Subscribed
    /\ UNCHANGED <<broker, late, loose, reset, feed, since, faults>>

\* An ordered consumer yields the next message: of its own creation of the
\* stream, perhaps fetched before a deletion, or of a later one.
Yields(f) ==
    {Message(f, cons[f].gen, n) : n \in {k \in {cons[f].next} : k <= stored[f][cons[f].gen]}}
    \cup IF cons[f].gen < Gen(f) /\ Reached(f)
         THEN {Message(f, Gen(f), n) : n \in cons[f].next..Length(f)} ELSE {}

Take(f) ==
    /\ task.pc = "select" /\ ~task.aborted
    /\ \E m \in Yields(f) :
          /\ task' = [pc |-> "check", aborted |-> FALSE, message |-> m]
          /\ cons' = IF m.gen = cons[f].gen THEN [cons EXCEPT ![f].next = @ + 1] ELSE cons
    /\ UNCHANGED <<broker, source, tasks, reset, feed, since, faults>>

\* The consumer reports an error instead.
TakeFails(f) ==
    /\ task.pc = "select" /\ ~task.aborted
    /\ Fails
    /\ source' = "unavailable"
    /\ UNCHANGED <<broker, task, cons, tasks, reset, feed, since>>

\* refresh_if_recreated: a replacement is followed from its first message on.
Refreshed(f) == IF cons[f].gen = Gen(f) THEN cons[f] ELSE [gen |-> Gen(f), next |-> 1]

StillCurrent(f) == cons[f].gen = Gen(f)

\* delivery_is_current: a message of a stream that was recreated is dropped; as
\* long as the stream cannot be inspected the task waits.
Check ==
    /\ task.pc = "check" /\ ~task.aborted
    /\ LET f == task.message.stream
       IN IF Reached(f)
          THEN /\ cons' = [cons EXCEPT ![f] = Refreshed(f)]
               /\ task' = IF StillCurrent(f) THEN [task EXCEPT !.pc = "handle"]
                          ELSE [pc |-> "select", aborted |-> FALSE]
               /\ UNCHANGED source
          ELSE /\ source' = "unavailable"
               /\ UNCHANGED <<task, cons>>
    /\ UNCHANGED <<broker, tasks, reset, feed, since, faults>>

\* TracerCorrelationHandler::handle, up to the feed.  Nothing is awaited between the
\* end of the check and the feed, so an abort in between comes too late for it.
Handle ==
    /\ task.pc = "handle"
    /\ window' = IF mode = "collecting" THEN window \cup {task.message} ELSE window
    /\ task' = [pc |-> "select", aborted |-> task.aborted]
    /\ UNCHANGED <<broker, cons, source, tasks, reset, mode, since, faults>>

Available == \A f \in Streams : Reached(f)

\* The generation poll.
Poll ==
    /\ task.pc = "select" /\ ~task.aborted
    /\ cons' = [f \in Streams |-> IF Reached(f) THEN Refreshed(f) ELSE cons[f]]
    /\ source' = IF Available THEN "live" ELSE "unavailable"
    /\ UNCHANGED <<broker, task, tasks, reset, feed, since, faults>>

\* The task returns, panics, or an abort takes effect: the source is dropped.
TaskEnds ==
    /\ task # Off
    /\ \/ task.aborted /\ UNCHANGED faults
       \/ Fails
    /\ task' = Off
    /\ source' = "unavailable"
    /\ UNCHANGED <<broker, cons, tasks, reset, feed, since>>

-----------------------------------------------------------------------------
(* reset_test_scenario and NatsRuntime::reset_scope. *)

ResetStarts ==
    /\ reset = "idle"
    /\ \A f \in Streams : Gen(f) < MaxGen
    /\ reset' = "stop"
    /\ mode' = "resetting" /\ window' = {}
    /\ UNCHANGED <<broker, observer, since, faults>>

\* stop_in_scope: a task whose handle is held is aborted, and then waited for.
ResetAborts ==
    /\ reset = "stop"
    /\ reset' = "wait"
    /\ task' = IF task = Off \/ ~held THEN task ELSE [task EXCEPT !.aborted = TRUE]
    /\ UNCHANGED <<broker, cons, source, tasks, feed, since, faults>>

\* Fault: nobody waits for the aborted task.
StoppedAnyway == TRUE

Stopped == task = Off \/ ~held

ResetDeletes(f) ==
    /\ reset = "wait" /\ Stopped
    /\ up
    /\ Delete(f)
    /\ UNCHANGED <<observer, reset, feed, since, faults>>

ResetProvisions(f) ==
    /\ reset \in {"wait", "provision"} /\ Stopped
    /\ up
    /\ reset = "wait" => \A k \in Streams : ~exists[k]
    /\ Create(f)
    /\ reset' = "provision"
    /\ UNCHANGED <<observer, feed, since, faults>>

\* start_in_scope, after the fixture.  A task nobody waited for may still be there.
ResetObserves ==
    /\ reset = "provision"
    /\ \A f \in Streams : exists[f]
    /\ Subscribed
    /\ LET inHand == IF task.pc = "handle" THEN {task.message} ELSE {}
       IN /\ late' = late \cup inHand
          /\ loose' = IF held THEN loose ELSE loose \cup inHand
    /\ reset' = "finish"
    /\ UNCHANGED <<broker, feed, since, faults>>

\* finish(true) begins a window of its own.
ResetSucceeds ==
    /\ reset = "finish"
    /\ reset' = "idle"
    /\ mode' = "collecting" /\ window' = {}
    /\ since' = [f \in Streams |-> Gen(f)]
    /\ UNCHANGED <<broker, observer, faults>>

\* A step fails or the reset is cancelled: what it began stays, until the next.
\* Cancelled while it waits it forgets the task it was waiting for.
ResetFails ==
    /\ reset # "idle"
    /\ Fails
    /\ reset' = "idle"
    /\ mode' = "failed"
    /\ held' = (held /\ reset # "wait")
    /\ UNCHANGED <<broker, task, cons, source, late, loose, window, since>>

\* A forgotten task finishes the hand-over it was in.
LateHandle ==
    /\ \E m \in late :
          /\ late' = late \ {m}
          /\ window' = IF mode = "collecting" THEN window \cup {m} ELSE window
    /\ UNCHANGED <<broker, task, cons, source, held, loose, reset, mode, since, faults>>

-----------------------------------------------------------------------------
Next ==
    \/ \E f \in Streams :
          \/ Publish(f) \/ Outside(f) \/ Take(f) \/ TakeFails(f)
          \/ ResetDeletes(f) \/ ResetProvisions(f)
    \/ Outage \/ Recover \/ Start \/ Check \/ Handle \/ Poll \/ TaskEnds
    \/ ResetStarts \/ ResetAborts \/ ResetObserves \/ ResetSucceeds \/ ResetFails
    \/ LateHandle

Spec == Init /\ [][Next]_vars

-----------------------------------------------------------------------------
(* Properties. *)

\* After a reset the window holds nothing of the streams it deleted, although
\* the task may have had a message in hand when the reset began; only a task that a
\* cancelled reset had aborted and not waited for can still add the one it held.
NothingFromBefore ==
    mode = "collecting" =>
        \A m \in window : m.gen >= since[m.stream] \/ m \in loose
================================================================================
