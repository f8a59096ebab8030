------------------------------- MODULE NatsHost -------------------------------
(* The lifecycle of one runtime and the application that supervises it: workers *)
(* started, stopped and watched, submissions admitted through a fair gate, the   *)
(* Test scope reset stream by stream, and a shutdown that may overlap any of it. *)
EXTENDS Naturals, Sequences, FiniteSets

CONSTANTS
    Callers,    \* concurrent invocations of the scoped transport
    Admins,     \* tasks that call the runtime's administrative operations
    Ops,        \* operations they may choose
    Fixtures,   \* fixtures; each stands for the events it generates
    Events,     \* events of the application's own commands
    MaxStarts,  \* bound of the model: groups of workers ever started
    MaxOps      \* bound of the model: administrative calls

None == "none"
Host == "host"
Tasks == Admins \cup {Host}
Kinds == {"commands", "events"}
Groups == 1..MaxStarts
Booting == {"boot", "observe", "undoing"}   \* stages in which the runtime is not yet handed out

HostAssumption ==
    /\ MaxStarts \in Nat \ {0}
    /\ Host \notin Admins /\ None \notin Tasks /\ Callers \cap Tasks = {}
    /\ Fixtures \cap Events = {}
    /\ Ops \subseteq {"start", "attach", "stop", "reset", "apply"}

VARIABLES
    queue,          \* the gate's waiters, in order
    readers,        \* invocations that hold the gate
    writer,         \* the task that holds it exclusively
    available, shuttingDown, resetRequired,
    incarnation,    \* of the streams; 0 while they are deleted
    created,        \* how often they were created
    backend,        \* the incarnation the current backend is connected to
    journal,        \* what is stored there and not acknowledged by the worker of events
    suppressed,     \* fixture_events
    state,          \* of every worker, by group and kind
    holding,        \* the event a worker found to publish
    started,        \* how many groups were started
    owned,          \* workers
    task,           \* administrative calls
    calls,          \* how many were made
    caller,         \* invocations
    stage,          \* of the application
    watcher,        \* wait_for_worker_exit
    published       \* what was published as an integration event (history)

gate == <<queue, readers, writer>>
flags == <<available, shuttingDown, resetRequired>>
broker == <<incarnation, created, journal, published>>
group == <<state, holding, started, owned>>
app == <<stage, watcher>>
vars == <<gate, flags, broker, backend, suppressed, group, task, calls, caller, app>>

Idle == [op |-> None, pc |-> "idle", fixture |-> None, joining |-> {}, ok |-> TRUE]

Init ==
    /\ queue = <<>> /\ readers = {} /\ writer = None
    /\ available = FALSE /\ shuttingDown = FALSE /\ resetRequired = FALSE
    /\ incarnation = 1 /\ created = 1 /\ backend = 1 /\ journal = {} /\ suppressed = {} /\ published = {}
    /\ state = [w \in Groups \X Kinds |-> "none"] /\ holding = [w \in Groups \X Kinds |-> None]
    /\ started = 0 /\ owned = {}
    /\ task = [t \in Tasks |-> Idle] /\ calls = 0
    /\ caller = [c \in Callers |-> [pc |-> "idle", on |-> 0]]
    /\ stage = "boot" /\ watcher = "idle"

-----------------------------------------------------------------------------
(* The gate: a fair lock of readers and writers. *)

Grant ==
    /\ queue # <<>> /\ writer = None
    /\ LET next == Head(queue)
       IN  \/ next \in Callers /\ readers' = readers \cup {next} /\ UNCHANGED writer
           \/ next \in Tasks /\ readers = {} /\ writer' = next /\ UNCHANGED readers
    /\ queue' = Tail(queue)
    /\ UNCHANGED <<flags, broker, backend, suppressed, group, task, calls, caller, app>>

Without(s, x) == SelectSeq(s, LAMBDA y : y # x)

\* A task lets go of the gate, or of its place in the queue.
Release(t) ==
    /\ queue' = Without(queue, t) /\ readers' = readers \ {t}
    /\ writer' = IF writer = t THEN None ELSE writer

-----------------------------------------------------------------------------
(* Submissions. *)

Admitted == available /\ ~shuttingDown

Answer(c, pc) == caller' = [caller EXCEPT ![c] = [pc |-> pc, on |-> 0]]

\* The first check refuses at once while a teardown waits for the gate.
Invoke(c) ==
    /\ stage \notin Booting /\ caller[c].pc = "idle"
    /\ IF Admitted THEN Answer(c, "gate") /\ queue' = Append(queue, c)
       ELSE Answer(c, "done") /\ UNCHANGED queue
    /\ UNCHANGED <<readers, writer, flags, broker, backend, suppressed, group, task, calls, app>>

\* Fault: the second check is left out.
BeginUnchecked(c) ==
    /\ caller[c].pc = "gate" /\ c \in readers
    /\ caller' = [caller EXCEPT ![c] = [pc |-> "running", on |-> backend]]
    /\ UNCHANGED <<gate, flags, broker, backend, suppressed, group, task, calls, app>>

\* With the gate: the second check, then the backend of this moment.
Begin(c) ==
    /\ caller[c].pc = "gate" /\ c \in readers
    /\ IF Admitted THEN caller' = [caller EXCEPT ![c] = [pc |-> "running", on |-> backend]] /\ UNCHANGED gate
       ELSE Answer(c, "done") /\ Release(c)
    /\ UNCHANGED <<flags, broker, backend, suppressed, group, task, calls, app>>

\* The invocation ends: its receipt, its error, its timeout or its cancellation.
End(c) ==
    /\ caller[c].pc = "running" \/ caller[c].pc = "gate"
    /\ Answer(c, "done") /\ Release(c)
    /\ UNCHANGED <<flags, broker, backend, suppressed, group, task, calls, app>>

-----------------------------------------------------------------------------
(* Administrative operations. *)

Pc(t, pc) == task[t].pc = pc

Goto(t, pc) == task' = [task EXCEPT ![t].pc = pc]

Finish(t, ok) == task' = [task EXCEPT ![t] = [Idle EXCEPT !.pc = "done", !.ok = ok]] /\ Release(t)

\* An operation waits for the gate; stop_workers closes the runtime before that.
Request(t, op, fixture) ==
    /\ task[t].pc \in {"idle", "done"} /\ (op \in {"reset", "apply"} <=> fixture # None)
    /\ task' = [task EXCEPT ![t] = [Idle EXCEPT !.op = op, !.pc = "gate", !.fixture = fixture]]
    /\ queue' = Append(queue, t)
    /\ available' = (available /\ op # "stop")

Call(t, op, fixture) ==
    /\ stage \notin Booting /\ calls < MaxOps /\ calls' = calls + 1
    /\ Request(t, op, fixture)
    /\ UNCHANGED <<readers, writer, shuttingDown, resetRequired, broker, backend, suppressed, group, caller, app>>

\* With the gate: start_workers, attach_observer, stop_workers, reset_scope, apply_fixture.
Enter(t) ==
    /\ Pc(t, "gate") /\ writer = t
    /\ LET op == task[t].op
       IN  IF op \in {"start", "attach"} /\ resetRequired
           THEN Finish(t, FALSE) /\ UNCHANGED resetRequired
           ELSE /\ Goto(t, IF op = "apply" THEN "extend" ELSE IF op = "start" THEN "check" ELSE "close")
                /\ resetRequired' = (resetRequired \/ op = "reset")
                /\ UNCHANGED gate
    /\ UNCHANGED <<available, shuttingDown, broker, backend, suppressed, group, calls, caller, app>>

Aborted == [w \in DOMAIN state |-> IF w \in owned /\ state[w] = "running" THEN "aborting" ELSE state[w]]

\* stop_in_scope: closed, then the workers are taken and aborted, then awaited.
Close(t) ==
    /\ Pc(t, "close") /\ Goto(t, "take")
    /\ available' = FALSE
    /\ UNCHANGED <<gate, shuttingDown, resetRequired, broker, backend, suppressed, group, calls, caller, app>>

Take(t) ==
    /\ Pc(t, "take") /\ task' = [task EXCEPT ![t].pc = "join", ![t].joining = owned]
    /\ state' = Aborted /\ owned' = {}
    /\ UNCHANGED <<gate, flags, broker, backend, suppressed, holding, started, calls, caller, app>>

Finished(w) == state[w] \in {"exited", "ended"}

Join(t) ==
    /\ Pc(t, "join") /\ \A w \in task[t].joining : Finished(w)
    /\ CASE task[t].op = "stop" -> Finish(t, TRUE)
         [] task[t].op = "attach" -> Goto(t, "check") /\ UNCHANGED gate
         [] task[t].op = "reset" -> Goto(t, "clear") /\ UNCHANGED gate
    /\ UNCHANGED <<flags, broker, backend, suppressed, group, calls, caller, app>>

-----------------------------------------------------------------------------
(* reset_scope, from the stopped runtime on. *)

Clear(t) ==
    /\ Pc(t, "clear") /\ Goto(t, "delete")
    /\ suppressed' = {}
    /\ UNCHANGED <<gate, flags, broker, backend, group, calls, caller, app>>

Delete(t) ==
    /\ Pc(t, "delete") /\ Goto(t, "provision")
    /\ incarnation' = 0 /\ journal' = {}
    /\ UNCHANGED <<gate, flags, created, published, backend, suppressed, group, calls, caller, app>>

Provision(t) ==
    /\ Pc(t, "provision") /\ Goto(t, "replace")
    /\ incarnation' = created + 1 /\ created' = created + 1
    /\ UNCHANGED <<gate, flags, journal, published, backend, suppressed, group, calls, caller, app>>

\* The store is connected and the backend replaced.
Replace(t) ==
    /\ Pc(t, "replace") /\ Goto(t, "extend")
    /\ backend' = incarnation
    /\ UNCHANGED <<gate, flags, broker, suppressed, group, calls, caller, app>>

\* apply_fixture_in_scope: the events are listed first, under the set's lock.
Extend(t) ==
    /\ Pc(t, "extend") /\ Goto(t, "apply")
    /\ suppressed' = suppressed \cup {task[t].fixture}
    /\ UNCHANGED <<gate, flags, broker, backend, group, calls, caller, app>>

Listing == \E t \in Tasks : Pc(t, "apply")

Stored(t) == journal' = IF incarnation = backend /\ incarnation # 0 THEN journal \cup {task[t].fixture} ELSE journal

Apply(t) ==
    /\ Pc(t, "apply") /\ incarnation = backend /\ incarnation # 0
    /\ Stored(t)
    /\ IF task[t].op = "reset" THEN Goto(t, "check") /\ UNCHANGED gate ELSE Finish(t, TRUE)
    /\ UNCHANGED <<flags, incarnation, created, published, backend, suppressed, group, calls, caller, app>>

\* The fixture is stored in part, or stored and not acknowledged.
ApplyFails(t) ==
    /\ Pc(t, "apply")
    /\ Stored(t) /\ Finish(t, FALSE)
    /\ UNCHANGED <<flags, incarnation, created, published, backend, suppressed, group, calls, caller, app>>

-----------------------------------------------------------------------------
(* start_in_scope. *)

\* The guard at the entry, then the workers' lock and what is already listed there.
Check(t) ==
    /\ Pc(t, "check")
    /\ IF shuttingDown THEN Finish(t, FALSE)
       ELSE IF owned # {} THEN Finish(t, \A w \in owned : ~Finished(w))
       ELSE Goto(t, "prepare") /\ UNCHANGED gate
    /\ UNCHANGED <<flags, broker, backend, suppressed, group, calls, caller, app>>

\* Every worker is prepared and verified before any is spawned.
Spawn(t) ==
    /\ Pc(t, "prepare") /\ incarnation # 0 /\ started < MaxStarts
    /\ LET new == {started + 1} \X Kinds
       IN  /\ owned' = new
           /\ state' = [w \in DOMAIN state |-> IF w \in new THEN "running" ELSE state[w]]
    /\ started' = started + 1 /\ available' = TRUE
    /\ IF task[t].op = "reset" THEN Goto(t, "flag") /\ UNCHANGED gate ELSE Finish(t, TRUE)
    /\ UNCHANGED <<shuttingDown, resetRequired, broker, backend, suppressed, holding, calls, caller, app>>

Flag(t) ==
    /\ Pc(t, "flag") /\ Finish(t, TRUE)
    /\ resetRequired' = FALSE
    /\ UNCHANGED <<available, shuttingDown, broker, backend, suppressed, group, calls, caller, app>>

\* A request to the broker fails, or the caller drops the operation at an await.
Fail(t) ==
    /\ task[t].pc \in {"delete", "provision", "replace", "prepare"} \/ (t # Host /\ task[t].pc \in {"gate", "join"})
    /\ Finish(t, FALSE)
    /\ UNCHANGED <<flags, broker, backend, suppressed, group, calls, caller, app>>

-----------------------------------------------------------------------------
(* Workers. *)

Exit(w) ==
    /\ state[w] = "running"
    /\ state' = [state EXCEPT ![w] = "exited"] /\ holding' = [holding EXCEPT ![w] = None]
    /\ UNCHANGED <<gate, flags, broker, backend, suppressed, started, owned, task, calls, caller, app>>

AbortEnds(w) ==
    /\ state[w] = "aborting"
    /\ state' = [state EXCEPT ![w] = "ended"] /\ holding' = [holding EXCEPT ![w] = None]
    /\ UNCHANGED <<gate, flags, broker, backend, suppressed, started, owned, task, calls, caller, app>>

\* The worker of commands commits an event.
Commit(w, e) ==
    /\ w[2] = "commands" /\ state[w] = "running" /\ incarnation = backend /\ e \notin published \cup journal
    /\ journal' = journal \cup {e}
    /\ UNCHANGED <<gate, flags, incarnation, created, published, backend, suppressed, group, task, calls, caller, app>>

\* The domain-event worker takes a delivery and asks the set: listed events are
\* acknowledged, the others go to the dispatcher, which publishes.
Deliver(w, f) ==
    /\ w[2] = "events" /\ state[w] = "running" /\ holding[w] = None /\ f \in journal /\ ~Listing
    /\ IF f \in suppressed THEN journal' = journal \ {f} /\ UNCHANGED holding
       ELSE holding' = [holding EXCEPT ![w] = f] /\ UNCHANGED journal
    /\ UNCHANGED <<gate, flags, incarnation, created, published, backend, suppressed, state, started, owned, task, calls, caller, app>>

Publish(w) ==
    /\ holding[w] # None
    /\ published' = published \cup {holding[w]} /\ journal' = journal \ {holding[w]}
    /\ holding' = [holding EXCEPT ![w] = None]
    /\ UNCHANGED <<gate, flags, incarnation, created, backend, suppressed, state, started, owned, task, calls, caller, app>>

-----------------------------------------------------------------------------
(* The application. *)

Preparing == \E t \in Tasks : Pc(t, "prepare")

\* start: a reset to the default fixture or a plain start, then the observer of a
\* tracer, if there is one.
Boot(op, fixture) ==
    /\ stage = "boot" /\ Pc(Host, "idle")
    /\ Request(Host, op, fixture)
    /\ UNCHANGED <<readers, writer, shuttingDown, resetRequired, broker, backend, suppressed, group, calls, caller, app>>

Booted ==
    /\ stage \in {"boot", "observe"} /\ Pc(Host, "done")
    /\ IF ~task[Host].ok THEN stage' = "undoing" /\ Request(Host, "stop", None) /\ UNCHANGED watcher
       ELSE \/ stage = "boot" /\ stage' = "observe" /\ Request(Host, "attach", None) /\ UNCHANGED watcher
            \/ stage' = "supervise" /\ watcher' = "watching" /\ UNCHANGED <<task, queue, available>>
    /\ UNCHANGED <<readers, writer, shuttingDown, resetRequired, broker, backend, suppressed, group, calls, caller>>

\* wait_for_worker_exit: a finished worker is removed under the workers' lock ...
Reap(w) ==
    /\ watcher = "watching" /\ ~Preparing
    /\ w \in owned /\ Finished(w)
    /\ owned' = owned \ {w} /\ watcher' = IF state[w] = "exited" THEN "exited" ELSE "ended"
    /\ UNCHANGED <<gate, flags, broker, backend, suppressed, state, holding, started, task, calls, caller, stage>>

\* ... and the runtime closed after it.
Report ==
    /\ watcher \in {"exited", "ended"} /\ stage = "supervise"
    /\ watcher' = "reported" /\ available' = FALSE
    /\ UNCHANGED <<gate, shuttingDown, resetRequired, broker, backend, suppressed, group, task, calls, caller, stage>>

\* The owner asks for the shutdown, or the supervisor finds a task of its own ended.
BeginShutdown ==
    /\ stage = "supervise"
    /\ stage' = "draining" /\ shuttingDown' = TRUE /\ available' = FALSE
    /\ UNCHANGED <<gate, resetRequired, broker, backend, suppressed, group, task, calls, caller, watcher>>

\* The HTTP and watching tasks are stopped, then the workers.
Drain ==
    /\ stage = "draining" /\ stage' = "stopping" /\ watcher' = "idle"
    /\ Request(Host, "stop", None)
    /\ UNCHANGED <<readers, writer, shuttingDown, resetRequired, broker, backend, suppressed, group, calls, caller>>

\* The application is dropped with its runtime.
Ended ==
    /\ stage \in {"undoing", "stopping"} /\ Pc(Host, "done")
    /\ stage' = "ended" /\ shuttingDown' = TRUE /\ available' = FALSE
    /\ UNCHANGED <<gate, resetRequired, broker, backend, suppressed, group, task, calls, caller, watcher>>

TaskStep(t) ==
    \/ Enter(t) \/ Close(t) \/ Take(t) \/ Join(t)
    \/ Clear(t) \/ Delete(t) \/ Provision(t) \/ Replace(t) \/ Extend(t) \/ Apply(t)
    \/ Check(t) \/ Spawn(t) \/ Flag(t)

Work(w) == Exit(w) \/ Publish(w) \/ AbortEnds(w) \/ Reap(w) \/ (\E e \in Fixtures \cup Events : Deliver(w, e)) \/ \E e \in Events : Commit(w, e)

Next ==
    \/ Grant
    \/ \E c \in Callers : Invoke(c) \/ Begin(c) \/ End(c)
    \/ \E t \in Admins, op \in Ops, f \in Fixtures \cup {None} : Call(t, op, f)
    \/ \E t \in Tasks : TaskStep(t) \/ ApplyFails(t) \/ Fail(t)
    \/ \E w \in DOMAIN state : Work(w)
    \/ \E op \in {"start", "reset"}, f \in Fixtures \cup {None} : Boot(op, f)
    \/ Booted \/ Report \/ BeginShutdown \/ Drain \/ Ended

Spec == Init /\ [][Next]_vars

-----------------------------------------------------------------------------
(* Properties. *)

Running(c) == caller[c].pc = "running"

\* An invocation runs only on the streams that exist and were reset completely: no
\* reset deletes them under it, and after a reset that failed or was dropped at any
\* step nothing is submitted until another one succeeds, whatever is started between.
InvokedOnWhole == \A c \in DOMAIN caller : Running(c) => caller[c].on = incarnation /\ ~resetRequired
===============================================================================
