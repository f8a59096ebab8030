----------------------------- MODULE StoreNamespace -----------------------------
(* The event store's namespaces on the broker.  A store without an epoch and one  *)
(* with an inline epoch use the same stream; a split store has a journal and a    *)
(* state stream of its own, bound to each other by their creation times.  Several *)
(* processes provision, update and connect; a connected handle looks at the       *)
(* streams again before every write and around every lookup.  Streams are deleted *)
(* and created again, answers are lost and processes crash.                       *)
EXTENDS Naturals, FiniteSets

CONSTANTS
    Configs,     \* [epoch, split, readOnly, size]
    Found,       \* what the shared stream may be before anybody runs
    Actors,
    Operations,
    MaxInc,      \* bound of the model: stream incarnations
    MaxTasks,    \* bound of the model: tasks begun
    MaxFaults    \* bound of the model: crashes and lost answers

BoundsAssumption == {MaxInc, MaxTasks, MaxFaults} \subseteq Nat

VARIABLES
    streams,    \* the broker's streams by name
    clock,      \* the creation time of the newest stream
    actor,      \* each process: its task
    handle,     \* each process: the store it is connected to
    written,    \* history: every entry published
    misses,     \* history: every answer that an operation has no outcome
    tasks, faults

vars == <<streams, clock, actor, handle, written, misses, tasks, faults>>

None == "none"
Absent == [inc |-> 0]
Disconnected == [config |-> None]
Idle == [pc |-> "idle"]

-----------------------------------------------------------------------------
(* Configurations. *)

Name(c) == IF c.split THEN <<"journal", c.epoch>> ELSE <<"events", None>>
StateName(c) == <<"state", c.epoch>>
Names == UNION {{Name(c)} \cup (IF c.split THEN {StateName(c)} ELSE {}) : c \in Configs}

\* stream_config's metadata, and the rest of the policy.
Version(c) == IF c.epoch = None THEN None ELSE IF c.split THEN "2" ELSE "1"
Policy(c) == [epoch |-> c.epoch, version |-> Version(c), subjects |-> "full", size |-> c.size, bind |-> 0]
StatePolicy(c) == [Policy(c) EXCEPT !.subjects = "outcome"]

Exists(n) == streams[n].inc # 0
PolicyOf(s) == [epoch |-> s.epoch, version |-> s.version, subjects |-> s.subjects, size |-> s.size, bind |-> s.bind]
Stream(p, inc) == [epoch |-> p.epoch, version |-> p.version, subjects |-> p.subjects, size |-> p.size, bind |-> p.bind, inc |-> inc]

\* A split store has an epoch; what is found is no stream, or one that was created.
ConfigsAssumption ==
    /\ \A c \in Configs : c.split \in BOOLEAN /\ c.size \in Nat /\ (c.split => c.epoch # None)
    /\ \A s \in Found : \/ s = Absent
                        \/ /\ s = Stream(PolicyOf(s), s.inc)
                           /\ s.size \in Nat /\ s.bind \in Nat /\ s.inc \in Nat \ {0}

\* verify_stream_config: the epoch that is asked for, any other policy exactly, and
\* room for larger messages than were asked for.
Verified(c, s) ==
    /\ c.epoch # None => s.epoch = c.epoch /\ s.version = Version(c)
    /\ s.subjects = "full" /\ s.size >= c.size

\* inspect_split_state: the two streams name each other.
Bound(c, j, s) ==
    /\ PolicyOf(s) = [StatePolicy(c) EXCEPT !.bind = s.bind]
    /\ j.bind = s.inc /\ s.bind = j.inc

-----------------------------------------------------------------------------
Init ==
    /\ \E s \in Found :
          /\ streams = [n \in Names |-> IF n = <<"events", None>> THEN s ELSE Absent]
          /\ clock = s.inc
    /\ actor = [a \in Actors |-> Idle]
    /\ handle = [a \in Actors |-> Disconnected]
    /\ written = {} /\ misses = {}
    /\ tasks = 0 /\ faults = 0

Goto(a, pc) == actor' = [actor EXCEPT ![a].pc = pc]
End(a) == actor' = [actor EXCEPT ![a] = Idle]
Fails == faults < MaxFaults /\ faults' = faults + 1
Broker == <<streams, clock>>
History == <<written, misses>>

Begin(a, task) ==
    /\ actor[a].pc = "idle" /\ tasks < MaxTasks
    /\ tasks' = tasks + 1
    /\ actor' = [actor EXCEPT ![a] = task]
    /\ UNCHANGED <<Broker, handle, History, faults>>

\* create_stream: an equal stream is answered as it is, another one is refused.
Creates(n, p, answer(_), refused) ==
    \/ /\ ~Exists(n) /\ clock < MaxInc
       /\ clock' = clock + 1
       /\ streams' = [streams EXCEPT ![n] = Stream(p, clock + 1)]
       /\ \/ answer(clock + 1) /\ UNCHANGED faults
          \/ refused /\ Fails
    \/ /\ Exists(n) /\ UNCHANGED <<Broker, faults>>
       /\ IF PolicyOf(streams[n]) = p THEN answer(streams[n].inc) ELSE refused

-----------------------------------------------------------------------------
(* provision_event_store. *)

Provision(a, c) ==
    Begin(a, [pc |-> IF c.split THEN "find-journal" ELSE "find", config |-> c, state |-> 0, journal |-> 0])

\* An existing stream is verified and left as it is.
Find(a) ==
    LET c == actor[a].config
    IN /\ actor[a].pc = "find"
       /\ IF Exists(Name(c)) THEN End(a) ELSE Goto(a, "create")
       /\ UNCHANGED <<Broker, handle, History, tasks, faults>>

\* A refusal, or a lost answer, is settled by a look at the stream that is there.
CreateStream(a) ==
    LET c == actor[a].config
    IN /\ actor[a].pc = "create"
       /\ Creates(Name(c), Policy(c), LAMBDA inc : End(a), Goto(a, "reconcile"))
       /\ UNCHANGED <<handle, History, tasks>>

Reconcile(a) ==
    /\ actor[a].pc = "reconcile" /\ End(a)
    /\ UNCHANGED <<Broker, handle, History, tasks, faults>>

(* provision_split. *)

FindJournal(a) ==
    LET c == actor[a].config
    IN /\ actor[a].pc = "find-journal"
       /\ IF Exists(Name(c)) THEN End(a) ELSE Goto(a, "find-state")
       /\ UNCHANGED <<Broker, handle, History, tasks, faults>>

\* A state stream without a journal forbids making another journal.
FindState(a) ==
    LET c == actor[a].config
    IN /\ actor[a].pc = "find-state"
       /\ IF Exists(StateName(c)) THEN End(a) ELSE Goto(a, "create-state")
       /\ UNCHANGED <<Broker, handle, History, tasks, faults>>

CreateState(a) ==
    LET c == actor[a].config
    IN /\ actor[a].pc = "create-state"
       /\ Creates(StateName(c), StatePolicy(c),
             LAMBDA inc : actor' = [actor EXCEPT ![a].pc = "create-journal", ![a].state = inc], End(a))
       /\ UNCHANGED <<handle, History, tasks>>

CreateJournal(a) ==
    LET c == actor[a].config
    IN /\ actor[a].pc = "create-journal"
       /\ Creates(Name(c), [Policy(c) EXCEPT !.bind = actor[a].state],
             LAMBDA inc : actor' = [actor EXCEPT ![a].pc = "bind", ![a].journal = inc], End(a))
       /\ UNCHANGED <<handle, History, tasks>>

\* The state stream is bound to the journal, and the pair is looked at once more.
Bind(a) ==
    LET n == StateName(actor[a].config)
    IN /\ actor[a].pc = "bind" /\ End(a)
       /\ streams' = [streams EXCEPT ![n] = IF Exists(n) THEN [@ EXCEPT !.bind = actor[a].journal] ELSE @]
       /\ UNCHANGED <<clock, handle, History, tasks, faults>>

-----------------------------------------------------------------------------
(* update_event_store; a split store is only verified. *)

Update(a, c) == ~c.split /\ Begin(a, [pc |-> "look", config |-> c])

\* An update neither gives a store an epoch nor changes the one it has.
EpochKept(c, s) == s.epoch = c.epoch /\ s.version = Version(c)

\* The stream is this context's, with or without the transactions' subjects.
Look(a) ==
    LET c == actor[a].config
        s == streams[Name(c)]
    IN /\ actor[a].pc = "look"
       /\ IF Exists(Name(c)) /\ EpochKept(c, s) /\ s.subjects \in {"full", "aggregate"}
          THEN actor' = [actor EXCEPT ![a] =
                 [pc |-> "update", config |-> c,
                  policy |-> [Policy(c) EXCEPT !.size = IF s.size > @ THEN s.size ELSE @]]]
          ELSE End(a)
       /\ UNCHANGED <<Broker, handle, History, tasks, faults>>

UpdateStream(a) ==
    LET n == Name(actor[a].config)
    IN /\ actor[a].pc = "update" /\ End(a)
       /\ streams' = [streams EXCEPT ![n] = IF Exists(n) THEN Stream(actor[a].policy, @.inc) ELSE @]
       /\ UNCHANGED <<clock, handle, History, tasks, faults>>

-----------------------------------------------------------------------------
(* NatsEventStore::connect. *)

Connect(a, c) == handle[a] = Disconnected /\ Begin(a, [pc |-> "connect", config |-> c])

OpenJournal(a) ==
    LET c == actor[a].config
        j == streams[Name(c)]
    IN /\ actor[a].pc = "connect"
       /\ IF ~Exists(Name(c)) \/ ~Verified(c, j)
          THEN End(a) /\ UNCHANGED handle
          ELSE IF c.split
          THEN actor' = [actor EXCEPT ![a] = [pc |-> "open-state", config |-> c, journal |-> j]] /\ UNCHANGED handle
          ELSE End(a) /\ handle' = [handle EXCEPT ![a] = [config |-> c, journal |-> j.inc, state |-> 0]]
       /\ UNCHANGED <<Broker, History, tasks, faults>>

OpenState(a) ==
    LET c == actor[a].config
        s == streams[StateName(c)]
    IN /\ actor[a].pc = "open-state"
       /\ handle' = [handle EXCEPT ![a] =
             IF Exists(StateName(c)) /\ Bound(c, actor[a].journal, s)
             THEN [config |-> c, journal |-> actor[a].journal.inc, state |-> s.inc] ELSE @]
       /\ End(a)
       /\ UNCHANGED <<Broker, History, tasks, faults>>

-----------------------------------------------------------------------------
(* Writes. *)

\* A handle writes events, the outcome of a command, or an outcome retained from
\* before there were outcomes.
Write(a, kind, op) ==
    /\ handle[a] # Disconnected
    /\ Begin(a, [pc |-> "check", kind |-> kind, op |-> op, found |-> Absent])

\* Fault: a handle without an epoch does not look at the stream's.
WriterTrusting(h, kind, s) ==
    CASE kind = "events" -> h.config.epoch = None \/ (s.epoch = h.config.epoch /\ s.version = "1")
      [] kind = "outcome" -> h.config.epoch # None /\ s.epoch = h.config.epoch /\ s.version = "1"
      [] kind = "import" -> h.config.epoch = None /\ s.epoch = None

\* require_mutable_namespace, require_completed_outcome_writer and the checks of an
\* import, for a store that is not split.
Writer(h, kind, s) ==
    CASE kind = "events" -> s.epoch = h.config.epoch /\ (s.epoch # None => s.version = "1")
      [] kind = "outcome" -> h.config.epoch # None /\ s.epoch = h.config.epoch /\ s.version = "1"
      [] kind = "import" -> h.config.epoch = None /\ s.epoch = None

\* verify_journal: the very stream that was connected to.
SameJournal(h, j) == Verified(h.config, j) /\ j.inc = h.journal

Check(a) ==
    LET h == handle[a]
        n == Name(h.config)
        s == streams[n]
    IN /\ actor[a].pc = "check"
       /\ IF h.config.readOnly \/ ~Exists(n) THEN End(a)
          ELSE IF ~h.config.split
          THEN IF Writer(h, actor[a].kind, s) THEN Goto(a, "publish") ELSE End(a)
          ELSE IF actor[a].kind # "import" /\ SameJournal(h, s)
          THEN actor' = [actor EXCEPT ![a].pc = "check-state", ![a].found = s]
          ELSE End(a)
       /\ UNCHANGED <<Broker, handle, History, tasks, faults>>

\* verify_authority: the state stream that was connected to, still bound.
CheckState(a) ==
    LET h == handle[a]
        n == StateName(h.config)
    IN /\ actor[a].pc \in {"check-state", "recheck-state"}
       /\ IF Exists(n) /\ Bound(h.config, actor[a].found, streams[n]) /\ streams[n].inc = h.state
          THEN IF actor[a].pc = "check-state" THEN Goto(a, "publish") /\ UNCHANGED misses
               ELSE End(a) /\ misses' = misses \cup {[op |-> actor[a].op, journal |-> h.journal, decided |-> actor[a].decided]}
          ELSE End(a) /\ UNCHANGED misses
       /\ UNCHANGED <<Broker, handle, written, tasks, faults>>

Publish(a) ==
    LET h == handle[a]
        n == Name(h.config)
    IN /\ actor[a].pc = "publish" /\ End(a)
       /\ written' = IF Exists(n)
                     THEN written \cup {[op |-> actor[a].op, kind |-> actor[a].kind, inc |-> streams[n].inc,
                                         epoch |-> streams[n].epoch, by |-> h.config,
                                         journal |-> h.journal, state |-> h.state]}
                     ELSE written
       /\ UNCHANGED <<Broker, handle, misses, tasks, faults>>

-----------------------------------------------------------------------------
(* lookup_outcome. *)

Lookup(a, op) ==
    /\ handle[a] # Disconnected /\ handle[a].config.split
    /\ Begin(a, [pc |-> "verify", op |-> op, found |-> Absent, decided |-> FALSE])

Decided(op, inc) == \E w \in written : w.op = op /\ w.inc = inc /\ w.kind = "outcome"

Verify(a) ==
    LET h == handle[a]
        n == Name(h.config)
    IN /\ actor[a].pc = "verify"
       /\ IF Exists(n) /\ SameJournal(h, streams[n]) THEN Goto(a, "read") ELSE End(a)
       /\ UNCHANGED <<Broker, handle, History, tasks, faults>>

\* A receipt that is found is resolved; one that is not found is missing only in a
\* store that may write and whose two streams are looked at once more.
Read(a) ==
    LET h == handle[a]
        n == Name(h.config)
    IN /\ actor[a].pc = "read"
       /\ IF ~Exists(n) \/ Decided(actor[a].op, streams[n].inc) \/ h.config.readOnly THEN End(a)
          ELSE actor' = [actor EXCEPT ![a].pc = "recheck", ![a].decided = Decided(actor[a].op, h.journal)]
       /\ UNCHANGED <<Broker, handle, History, tasks, faults>>

Recheck(a) ==
    LET h == handle[a]
        n == Name(h.config)
    IN /\ actor[a].pc = "recheck"
       /\ IF Exists(n) /\ SameJournal(h, streams[n])
          THEN actor' = [actor EXCEPT ![a].pc = "recheck-state", ![a].found = streams[n]]
          ELSE End(a)
       /\ UNCHANGED <<Broker, handle, History, tasks, faults>>

-----------------------------------------------------------------------------
(* The operator and the processes. *)

Disconnect(a) ==
    /\ actor[a].pc = "idle" /\ handle[a] # Disconnected
    /\ handle' = [handle EXCEPT ![a] = Disconnected]
    /\ UNCHANGED <<Broker, actor, History, tasks, faults>>

Crash(a) ==
    /\ actor[a].pc # "idle" /\ Fails
    /\ End(a) /\ handle' = [handle EXCEPT ![a] = Disconnected]
    /\ UNCHANGED <<Broker, History, tasks>>

\* Streams are deleted with writes drained and no policy being changed.
InUse(a) == actor[a].pc \in {"check-state", "publish", "update", "create-state", "create-journal", "bind"}

Delete(n) ==
    /\ Exists(n) /\ \A a \in Actors : ~InUse(a)
    /\ streams' = [streams EXCEPT ![n] = Absent]
    /\ UNCHANGED <<clock, actor, handle, History, tasks, faults>>

Step(a) ==
    \/ Find(a) \/ CreateStream(a) \/ Reconcile(a)
    \/ FindJournal(a) \/ FindState(a) \/ CreateState(a) \/ CreateJournal(a) \/ Bind(a)
    \/ Look(a) \/ UpdateStream(a) \/ OpenJournal(a) \/ OpenState(a)
    \/ Check(a) \/ CheckState(a) \/ Publish(a) \/ Verify(a) \/ Read(a) \/ Recheck(a)

Next ==
    \/ \E a \in Actors :
          \/ \E c \in Configs : Provision(a, c) \/ Update(a, c) \/ Connect(a, c)
          \/ \E op \in Operations : Lookup(a, op) \/ \E k \in {"events", "outcome", "import"} : Write(a, k, op)
          \/ Step(a) \/ Disconnect(a) \/ Crash(a)
    \/ \E n \in Names : Delete(n)

Spec == Init /\ [][Next]_vars

-----------------------------------------------------------------------------
(* Properties. *)

\* However provisioning is repeated, cut off and raced, a handle stays within its
\* namespace.  It writes to a stream of its own epoch only, command outcomes only where
\* there is one and imports only where there is none; a split journal and its state
\* stream belong to each other, so that no state stream serves two journals; and an
\* operation is called missing only if the handle's journal did not hold its outcome.
NamespacesStayApart ==
    /\ \A w \in written :
          /\ w.epoch = w.by.epoch
          /\ w.kind = "outcome" => w.epoch # None
          /\ w.kind = "import" => w.epoch = None
          /\ w.by.split =>
                /\ w.inc = w.journal
                /\ \A v \in written : v.by.split => (v.journal = w.journal <=> v.state = w.state)
    /\ \A m \in misses : ~m.decided
================================================================================
