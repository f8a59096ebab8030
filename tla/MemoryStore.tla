------------------------------ MODULE MemoryStore ------------------------------
(* The in-memory event store: one mutex around its state, but several critical  *)
(* sections per command.  A command loads streams, commits, and only then asks  *)
(* for the lifecycle of the decision's details and reads them, each under the   *)
(* lock anew.  Direct appends, unscoped transactions and decisions in bounded   *)
(* contexts share the streams and their identities.                             *)
EXTENDS Naturals, Sequences, FiniteSets, Functions

CONSTANTS
    Clients,      \* concurrent users of the store
    Streams,      \* aggregate streams
    NoScope,      \* the scope of a transaction without bounded context
    Proposals,    \* transactions: [scope, op, print, decision, parts], parts the
                  \* number of events for every participating stream, 0 a read guard
    Appends,      \* direct appends: [stream, op, print, count]
    Archived,     \* keys of details that a substituted cold reader keeps
    MaxEvents,    \* with_capacity
    MaxOutcomes   \* with_outcome_capacity

Key(p) == <<p.scope, p.op>>

\* A direct append has its identity in the key space of its stream.
DirectKey(a) == <<a.stream, a.op>>

\* A rejection writes nothing, decisions belong to a context, and a batch has at
\* least one event (EnvelopeError::EmptyBatch).  Total is a number because
\* a proposal has finitely many participants.
ProposalsAssumption ==
    /\ NoScope \notin Streams
    /\ MaxEvents \in Nat /\ MaxOutcomes \in Nat
    /\ \A p \in Proposals :
          /\ p.scope \notin Streams
          /\ DOMAIN p.parts \subseteq Streams
          /\ p.parts \in [DOMAIN p.parts -> Nat]
          /\ SumFunction(p.parts) \in Nat
          /\ p.decision = "rejected" => \A s \in DOMAIN p.parts : p.parts[s] = 0
          /\ p.decision # "none" => p.scope # NoScope
    /\ \A a \in Appends : a.stream \in Streams /\ a.count \in Nat \ {0}

VARIABLES
    streams,       \* events of each stream; the version of an event is its index
    operations,    \* batches by stream and operation, with their provenance
    transactions,  \* stored transactions with the base versions of their receipts
    details,       \* lifecycle of the details of scoped transactions, by key
    event_count,   \* events of all streams
    log,           \* every commit in order, as an entry of the decision log
    pc,            \* where each client is
    seen,          \* the version of each stream it loaded
    at,            \* the last commit to that stream at that moment
    job,           \* the key and proposal it resolves
    reply          \* what it was last told

committed == <<streams, operations, transactions, event_count, log>>
vars == <<committed, details, pc, seen, at, job, reply>>

NoJob == [key |-> <<>>, how |-> "none", late |-> FALSE]
NoReply == [kind |-> "none", key |-> <<>>, details |-> "none", late |-> FALSE]

Init ==
    /\ streams = [s \in Streams |-> <<>>]
    /\ operations = {}
    /\ transactions = {}
    /\ details = <<>>
    /\ event_count = 0
    /\ log = <<>>
    /\ pc = [c \in Clients |-> "idle"]
    /\ seen = [c \in Clients |-> <<>>]
    /\ at = [c \in Clients |-> <<>>]
    /\ job = [c \in Clients |-> NoJob]
    /\ reply = [c \in Clients |-> NoReply]

-----------------------------------------------------------------------------
(* Validation, in the order of the code. *)

Version(s) == Len(streams[s])
Extend(f, x, y) == [z \in DOMAIN f \cup {x} |-> IF z = x THEN y ELSE f[z]]

\* The batch p.parts[s] of operation op as recorded events.
Recorded(op, print, n) == [i \in 1..n |-> [op |-> op, print |-> print, ordinal |-> i]]

\* The writes of p, streams with a batch.
Writes(p) == {s \in DOMAIN p.parts : p.parts[s] > 0}
Total(p) == SumFunction(p.parts)

\* validate_transaction: no stream has seen a batch of this operation, whatever
\* the scope or provenance.  Commit and event identities are derived from stream
\* and operation, so their checks coincide with this one.
Unused(p) == \A s \in Writes(p) : ~\E o \in operations : o.stream = s /\ o.op = p.op

\* Fault: only streams that are written are checked.
WritesExpected(p, expected) == \A s \in Writes(p) : expected[s] = Version(s)

\* validate_expected_version of every participant, read guards included.
Expected(p, expected) == \A s \in DOMAIN p.parts : expected[s] = Version(s)

Stored(key) == {t \in transactions : t.key = key}

\* Why append_transaction_inner refuses proposal p, checks in the code's order.
Refusal(p, expected) ==
    IF Stored(Key(p)) # {} THEN "identity"
    ELSE IF Cardinality(transactions) >= MaxOutcomes THEN "capacity"
    ELSE IF ~Unused(p) THEN "identity"
    ELSE IF ~Expected(p, expected) THEN "conflict"
    ELSE IF event_count + Total(p) > MaxEvents THEN "capacity"
    ELSE "none"

Replayed(p) == \E t \in Stored(Key(p)) : t.proposal = p

-----------------------------------------------------------------------------
(* Reading and committing, one critical section each. *)

\* A client starts a command, or a direct append, with nothing loaded.
Begin(c) ==
    /\ pc[c] = "idle"
    /\ pc' = [pc EXCEPT ![c] = "open"]
    /\ reply' = [reply EXCEPT ![c] = NoReply]
    /\ UNCHANGED <<committed, details, seen, at, job>>

\* load: the history of one stream, and so its version.
Load(c, s) ==
    /\ pc[c] = "open"
    /\ s \notin DOMAIN seen[c]
    /\ seen' = [seen EXCEPT ![c] = Extend(@, s, Version(s))]
    /\ \E n \in 0..Len(log) :
          /\ n > 0 => s \in log[n].writes
          /\ \A m \in (n + 1)..Len(log) : s \notin log[m].writes
          /\ at' = [at EXCEPT ![c] = Extend(@, s, n)]
    /\ UNCHANGED <<committed, details, pc, job, reply>>

\* Whether the details under key were withdrawn before now.
Withdrawn(key) == key \in DOMAIN details /\ details[key] = "expired"

\* The session ends and with it what it loaded.
Drop(c) == seen' = [seen EXCEPT ![c] = <<>>] /\ at' = [at EXCEPT ![c] = <<>>]

Refuse(c, kind) ==
    /\ pc' = [pc EXCEPT ![c] = "idle"]
    /\ reply' = [reply EXCEPT ![c] = [NoReply EXCEPT !.kind = kind]]
    /\ Drop(c)
    /\ UNCHANGED <<committed, details, job>>

\* The client goes on to resolve the transaction or append under key.
Resolve(c, key, how) ==
    /\ pc' = [pc EXCEPT ![c] = IF key[1] \in Streams \cup {NoScope} THEN "answer" ELSE "lifecycle"]
    /\ job' = [job EXCEPT ![c] = [key |-> key, how |-> how, late |-> Withdrawn(key)]]
    /\ Drop(c)
    /\ UNCHANGED reply

\* Everything a committed transaction changes.
Record(c, p) ==
    /\ streams' = [s \in Streams |->
          IF s \in Writes(p) THEN streams[s] \o Recorded(p.op, p.print, p.parts[s]) ELSE streams[s]]
    /\ operations' = operations \cup
          {[stream |-> s, op |-> p.op, scope |-> p.scope] : s \in Writes(p)}
    /\ transactions' = transactions \cup
          {[key |-> Key(p), proposal |-> p, base |-> [s \in DOMAIN p.parts |-> Version(s)]]}
    /\ event_count' = event_count + Total(p)
    /\ log' = Append(log, [req |-> [op |-> Key(p)], decision |-> p.decision,
                           base |-> [s \in DOMAIN p.parts |-> at[c][s]], writes |-> Writes(p)])

\* A scoped transaction comes with a marker and its details.
RecordDetails(p) ==
    details' = IF p.scope = NoScope THEN details ELSE Extend(details, Key(p), "active")

\* append_transaction and commit_outcome up to the end of their critical section.
Commit(c, p) ==
    /\ pc[c] = "open"
    /\ DOMAIN p.parts = DOMAIN seen[c]
    /\ \/ /\ Replayed(p)
          /\ Resolve(c, Key(p), "replay")
          /\ UNCHANGED <<committed, details>>
       \/ /\ ~Replayed(p) /\ Refusal(p, seen[c]) # "none"
          /\ Refuse(c, Refusal(p, seen[c]))
       \/ /\ Refusal(p, seen[c]) = "none"
          /\ Record(c, p)
          /\ RecordDetails(p)
          /\ Resolve(c, Key(p), "appended")

\* append: a batch outside any transaction.  An exact repetition is replayed, any
\* other reuse of the operation on this stream is refused.
DirectAppend(c, a) ==
    /\ pc[c] = "open"
    /\ DOMAIN seen[c] = {a.stream}
    /\ LET same == {o \in operations : o.stream = a.stream /\ o.op = a.op}
           direct == [scope |-> a.stream, op |-> a.op, print |-> a.print, decision |-> "none",
                      parts |-> [s \in {a.stream} |-> a.count]]
           entry == [stream |-> a.stream, op |-> a.op, scope |-> a.stream, batch |-> a]
       IN  \/ /\ entry \in same
              /\ Resolve(c, DirectKey(a), "replay")
              /\ UNCHANGED <<committed, details>>
           \/ same # {} /\ entry \notin same /\ Refuse(c, "identity")
           \/ same = {} /\ seen[c][a.stream] # Version(a.stream) /\ Refuse(c, "conflict")
           \/ /\ same = {} /\ seen[c][a.stream] = Version(a.stream)
              /\ event_count + a.count > MaxEvents
              /\ Refuse(c, "capacity")
           \/ /\ same = {} /\ seen[c][a.stream] = Version(a.stream)
              /\ event_count + a.count <= MaxEvents
              /\ streams' = [streams EXCEPT ![a.stream] = @ \o Recorded(a.op, a.print, a.count)]
              /\ operations' = operations \cup {entry}
              /\ event_count' = event_count + a.count
              /\ log' = Append(log, [req |-> [op |-> DirectKey(a)], decision |-> "none",
                                     base |-> at[c], writes |-> {a.stream}])
              /\ Resolve(c, DirectKey(a), "appended")
              /\ UNCHANGED <<transactions, details>>

\* lookup_outcome: only verified absence is reported as missing.
Lookup(c, key) ==
    /\ pc[c] = "open"
    /\ \/ Stored(key) = {} /\ Refuse(c, "missing")
       \/ /\ Stored(key) # {}
          /\ Resolve(c, key, "found")
          /\ UNCHANGED <<committed, details>>

-----------------------------------------------------------------------------
(* resolve_marker: the lifecycle first, then the readers. *)

\* The client is told the decision under its key, with details as stated.
Tell(c, d) ==
    /\ pc' = [pc EXCEPT ![c] = "idle"]
    /\ reply' = [reply EXCEPT ![c] =
          [kind |-> job[c].how, key |-> job[c].key, details |-> d, late |-> job[c].late]]
    /\ job' = [job EXCEPT ![c] = NoJob]
    /\ UNCHANGED <<committed, details, seen, at>>

\* A direct append or an unscoped transaction has no details to resolve.
ReturnReceipt(c) == pc[c] = "answer" /\ Tell(c, "receipt")

\* Fault: the readers are asked without consulting the lifecycle.
CheckNothing(c) ==
    /\ pc[c] = "lifecycle"
    /\ pc' = [pc EXCEPT ![c] = "read"]
    /\ UNCHANGED <<committed, details, seen, at, job, reply>>

\* The coordinator's lifecycle of the details, under the lock.
CheckLifecycle(c) ==
    /\ pc[c] = "lifecycle"
    /\ \/ job[c].key \notin DOMAIN details /\ Tell(c, "corrupt")
       \/ Withdrawn(job[c].key) /\ Tell(c, "expired")
       \/ /\ job[c].key \in DOMAIN details /\ details[job[c].key] = "active"
          /\ pc' = [pc EXCEPT ![c] = "read"]
          /\ UNCHANGED <<committed, details, seen, at, job, reply>>

\* resolve_details: the hot reader, which is this store, then a cold one.  An
\* expiry may have withdrawn the bytes since the lifecycle was read.
ReadDetails(c) ==
    /\ pc[c] = "read"
    /\ Tell(c, IF ~Withdrawn(job[c].key) \/ job[c].key \in Archived THEN "available" ELSE "missing")

\* expire_details: withdrawal and reclamation in one critical section.  Revisions
\* of markers are fixed at commit, so a stale revision is one of no marker.
ExpireDetails(key) ==
    /\ Stored(key) # {}
    /\ key \in DOMAIN details
    /\ details' = [details EXCEPT ![key] = "expired"]
    /\ UNCHANGED <<committed, pc, seen, at, job, reply>>

ScopedKeys == {Key(p) : p \in {q \in Proposals : q.scope # NoScope}}

Next ==
    \/ \E c \in Clients :
          \/ Begin(c) \/ ReturnReceipt(c) \/ CheckLifecycle(c) \/ ReadDetails(c)
          \/ \E s \in Streams : Load(c, s)
          \/ \E p \in Proposals : Commit(c, p)
          \/ \E a \in Appends : DirectAppend(c, a)
          \/ \E k \in ScopedKeys : Lookup(c, k)
    \/ \E k \in ScopedKeys : ExpireDetails(k)

Spec == Init /\ [][Next]_vars

-----------------------------------------------------------------------------
(* Properties. *)

\* Withdrawal takes effect: a command that began after the details were expired
\* is never given them, even if an archive still has the bytes.
NoDetailsAfterExpiry ==
    \A c \in Clients : reply[c].late => reply[c].details # "available"

\* Positions of the log: outcomes, and direct appends of at least one event.
Positions == 0..(MaxOutcomes + MaxEvents)
Entries ==
    (UNION {[req : {[op |-> Key(p)]}, decision : {p.decision},
             base : [DOMAIN p.parts -> Positions], writes : {Writes(p)}] : p \in Proposals})
    \cup (UNION {[req : {[op |-> DirectKey(a)]}, decision : {"none"},
                  base : [{a.stream} -> Positions], writes : {{a.stream}}] : a \in Appends})

\* The commits whose details were withdrawn, and what each client was last told.
Revoked == {log[i] : i \in {n \in 1..Len(log) : Withdrawn(log[n].req.op)}}
Told == [c \in Clients |-> {log[i] : i \in {n \in 1..Len(log) : log[n].req.op = reply[c].key}}]

Log == INSTANCE DecisionLog WITH
    Callers <- Clients, withdrawn <- Revoked, told <- Told

\* The store implements the decision log, with direct appends as decisions in
\* the key space of their stream: one decision per key, made on current reads,
\* and withdrawn for good.
StoreImplementsDecisionLog == Log!Spec
===============================================================================
