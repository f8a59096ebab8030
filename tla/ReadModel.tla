------------------------------- MODULE ReadModel -------------------------------
(* A read model: one JetStream key-value document per key, holding the model's   *)
(* value and, per source, the position up to which that source is applied.       *)
(* Workers apply domain events and integration events to the same documents      *)
(* with compare-and-set writes and no lock.                                      *)
(*                                                                               *)
(* What a change does to the value is the application's; here a value remembers, *)
(* per source, the versions applied to it, in order, so any wrong, lost, doubled *)
(* or reordered application shows.                                               *)
EXTENDS Naturals, Sequences, FiniteSets

CONSTANTS
    Workers,      \* deliveries that may be in progress at once
    Keys,         \* documents of the model
    Unhandled,    \* the "key" of a domain event the model has no reducer for
    Orders,       \* integration policies in use: "broker", "consecutive", "latest"
    Retries,      \* compare-and-set rounds of one delivery
    MaxAttempts,  \* delivery attempts of an integration event before quarantine
    MaxHist,      \* bound of the model: events of the domain stream
    MaxBus,       \* bound of the model: messages of the integration stream
    MaxVersion,   \* bound of the model: business versions of a publisher
    MaxLost,      \* bound of the model: unanswered writes in flight
    MaxRemoved    \* bound of the model: deletions and expiries of documents

ReadModelAssumption ==
    /\ Unhandled \notin Keys
    /\ Orders \subseteq {"broker", "consecutive", "latest"}
    /\ Retries \in Nat \ {0} /\ MaxAttempts \in Nat \ {0}

Sources == {"domain"} \cup Orders
Versions == 0..(MaxHist + MaxBus + MaxVersion)

Default == [value |-> [s \in Sources |-> <<>>], positions |-> [s \in Sources |-> 0]]

\* A bucket entry: its revision, 0 where the key was never written or has expired.
Absent == [op |-> "none", rev |-> 0, state |-> Default]

\* A delivery: its source and position there, and where it is acknowledged.
NoJob == [src |-> "none", key |-> Unhandled, ver |-> 0, id |-> 0, attempt |-> 0]

VARIABLES
    hist,        \* the domain stream: the key each event's reducer selects
    bus,         \* the integration stream
    floor,       \* integration messages acknowledged or terminated
    delivered,   \* delivery attempts of the integration message after floor; past
                 \* MaxAttempts they are not told apart
    quarantined, \* integration messages with a quarantine record
    dispatched,  \* domain versions whose handler has returned successfully
    bucket,      \* the documents
    seq,         \* the last revision of the bucket
    removed,     \* keys that an operator deleted or that expired, with how many removals
    lost,        \* writes whose caller no longer waits for an answer
    pc, job, tries,
    base,        \* the revision a worker read, 0 for a missing document
    draft        \* the state it intends to write

world == <<hist, bus>>
durable == <<floor, delivered, quarantined, dispatched>>
store == <<bucket, seq, removed>>
local == <<job, tries, base, draft>>
vars == <<hist, bus, floor, delivered, quarantined, dispatched, bucket, seq, removed,
          lost, pc, job, tries, base, draft>>

Init ==
    /\ hist = <<>> /\ bus = <<>>
    /\ floor = 0 /\ delivered = 0 /\ quarantined = {} /\ dispatched = {}
    /\ bucket = [k \in Keys |-> Absent]
    /\ seq = 0
    /\ removed = [keys |-> {}, count |-> 0]
    /\ lost = {}
    /\ pc = [w \in Workers |-> "idle"]
    /\ job = [w \in Workers |-> NoJob]
    /\ tries = [w \in Workers |-> 0]
    /\ base = [w \in Workers |-> 0]
    /\ draft = [w \in Workers |-> Default]

Goto(w, l) == pc' = [pc EXCEPT ![w] = l]

\* A finished delivery keeps nothing.
Forget(w) ==
    /\ Goto(w, "idle")
    /\ job' = [job EXCEPT ![w] = NoJob]
    /\ tries' = [tries EXCEPT ![w] = 0]
    /\ base' = [base EXCEPT ![w] = 0]
    /\ draft' = [draft EXCEPT ![w] = Default]

-----------------------------------------------------------------------------
(* Publishers. *)

\* An event is appended to the aggregate; its reducer, if any, selects k.
Commit(k) ==
    /\ Len(hist) < MaxHist
    /\ hist' = Append(hist, k)
    /\ UNCHANGED <<bus, durable, store, lost, pc, local>>

\* An integration event is stored.  Under broker order its version is its stream
\* sequence; a business version comes from the publisher, in any order, and is
\* 0 for a message the handler finds invalid.
Publish(o, k, v) ==
    /\ Len(bus) < MaxBus
    /\ v \in IF o = "broker" THEN {Len(bus) + 1} ELSE 0..MaxVersion
    /\ bus' = Append(bus, [src |-> o, key |-> k, ver |-> v])
    /\ UNCHANGED <<hist, durable, store, lost, pc, local>>

\* The document is deleted at its revision, leaving a tombstone.
Delete(k) ==
    /\ bucket[k].op = "put" /\ removed.count < MaxRemoved
    /\ seq' = seq + 1
    /\ bucket' = [bucket EXCEPT ![k] = [op |-> "del", rev |-> seq + 1, state |-> Default]]
    /\ removed' = [keys |-> removed.keys \cup {k}, count |-> removed.count + 1]
    /\ UNCHANGED <<world, durable, lost, pc, local>>

\* The bucket's time to live elapses for an entry.
Expire(k) ==
    /\ bucket[k].op # "none" /\ removed.count < MaxRemoved
    /\ bucket' = [bucket EXCEPT ![k] = Absent]
    /\ removed' = [keys |-> removed.keys \cup {k}, count |-> removed.count + 1]
    /\ UNCHANGED <<world, durable, seq, lost, pc, local>>

-----------------------------------------------------------------------------
(* Deliveries. *)

Start(w, j) ==
    /\ pc[w] = "idle"
    /\ job' = [job EXCEPT ![w] = j]
    /\ Goto(w, "read")
    /\ UNCHANGED <<tries, base, draft>>

\* A domain event reaches its handler: live, again, or out of order from a
\* rebuild that dispatches the same history beside the live worker.
DispatchDomain(w, v) ==
    /\ v \in 1..Len(hist) /\ hist[v] # Unhandled
    /\ Start(w, [src |-> "domain", key |-> hist[v], ver |-> v, id |-> v, attempt |-> 1])
    /\ UNCHANGED <<world, durable, store, lost>>

\* The one integration durable delivers the message after its floor, also while
\* an earlier attempt at it is still running.  A message whose attempts are used
\* up goes to quarantine unhandled.
DeliverIntegration(w) ==
    /\ floor < Len(bus)
    /\ delivered' = IF delivered > MaxAttempts THEN delivered ELSE delivered + 1
    /\ LET m == bus[floor + 1]
           j == [src |-> m.src, key |-> m.key, ver |-> m.ver, id |-> floor + 1,
                 attempt |-> delivered']
       IN  /\ pc[w] = "idle"
           /\ job' = [job EXCEPT ![w] = j]
           /\ Goto(w, IF j.attempt > MaxAttempts \/ m.ver = 0 THEN "quarantine" ELSE "read")
    /\ UNCHANGED <<tries, base, draft>>
    /\ UNCHANGED <<world, floor, quarantined, dispatched, store, lost>>

-----------------------------------------------------------------------------
(* Session::mutate. *)

\* read: a tombstone is a missing document, whose revision counts as 0.
Lookup(k) == IF bucket[k].op = "put" THEN bucket[k] ELSE Absent

Applied(s, src) == s.positions[src]

\* The events of versions a+1..b that are routed to key k.
Routed(k, a, b) == {v \in (a + 1)..b : hist[v] = k}

InOrder(q) == \A i, j \in DOMAIN q : i < j => q[i] < q[j]

\* The same in the order of the stream.
Relevant(k, a, b) ==
    LET S == Routed(k, a, b)
    IN  CHOOSE q \in UNION {[1..n -> S] : n \in 0..b} : InOrder(q) /\ {q[i] : i \in DOMAIN q} = S

WithApplied(s, src, vs, v) ==
    [value |-> [s.value EXCEPT ![src] = @ \o vs], positions |-> [s.positions EXCEPT ![src] = v]]

\* Where a worker writes what it computed: update at the revision, or create.
Writing(w) == IF base'[w] = 0 THEN "create" ELSE "write"

Gap(src, applied, v) == src \in {"domain", "consecutive"} /\ applied + 1 # v

\* Fault: a document at the event's own version is changed once more.
ReadAgain(w) ==
    LET j == job[w]
        e == Lookup(j.key)
        a == e.state.positions[j.src]
    IN  /\ pc[w] = "read"
        /\ base' = [base EXCEPT ![w] = e.rev]
        /\ \/ j.ver < a /\ Goto(w, "ok") /\ UNCHANGED draft
           \/ /\ j.ver >= a
              /\ draft' = [draft EXCEPT ![w] = WithApplied(e.state, j.src, <<j.ver>>, j.ver)]
              /\ Goto(w, Writing(w))
        /\ UNCHANGED <<world, durable, store, lost, job, tries>>

\* One round: the document and its revision are read.  An applied version is
\* done; the next one, and any later one where gaps do not matter, is changed
\* at once; a domain gap needs history, and a consecutive one is an error.
Read(w) ==
    LET j == job[w]
        e == Lookup(j.key)
        a == Applied(e.state, j.src)
    IN  /\ pc[w] = "read"
        /\ base' = [base EXCEPT ![w] = e.rev]
        /\ \/ j.ver <= a /\ Goto(w, "ok") /\ UNCHANGED draft
           \/ /\ j.ver > a /\ ~Gap(j.src, a, j.ver)
              /\ draft' = [draft EXCEPT ![w] = WithApplied(e.state, j.src, <<j.ver>>, j.ver)]
              /\ Goto(w, Writing(w))
           \/ /\ j.ver > a /\ Gap(j.src, a, j.ver)
              /\ draft' = [draft EXCEPT ![w] = e.state]
              /\ Goto(w, IF j.src = "domain" THEN "replay" ELSE "quarantine")
        /\ UNCHANGED <<world, durable, store, lost, job, tries>>

\* DomainMutation::apply past a gap: the authoritative history fills it, with
\* this key's events only, up to the delivered version and never further.
Replay(w) ==
    LET j == job[w]
        a == Applied(draft[w], "domain")
    IN  /\ pc[w] = "replay"
        /\ draft' = [draft EXCEPT ![w] =
               WithApplied(@, "domain", Relevant(j.key, a, j.ver), j.ver)]
        /\ Goto(w, IF base[w] = 0 THEN "create" ELSE "write")
        /\ UNCHANGED <<world, durable, store, lost, job, tries, base>>

\* A conflict starts another round, until the delivery's rounds are used up.
Conflict(w) ==
    IF tries[w] + 1 < Retries
    THEN tries' = [tries EXCEPT ![w] = @ + 1] /\ Goto(w, "read") /\ UNCHANGED <<job, base, draft>>
    ELSE Goto(w, "retry") /\ UNCHANGED local

\* Fault: an existing document is not noticed; the write follows its revision.
CreateOver(w) ==
    /\ pc[w] = "create"
    /\ base' = [base EXCEPT ![w] = bucket[job[w].key].rev]
    /\ Goto(w, "write")
    /\ UNCHANGED <<world, durable, store, lost, job, tries, draft>>

\* create: an existing document conflicts; a tombstone is written over by its
\* revision, a missing key at revision 0.
Create(w) ==
    LET e == bucket[job[w].key] IN
    /\ pc[w] = "create"
    /\ \/ e.op = "put" /\ Conflict(w)
       \/ e.op # "put" /\ base' = [base EXCEPT ![w] = e.rev] /\ Goto(w, "write")
                       /\ UNCHANGED <<job, tries, draft>>
    /\ UNCHANGED <<world, durable, store, lost>>

\* The server's compare-and-set on the key's last revision.
Put(k, rev, s) ==
    /\ bucket[k].rev = rev
    /\ seq' = seq + 1
    /\ bucket' = [bucket EXCEPT ![k] = [op |-> "put", rev |-> seq + 1, state |-> s]]
    /\ UNCHANGED removed

\* The write is answered: stored, or refused because the revision has changed.
Write(w) ==
    LET k == job[w].key IN
    /\ pc[w] = "write"
    /\ \/ Put(k, base[w], draft[w]) /\ Goto(w, "ok") /\ UNCHANGED local
       \/ bucket[k].rev # base[w] /\ Conflict(w) /\ UNCHANGED store
    /\ UNCHANGED <<world, durable, lost>>

-----------------------------------------------------------------------------
(* Failures. *)

\* The write is sent and its answer never comes: unavailable, with the outcome
\* unknown.
LoseAnswer(w) ==
    /\ pc[w] = "write" /\ Cardinality(lost) < MaxLost
    /\ lost' = lost \cup {[key |-> job[w].key, rev |-> base[w], state |-> draft[w]]}
    /\ Goto(w, "retry")
    /\ UNCHANGED <<world, durable, store, local>>

\* A write without a caller reaches the server, or never does.
Arrive(x) ==
    /\ x \in lost
    /\ lost' = lost \ {x}
    /\ Put(x.key, x.rev, x.state) \/ UNCHANGED store
    /\ UNCHANGED <<world, durable, pc, local>>

\* A read, a history load or a write is unavailable; nothing was stored.
Unavailable(w) ==
    /\ pc[w] \in {"read", "replay", "create", "write"}
    /\ Goto(w, "retry")
    /\ UNCHANGED <<world, durable, store, lost, local>>

\* A write over the capacity or size limits, or a failing transformation, is not
\* retried: an integration event is quarantined, a domain event blocks.
Refused(w) ==
    /\ pc[w] = "write"
    /\ Goto(w, IF job[w].src = "domain" THEN "retry" ELSE "quarantine")
    /\ UNCHANGED <<world, durable, store, lost, local>>

\* The processing timeout elapses, or the worker's process dies.
Abort(w) ==
    /\ pc[w] # "idle"
    /\ Forget(w)
    /\ UNCHANGED <<world, durable, store, lost>>

-----------------------------------------------------------------------------
(* Dispositions. *)

\* A message is settled once; a late answer about an earlier one is ignored.
Settle(i) ==
    IF i = floor + 1 THEN floor' = i /\ delivered' = 0 ELSE UNCHANGED <<floor, delivered>>

\* Fault: an attempt that is to be retried is acknowledged.
FinishAcked(w) ==
    LET j == job[w] IN
    /\ pc[w] \in {"ok", "retry"}
    /\ \/ /\ j.src = "domain"
          /\ dispatched' = dispatched \cup {j.ver}
          /\ UNCHANGED <<floor, delivered>>
       \/ j.src # "domain" /\ Settle(j.id) /\ UNCHANGED dispatched
    /\ Forget(w)
    /\ UNCHANGED <<world, quarantined, store, lost>>

\* The handler succeeded, and the delivery is acknowledged.
Finish(w) ==
    LET j == job[w] IN
    /\ pc[w] = "ok"
    /\ \/ /\ j.src = "domain"
          /\ dispatched' = dispatched \cup {j.ver}
          /\ UNCHANGED <<floor, delivered>>
       \/ j.src # "domain" /\ Settle(j.id) /\ UNCHANGED dispatched
    /\ Forget(w)
    /\ UNCHANGED <<world, quarantined, store, lost>>

\* A retryable failure: the delivery stays pending, unless an integration event
\* has used its attempts.
Defer(w) ==
    /\ pc[w] = "retry"
    /\ \/ job[w].src # "domain" /\ job[w].attempt >= MaxAttempts
          /\ Goto(w, "quarantine") /\ UNCHANGED local
       \/ (job[w].src = "domain" \/ job[w].attempt < MaxAttempts) /\ Forget(w)
    /\ UNCHANGED <<world, durable, store, lost>>

\* quarantine_or_nak: the record is stored, then the message is terminated.
Quarantine(w) ==
    /\ pc[w] = "quarantine"
    /\ quarantined' = quarantined \cup {job[w].id}
    /\ Settle(job[w].id)
    /\ Forget(w)
    /\ UNCHANGED <<world, dispatched, store, lost>>

-----------------------------------------------------------------------------
Step(w) ==
    \/ Read(w) \/ Replay(w) \/ Create(w) \/ Write(w)
    \/ Finish(w) \/ Defer(w) \/ Quarantine(w)

Next ==
    \/ \E k \in Keys \cup {Unhandled} : Commit(k)
    \/ \E o \in Orders, k \in Keys, v \in Versions : Publish(o, k, v)
    \/ \E k \in Keys : Delete(k) \/ Expire(k)
    \/ \E w \in Workers :
          \/ Step(w) \/ LoseAnswer(w) \/ Unavailable(w) \/ Refused(w) \/ Abort(w)
          \/ DeliverIntegration(w)
          \/ \E v \in 1..Len(hist) : DispatchDomain(w, v)
    \/ \E x \in lost : Arrive(x)

Spec == Init /\ [][Next]_vars

-----------------------------------------------------------------------------
(* Properties. *)

PCs == {"idle", "read", "replay", "create", "write", "ok", "retry", "quarantine"}

Stored == {k \in Keys : bucket[k].op = "put"}

\* A document's domain part is always exactly its key's events up to the
\* checkpoint, each once and in stream order, and no successful dispatch is ever
\* taken out again unless the document was removed: however deliveries overlap,
\* skip ahead, are answered late or meet deletions.
DomainIsComplete ==
    /\ \A k \in Stored :
          LET s == bucket[k].state
              q == s.value["domain"]
          IN  InOrder(q) /\ {q[i] : i \in DOMAIN q} = Routed(k, 0, s.positions["domain"])
    /\ \A v \in dispatched : hist[v] \in removed.keys \/ bucket[hist[v]].state.positions["domain"] >= v

\* The integration durable never passes a message without its effect: it is
\* applied, superseded, quarantined, or its document was removed.
SettledHasEffect ==
    \A i \in 1..floor : LET m == bus[i] s == bucket[m.key].state IN
        \/ i \in quarantined \/ m.key \in removed.keys
        \/ IF m.src = "latest" THEN s.positions["latest"] >= m.ver
           ELSE \E n \in 1..Len(s.value[m.src]) : s.value[m.src][n] = m.ver
===============================================================================
