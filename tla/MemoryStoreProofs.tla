--------------------------- MODULE MemoryStoreProofs ---------------------------
(* The in-memory store keeps the promises of the decision log and gives out no   *)
(* withdrawn details, for any clients, streams, proposals, appends and limits.   *)
EXTENDS MemoryStore, FiniteSetTheorems, SequenceTheorems, TLAPS

-----------------------------------------------------------------------------
(* The inductive invariant. *)

Events ==
    [op : {p.op : p \in Proposals} \cup {a.op : a \in Appends},
     print : {p.print : p \in Proposals} \cup {a.print : a \in Appends},
     ordinal : Nat]

\* Some commit of the log has this key.
Logged(key) == \E i \in 1..Len(log) : log[i].req.op = key

StoreTypes ==
    /\ streams \in [Streams -> Seq(Events)]
    /\ log \in Seq(Entries)
    /\ DOMAIN pc = Clients /\ DOMAIN seen = Clients /\ DOMAIN at = Clients
    /\ DOMAIN job = Clients /\ DOMAIN reply = Clients

\* Every commit is an outcome or at least one event, and both are limited.
WithinCapacity ==
    /\ IsFiniteSet(transactions)
    /\ Cardinality(transactions) <= MaxOutcomes
    /\ event_count \in Nat
    /\ event_count <= MaxEvents
    /\ Len(log) <= Cardinality(transactions) + event_count

\* The log has one commit per key, and holds the keys of transactions and direct
\* appends and no others.
LoggedOnce == \A i, j \in 1..Len(log) : log[i].req.op = log[j].req.op => i = j
LogIsStored ==
    \A i \in 1..Len(log) :
        \/ \E t \in transactions : t.key = log[i].req.op
        \/ \E o \in operations : o.stream \in Streams /\ <<o.stream, o.op>> = log[i].req.op
TransactionsLogged ==
    \A t \in transactions : Logged(t.key) /\ \E p \in Proposals : t.key = Key(p)
DirectLogged == \A o \in operations : o.scope \in Streams => Logged(<<o.stream, o.op>>)
DetailsStored == DOMAIN details \subseteq {t.key : t \in transactions}

KeysInv == LoggedOnce /\ LogIsStored /\ TransactionsLogged /\ DirectLogged /\ DetailsStored

\* A loaded version that is still the stream's was loaded after its last commit.
ReadsTracked ==
    \A c \in Clients :
        /\ DOMAIN seen[c] \subseteq Streams
        /\ at[c] \in [DOMAIN seen[c] -> Nat]
        /\ \A s \in DOMAIN seen[c] :
              /\ seen[c][s] \in Nat /\ seen[c][s] <= Version(s)
              /\ at[c][s] <= Len(log)
              /\ seen[c][s] = Version(s) => Log!IsLastSeq(log, s, at[c][s])

Resolving == {"answer", "lifecycle", "read"}

\* What a client resolves or was told is in the log.
RepliesLogged ==
    \A c \in Clients :
        /\ pc[c] \in Resolving => Logged(job[c].key)
        /\ reply[c].key = <<>> \/ Logged(reply[c].key)

\* A client that came too late for the details resolves withdrawn ones, and does
\* not get past the lifecycle.
LateInv ==
    \A c \in Clients :
        /\ job[c].late => Withdrawn(job[c].key)
        /\ pc[c] = "read" => ~job[c].late

StoreInv ==
    /\ StoreTypes /\ WithinCapacity /\ KeysInv /\ ReadsTracked /\ RepliesLogged
    /\ LateInv /\ NoDetailsAfterExpiry

-----------------------------------------------------------------------------
(* What a step does. *)

\* A client opens a command, or is refused: it was told nothing.
Forgets(c) ==
    /\ reply' = [reply EXCEPT ![c] = NoReply]
       \/ \E kind : reply' = [reply EXCEPT ![c] = [NoReply EXCEPT !.kind = kind]]
    /\ \/ pc' = [pc EXCEPT ![c] = "open"] /\ UNCHANGED <<seen, at>>
       \/ pc' = [pc EXCEPT ![c] = "idle"] /\ Drop(c)
    /\ UNCHANGED <<committed, details, job>>

\* A client goes on to resolve what is stored already.
Finds(c, key) ==
    /\ Logged(key)
    /\ \E how : Resolve(c, key, how)
    /\ UNCHANGED <<committed, details>>

\* A transaction is committed.
Records(c, p) ==
    /\ DOMAIN p.parts = DOMAIN seen[c]
    /\ Stored(Key(p)) = {}
    /\ Cardinality(transactions) < MaxOutcomes
    /\ Expected(p, seen[c])
    /\ event_count + Total(p) <= MaxEvents
    /\ Record(c, p)
    /\ RecordDetails(p)
    /\ Resolve(c, Key(p), "appended")

\* A batch is appended outside of any transaction.
Direct(a) == [stream |-> a.stream, op |-> a.op, scope |-> a.stream, batch |-> a]
AppendsDirectly(c, a) ==
    /\ DOMAIN seen[c] = {a.stream}
    /\ ~\E o \in operations : o.stream = a.stream /\ o.op = a.op
    /\ seen[c][a.stream] = Version(a.stream)
    /\ event_count + a.count <= MaxEvents
    /\ streams' = [streams EXCEPT ![a.stream] = @ \o Recorded(a.op, a.print, a.count)]
    /\ operations' = operations \cup {Direct(a)}
    /\ event_count' = event_count + a.count
    /\ log' = Append(log, [req |-> [op |-> DirectKey(a)], decision |-> "none",
                           base |-> at[c], writes |-> {a.stream}])
    /\ Resolve(c, DirectKey(a), "appended")
    /\ UNCHANGED <<transactions, details>>

\* A client is told the decision it resolved.
Tells(c) ==
    /\ pc[c] \in Resolving
    /\ \E d : Tell(c, d) /\ (d = "available" => pc[c] = "read")

\* The details are found active, and are read next.
Proceeds(c) ==
    /\ pc[c] = "lifecycle"
    /\ details[job[c].key] = "active"
    /\ pc' = [pc EXCEPT ![c] = "read"]
    /\ UNCHANGED <<committed, details, seen, at, job, reply>>

LEMMA StepShape ==
    ASSUME ProposalsAssumption, StoreInv, Next
    PROVE  \/ \E c \in Clients :
                 \/ Forgets(c) \/ Tells(c) \/ Proceeds(c)
                 \/ \E key : Finds(c, key)
                 \/ \E s \in Streams : Load(c, s)
                 \/ \E p \in Proposals : Records(c, p)
                 \/ \E a \in Appends : AppendsDirectly(c, a)
           \/ \E k \in ScopedKeys : ExpireDetails(k)
  <1>1. ASSUME NEW c \in Clients, Begin(c)
        PROVE  Forgets(c)
    BY <1>1 DEF Begin, Forgets
  <1>2. ASSUME NEW c \in Clients, NEW kind, Refuse(c, kind)
        PROVE  Forgets(c)
    BY <1>2 DEF Refuse, Forgets
  <1>3. ASSUME NEW c \in Clients, ReturnReceipt(c)
        PROVE  Tells(c)
    BY <1>3 DEF ReturnReceipt, Tells, Resolving
  <1>4. ASSUME NEW c \in Clients, CheckLifecycle(c)
        PROVE  Tells(c) \/ Proceeds(c)
    BY <1>4 DEF CheckLifecycle, Tells, Proceeds, Resolving
  <1>5. ASSUME NEW c \in Clients, ReadDetails(c)
        PROVE  Tells(c)
    BY <1>5 DEF ReadDetails, Tells, Resolving
  <1>6. ASSUME NEW key, Stored(key) # {}
        PROVE  Logged(key)
    BY <1>6 DEF Stored, StoreInv, KeysInv, TransactionsLogged
  <1>7. ASSUME NEW c \in Clients, NEW p \in Proposals, Commit(c, p)
        PROVE  Forgets(c) \/ (\E key : Finds(c, key)) \/ Records(c, p)
    <2>1. CASE Replayed(p) /\ Resolve(c, Key(p), "replay") /\ UNCHANGED <<committed, details>>
      <3>1. Stored(Key(p)) # {}
        BY <2>1 DEF Replayed
      <3> QED  BY <2>1, <3>1, <1>6 DEF Finds
    <2>2. CASE Refuse(c, Refusal(p, seen[c]))
      BY <2>2, <1>2
    <2>3. CASE /\ Refusal(p, seen[c]) = "none"
               /\ Record(c, p) /\ RecordDetails(p) /\ Resolve(c, Key(p), "appended")
      <3>1. /\ Stored(Key(p)) = {}
            /\ ~(Cardinality(transactions) >= MaxOutcomes)
            /\ Expected(p, seen[c])
            /\ ~(event_count + Total(p) > MaxEvents)
        BY <2>3 DEF Refusal
      <3>2. /\ Cardinality(transactions) \in Nat /\ MaxOutcomes \in Nat
            /\ event_count \in Nat /\ Total(p) \in Nat /\ MaxEvents \in Nat
        BY FS_CardinalityType DEF StoreInv, WithinCapacity, ProposalsAssumption, Total
      <3>3. Cardinality(transactions) < MaxOutcomes /\ event_count + Total(p) <= MaxEvents
        BY <3>1, <3>2
      <3>4. DOMAIN p.parts = DOMAIN seen[c]
        BY <1>7 DEF Commit
      <3> QED  BY <2>3, <3>1, <3>3, <3>4 DEF Records
    <2> QED  BY <1>7, <2>1, <2>2, <2>3 DEF Commit
  <1>8. ASSUME NEW c \in Clients, NEW a \in Appends, DirectAppend(c, a)
        PROVE  Forgets(c) \/ (\E key : Finds(c, key)) \/ AppendsDirectly(c, a)
    <2> DEFINE same == {o \in operations : o.stream = a.stream /\ o.op = a.op}
    <2>1. CASE /\ Direct(a) \in same
               /\ Resolve(c, DirectKey(a), "replay")
               /\ UNCHANGED <<committed, details>>
      <3>1. Direct(a) \in operations /\ Direct(a).scope \in Streams
        BY <2>1 DEF Direct, ProposalsAssumption
      <3>2. Logged(DirectKey(a))
        BY <3>1 DEF StoreInv, KeysInv, DirectLogged, Direct, DirectKey
      <3> QED  BY <2>1, <3>2 DEF Finds
    <2>2. CASE \E kind : Refuse(c, kind)
      BY <2>2, <1>2
    <2>3. CASE /\ same = {} /\ seen[c][a.stream] = Version(a.stream)
               /\ event_count + a.count <= MaxEvents
               /\ streams' = [streams EXCEPT ![a.stream] = @ \o Recorded(a.op, a.print, a.count)]
               /\ operations' = operations \cup {Direct(a)}
               /\ event_count' = event_count + a.count
               /\ log' = Append(log, [req |-> [op |-> DirectKey(a)], decision |-> "none",
                                      base |-> at[c], writes |-> {a.stream}])
               /\ Resolve(c, DirectKey(a), "appended")
               /\ UNCHANGED <<transactions, details>>
      <3>1. DOMAIN seen[c] = {a.stream}
        BY <1>8 DEF DirectAppend
      <3>2. ~\E o \in operations : o.stream = a.stream /\ o.op = a.op
        BY <2>3
      <3> QED  BY <2>3, <3>1, <3>2 DEF AppendsDirectly
    <2> QED  BY <1>8, <2>1, <2>2, <2>3 DEF DirectAppend, Direct
  <1>9. ASSUME NEW c \in Clients, NEW key, Lookup(c, key)
        PROVE  Forgets(c) \/ Finds(c, key)
    BY <1>9, <1>2, <1>6 DEF Lookup, Finds
  <1> QED
    BY <1>1, <1>3, <1>4, <1>5, <1>7, <1>8, <1>9 DEF Next

-----------------------------------------------------------------------------
(* What commits have in common. *)

\* Client c commits entry e: its key is new, its reads are current, the streams it
\* writes grow and the others stay, and no details change but its own, which are
\* not withdrawn.
Commits(c, e) ==
    /\ e \in Entries
    /\ log' = Append(log, e)
    /\ ~Logged(e.req.op)
    /\ \A s \in DOMAIN e.base : Log!IsLastSeq(log, s, e.base[s])
    /\ streams' \in [Streams -> Seq(Events)]
    /\ \A s \in Streams : Version(s) <= Version(s)'
    /\ \A s \in Streams : Version(s)' = Version(s) => s \notin e.writes
    /\ \E how : Resolve(c, e.req.op, how)
    /\ e.req.op \notin DOMAIN details
    /\ \A k : Withdrawn(k)' <=> Withdrawn(k)

LEMMA AppendShape ==
    ASSUME NEW S, NEW q \in Seq(S), NEW x \in S
    PROVE  /\ Append(q, x) \in Seq(S)
           /\ Len(q) \in Nat
           /\ Len(Append(q, x)) = Len(q) + 1
           /\ \A i \in 1..Len(q) : Append(q, x)[i] = q[i]
           /\ Append(q, x)[Len(q) + 1] = x
  OBVIOUS

LEMMA VersionType == ASSUME StoreTypes, NEW s \in Streams PROVE Version(s) \in Nat
  BY DEF StoreTypes, Version

\* A batch of n events makes its stream n events longer.
LEMMA BatchAppended ==
    ASSUME NEW q \in Seq(Events), NEW n \in Nat,
           NEW op, NEW print,
           op \in {p.op : p \in Proposals} \cup {a.op : a \in Appends},
           print \in {p.print : p \in Proposals} \cup {a.print : a \in Appends}
    PROVE  q \o Recorded(op, print, n) \in Seq(Events) /\ Len(q \o Recorded(op, print, n)) = Len(q) + n
  <1>1. \A i \in 1..n : [op |-> op, print |-> print, ordinal |-> i] \in Events
    BY DEF Events
  <1>2. Recorded(op, print, n) \in Seq(Events) /\ Len(Recorded(op, print, n)) = n
    BY <1>1 DEF Recorded
  <1> HIDE DEF Events
  <1> QED  BY <1>2, ConcatProperties

\* Keys of transactions are not those of direct appends.
LEMMA KeysApart ==
    ASSUME ProposalsAssumption, NEW p \in Proposals, NEW s \in Streams, NEW o
    PROVE  Key(p) # <<s, o>>
  BY DEF ProposalsAssumption, Key

\* A commit's position fits the entries of the decision log.
LEMMA PositionsFit ==
    ASSUME ProposalsAssumption, StoreInv, NEW n \in Nat, n <= Len(log)
    PROVE  n \in Positions
  <1>1. Cardinality(transactions) \in Nat /\ Len(log) \in Nat
    BY FS_CardinalityType DEF StoreInv, WithinCapacity, StoreTypes
  <1> QED  BY <1>1 DEF StoreInv, WithinCapacity, ProposalsAssumption, Positions

RecordedEntry(c, p) ==
    [req |-> [op |-> Key(p)], decision |-> p.decision,
     base |-> [s \in DOMAIN p.parts |-> at[c][s]], writes |-> Writes(p)]

LEMMA RecordCommits ==
    ASSUME ProposalsAssumption, StoreInv, NEW c \in Clients, NEW p \in Proposals, Records(c, p)
    PROVE  Commits(c, RecordedEntry(c, p))
  <1> DEFINE e == RecordedEntry(c, p)
  <1>0. /\ DOMAIN p.parts \subseteq Streams
        /\ \A s \in DOMAIN p.parts : p.parts[s] \in Nat
        /\ p.scope \notin Streams
    BY DEF ProposalsAssumption
  <1>1. /\ e.req.op = Key(p) /\ e.writes = Writes(p) /\ DOMAIN e.base = DOMAIN p.parts
        /\ \A s \in DOMAIN p.parts : e.base[s] = at[c][s]
    BY DEF RecordedEntry
  <1>2. e \in Entries
    <2>1. \A s \in DOMAIN p.parts : at[c][s] \in Positions
      <3> TAKE s \in DOMAIN p.parts
      <3>1. at[c][s] \in Nat /\ at[c][s] <= Len(log)
        BY DEF Records, StoreInv, ReadsTracked
      <3> QED  BY <3>1, PositionsFit
    <2>2. e \in [req : {[op |-> Key(p)]}, decision : {p.decision},
                 base : [DOMAIN p.parts -> Positions], writes : {Writes(p)}]
      BY <2>1 DEF RecordedEntry
    <2> QED  BY <2>2 DEF Entries
  <1>3. log' = Append(log, e)
    BY DEF Records, Record, RecordedEntry
  <1>4. ~Logged(Key(p))
    <2> SUFFICES ASSUME NEW i \in 1..Len(log), log[i].req.op = Key(p)
                 PROVE  FALSE
      BY DEF Logged
    <2>1. CASE \E t \in transactions : t.key = Key(p)
      BY <2>1 DEF Records, Stored
    <2>2. CASE \E o \in operations : o.stream \in Streams /\ <<o.stream, o.op>> = Key(p)
      BY <2>2, KeysApart
    <2> QED  BY <2>1, <2>2 DEF StoreInv, KeysInv, LogIsStored
  <1>5. \A s \in DOMAIN e.base : Log!IsLastSeq(log, s, e.base[s])
    BY <1>1 DEF Records, Expected, StoreInv, ReadsTracked
  <1>6. /\ streams' \in [Streams -> Seq(Events)]
        /\ \A s \in Streams : Version(s) <= Version(s)'
        /\ \A s \in Streams : Version(s)' = Version(s) => s \notin Writes(p)
    <2>1. streams' = [s \in Streams |->
            IF s \in Writes(p) THEN streams[s] \o Recorded(p.op, p.print, p.parts[s]) ELSE streams[s]]
      BY DEF Records, Record
    <2>2. ASSUME NEW s \in Streams
          PROVE  /\ streams'[s] \in Seq(Events)
                 /\ Version(s) <= Version(s)'
                 /\ Version(s)' = Version(s) => s \notin Writes(p)
      <3>0. streams[s] \in Seq(Events) /\ Version(s) \in Nat
        BY VersionType DEF StoreInv, StoreTypes
      <3>1. CASE s \in Writes(p)
        <4>1. p.parts[s] \in Nat /\ p.parts[s] > 0
          BY <3>1, <1>0 DEF Writes
        <4>2. /\ streams[s] \o Recorded(p.op, p.print, p.parts[s]) \in Seq(Events)
              /\ Len(streams[s] \o Recorded(p.op, p.print, p.parts[s])) = Len(streams[s]) + p.parts[s]
          BY <3>0, <4>1, BatchAppended
        <4>3. streams'[s] = streams[s] \o Recorded(p.op, p.print, p.parts[s])
          BY <2>1, <3>1
        <4>4. Version(s)' = Version(s) + p.parts[s]
          BY <4>2, <4>3 DEF Version
        <4> QED  BY <3>0, <4>1, <4>2, <4>3, <4>4
      <3>2. CASE s \notin Writes(p)
        BY <2>1, <3>0, <3>2 DEF Version
      <3> QED  BY <3>1, <3>2
    <2> QED  BY <2>1, <2>2
  <1>7. Key(p) \notin DOMAIN details
    BY DEF Records, Stored, StoreInv, KeysInv, DetailsStored
  <1>8. \A k : Withdrawn(k)' <=> Withdrawn(k)
    <2>1. CASE details' = details
      BY <2>1 DEF Withdrawn
    <2>2. CASE details' = Extend(details, Key(p), "active")
      BY <2>2, <1>7 DEF Withdrawn, Extend
    <2> QED  BY <2>1, <2>2 DEF Records, RecordDetails
  <1>9. Resolve(c, Key(p), "appended")
    BY DEF Records
  <1> HIDE DEF e
  <1> QED  BY <1>1, <1>2, <1>3, <1>4, <1>5, <1>6, <1>7, <1>8, <1>9 DEF Commits, e

DirectEntry(c, a) ==
    [req |-> [op |-> DirectKey(a)], decision |-> "none", base |-> at[c], writes |-> {a.stream}]

LEMMA AppendCommits ==
    ASSUME ProposalsAssumption, StoreInv, NEW c \in Clients, NEW a \in Appends, AppendsDirectly(c, a)
    PROVE  Commits(c, DirectEntry(c, a))
  <1> DEFINE e == DirectEntry(c, a)
  <1>0. a.stream \in Streams /\ a.count \in Nat /\ a.count > 0
    BY DEF ProposalsAssumption
  <1>1. e.req.op = DirectKey(a) /\ e.writes = {a.stream} /\ e.base = at[c]
    BY DEF DirectEntry
  <1>2. at[c] \in [{a.stream} -> Nat] /\ at[c][a.stream] <= Len(log)
    BY DEF AppendsDirectly, StoreInv, ReadsTracked
  <1>3. e \in Entries
    <2>1. at[c][a.stream] \in Positions
      BY <1>2, PositionsFit
    <2>2. at[c] \in [{a.stream} -> Positions]
      BY <1>2, <2>1
    <2>3. e \in [req : {[op |-> DirectKey(a)]}, decision : {"none"},
                 base : [{a.stream} -> Positions], writes : {{a.stream}}]
      BY <2>2 DEF DirectEntry
    <2> QED  BY <2>3 DEF Entries
  <1>4. log' = Append(log, e)
    BY DEF AppendsDirectly, DirectEntry
  <1>5. ~Logged(DirectKey(a))
    <2> SUFFICES ASSUME NEW i \in 1..Len(log), log[i].req.op = DirectKey(a)
                 PROVE  FALSE
      BY DEF Logged
    <2>1. CASE \E t \in transactions : t.key = DirectKey(a)
      BY <2>1, <1>0, KeysApart DEF StoreInv, KeysInv, TransactionsLogged, DirectKey
    <2>2. CASE \E o \in operations : o.stream \in Streams /\ <<o.stream, o.op>> = DirectKey(a)
      BY <2>2 DEF AppendsDirectly, DirectKey
    <2> QED  BY <2>1, <2>2 DEF StoreInv, KeysInv, LogIsStored
  <1>6. \A s \in DOMAIN e.base : Log!IsLastSeq(log, s, e.base[s])
    BY <1>1, <1>2 DEF AppendsDirectly, StoreInv, ReadsTracked
  <1>7. /\ streams' \in [Streams -> Seq(Events)]
        /\ \A s \in Streams : Version(s) <= Version(s)'
        /\ \A s \in Streams : Version(s)' = Version(s) => s \notin {a.stream}
    <2> DEFINE q == streams[a.stream] \o Recorded(a.op, a.print, a.count)
    <2>1. streams[a.stream] \in Seq(Events) /\ \A s \in Streams : Version(s) \in Nat
      BY <1>0, VersionType DEF StoreInv, StoreTypes
    <2>2. q \in Seq(Events) /\ Len(q) = Len(streams[a.stream]) + a.count
      BY <1>0, <2>1, BatchAppended
    <2>3. streams' = [streams EXCEPT ![a.stream] = q]
      BY DEF AppendsDirectly
    <2> HIDE DEF q
    <2>4. streams \in [Streams -> Seq(Events)]
      BY DEF StoreInv, StoreTypes
    <2> QED  BY <1>0, <2>1, <2>2, <2>3, <2>4 DEF Version
  <1>8. DirectKey(a) \notin DOMAIN details
    <2>1. \A t \in transactions : t.key # DirectKey(a)
      BY <1>0, KeysApart DEF StoreInv, KeysInv, TransactionsLogged, DirectKey
    <2> QED  BY <2>1 DEF StoreInv, KeysInv, DetailsStored
  <1>9. \A k : Withdrawn(k)' <=> Withdrawn(k)
    BY DEF AppendsDirectly, Withdrawn
  <1>10. Resolve(c, DirectKey(a), "appended")
    BY DEF AppendsDirectly
  <1> HIDE DEF e
  <1> QED  BY <1>1, <1>3, <1>4, <1>5, <1>6, <1>7, <1>8, <1>9, <1>10 DEF Commits, e

-----------------------------------------------------------------------------
(* Commits preserve the invariant. *)

LEMMA CommitGrows ==
    ASSUME StoreInv, NEW c \in Clients, NEW e, Commits(c, e)
    PROVE  /\ log' \in Seq(Entries)
           /\ Len(log) \in Nat
           /\ Len(log') = Len(log) + 1
           /\ \A i \in 1..Len(log) : log'[i] = log[i]
           /\ log'[Len(log) + 1] = e
  <1>1. log \in Seq(Entries) /\ e \in Entries /\ log' = Append(log, e)
    BY DEF StoreInv, StoreTypes, Commits
  <1> HIDE DEF Entries
  <1> QED  BY <1>1, AppendShape

LEMMA CommitLogs ==
    ASSUME StoreInv, NEW c \in Clients, NEW e, Commits(c, e)
    PROVE  \A k : Logged(k)' <=> Logged(k) \/ k = e.req.op
  <1> SUFFICES ASSUME NEW k
               PROVE  Logged(k)' <=> Logged(k) \/ k = e.req.op
    OBVIOUS
  <1>1. ASSUME Logged(k) PROVE Logged(k)'
    BY <1>1, CommitGrows DEF Logged
  <1>2. ASSUME k = e.req.op PROVE Logged(k)'
    <2>1. Len(log) + 1 \in 1..Len(log') /\ log'[Len(log) + 1].req.op = k
      BY <1>2, CommitGrows
    <2> QED  BY <2>1 DEF Logged
  <1>3. ASSUME Logged(k)' PROVE Logged(k) \/ k = e.req.op
    <2>1. PICK i \in 1..Len(log') : log'[i].req.op = k
      BY <1>3 DEF Logged
    <2>2. i \in 1..Len(log) \/ i = Len(log) + 1
      BY CommitGrows
    <2> QED  BY <2>1, <2>2, CommitGrows DEF Logged
  <1> QED  BY <1>1, <1>2, <1>3

LEMMA CommitLogsOnce ==
    ASSUME StoreInv, NEW c \in Clients, NEW e, Commits(c, e)
    PROVE  LoggedOnce'
  <1> SUFFICES ASSUME NEW i \in 1..Len(log'), NEW j \in 1..Len(log'),
                      log'[i].req.op = log'[j].req.op
               PROVE  i = j
    BY DEF LoggedOnce
  <1>1. \A k \in 1..Len(log) : log[k].req.op # e.req.op
    BY DEF Commits, Logged
  <1>2. CASE i \in 1..Len(log) /\ j \in 1..Len(log)
    BY <1>2, CommitGrows DEF StoreInv, KeysInv, LoggedOnce
  <1>3. CASE i = Len(log) + 1 \/ j = Len(log) + 1
    BY <1>1, <1>3, CommitGrows
  <1> QED  BY <1>2, <1>3, CommitGrows

LEMMA CommitTypes ==
    ASSUME StoreInv, NEW c \in Clients, NEW e, Commits(c, e)
    PROVE  StoreTypes'
  BY CommitGrows DEF Commits, Resolve, Drop, StoreInv, StoreTypes

\* Reads by others of the written streams are outdated, the rest stays current.
LEMMA CommitReads ==
    ASSUME StoreInv, NEW c \in Clients, NEW e, Commits(c, e)
    PROVE  ReadsTracked'
  <1>0. /\ seen' = [seen EXCEPT ![c] = <<>>] /\ at' = [at EXCEPT ![c] = <<>>]
        /\ DOMAIN seen = Clients /\ DOMAIN at = Clients
    BY DEF Commits, Resolve, Drop, StoreInv, StoreTypes
  <1> SUFFICES ASSUME NEW d \in Clients
               PROVE  /\ DOMAIN seen'[d] \subseteq Streams
                      /\ at'[d] \in [DOMAIN seen'[d] -> Nat]
                      /\ \A s \in DOMAIN seen'[d] :
                            /\ seen'[d][s] \in Nat /\ seen'[d][s] <= Version(s)'
                            /\ at'[d][s] <= Len(log')
                            /\ seen'[d][s] = Version(s)' => Log!IsLastSeq(log', s, at'[d][s])
    BY DEF ReadsTracked
  <1>1. CASE d = c
    <2>1. seen'[d] = <<>> /\ at'[d] = <<>> /\ DOMAIN <<>> = {}
      BY <1>0, <1>1
    <2>2. <<>> \in [{} -> Nat]
      OBVIOUS
    <2> QED  BY <2>1, <2>2
  <1>2. CASE d # c
    <2>1. seen'[d] = seen[d] /\ at'[d] = at[d]
      BY <1>0, <1>2
    <2>2. /\ DOMAIN seen[d] \subseteq Streams
          /\ at[d] \in [DOMAIN seen[d] -> Nat]
      BY DEF StoreInv, ReadsTracked
    <2>3. ASSUME NEW s \in DOMAIN seen[d]
          PROVE  /\ seen[d][s] \in Nat /\ seen[d][s] <= Version(s)'
                 /\ at[d][s] <= Len(log')
                 /\ seen[d][s] = Version(s)' => Log!IsLastSeq(log', s, at[d][s])
      <3>1. /\ seen[d][s] \in Nat /\ seen[d][s] <= Version(s)
            /\ at[d][s] \in Nat /\ at[d][s] <= Len(log)
            /\ seen[d][s] = Version(s) => Log!IsLastSeq(log, s, at[d][s])
        BY DEF StoreInv, ReadsTracked
      <3>2. s \in Streams /\ Version(s) \in Nat
        BY <2>2, VersionType DEF StoreInv
      <3>3. Version(s)' \in Nat
        BY <3>2, CommitTypes DEF StoreTypes, Version
      <3>4. Version(s) <= Version(s)' /\ (Version(s)' = Version(s) => s \notin e.writes)
        BY <3>2 DEF Commits
      <3>5. ASSUME seen[d][s] = Version(s)'
            PROVE  Log!IsLastSeq(log', s, at[d][s])
        <4>1. Version(s)' = Version(s) /\ s \notin e.writes /\ Log!IsLastSeq(log, s, at[d][s])
          BY <3>1, <3>2, <3>3, <3>4, <3>5
        <4>2. ASSUME NEW j \in (at[d][s] + 1)..Len(log')
              PROVE  s \notin log'[j].writes
          <5>1. j \in (at[d][s] + 1)..Len(log) \/ j = Len(log) + 1
            BY CommitGrows, <3>1
          <5> QED  BY <5>1, <4>1, <3>1, CommitGrows DEF Log!IsLastSeq
        <4>3. at[d][s] \in 0..Len(log') /\ (at[d][s] > 0 => s \in log'[at[d][s]].writes)
          BY <4>1, <3>1, CommitGrows DEF Log!IsLastSeq
        <4> QED  BY <4>2, <4>3 DEF Log!IsLastSeq
      <3> QED  BY <3>1, <3>2, <3>3, <3>4, <3>5, CommitGrows
    <2> QED  BY <2>1, <2>2, <2>3
  <1> QED  BY <1>1, <1>2

LEMMA CommitReplies ==
    ASSUME StoreInv, NEW c \in Clients, NEW e, Commits(c, e)
    PROVE  RepliesLogged' /\ LateInv' /\ NoDetailsAfterExpiry'
  <1>1. PICK how : Resolve(c, e.req.op, how)
    BY DEF Commits
  <1>2. /\ job' = [job EXCEPT ![c] = [key |-> e.req.op, how |-> how, late |-> Withdrawn(e.req.op)]]
        /\ reply' = reply
        /\ DOMAIN pc' = DOMAIN pc /\ (\A d \in Clients : d # c => pc'[d] = pc[d])
        /\ pc'[c] \in {"answer", "lifecycle"}
    BY <1>1 DEF Resolve, StoreInv, StoreTypes
  <1>3. Withdrawn(e.req.op) = FALSE
    BY DEF Commits, Withdrawn
  <1>4. \A d \in Clients : d # c => job'[d] = job[d]
    BY <1>2 DEF StoreInv, StoreTypes
  <1>5. job'[c].key = e.req.op /\ ~job'[c].late
    BY <1>2, <1>3 DEF StoreInv, StoreTypes
  <1>6. RepliesLogged'
    BY <1>2, <1>4, <1>5, CommitLogs DEF StoreInv, RepliesLogged
  <1>7. LateInv'
    <2>1. \A k : Withdrawn(k)' <=> Withdrawn(k)
      BY DEF Commits
    <2> QED  BY <1>2, <1>4, <1>5, <2>1 DEF StoreInv, LateInv
  <1>8. NoDetailsAfterExpiry'
    BY <1>2 DEF StoreInv, NoDetailsAfterExpiry
  <1> QED  BY <1>6, <1>7, <1>8

LEMMA RecordKeys ==
    ASSUME ProposalsAssumption, StoreInv, NEW c \in Clients, NEW p \in Proposals, Records(c, p)
    PROVE  KeysInv' /\ WithinCapacity'
  <1> DEFINE e == RecordedEntry(c, p)
             t == [key |-> Key(p), proposal |-> p, base |-> [s \in DOMAIN p.parts |-> Version(s)]]
  <1>1. Commits(c, e) /\ e.req.op = Key(p)
    BY RecordCommits DEF RecordedEntry
  <1>2. /\ transactions' = transactions \cup {t}
        /\ t.key = Key(p)
        /\ t \notin transactions
    BY DEF Records, Record, Stored
  <1>3. operations' = operations \cup {[stream |-> s, op |-> p.op, scope |-> p.scope] : s \in Writes(p)}
    BY DEF Records, Record
  <1> HIDE DEF e, t
  <1>4. /\ \A k : Logged(k)' <=> Logged(k) \/ k = Key(p)
        /\ LoggedOnce'
        /\ Len(log) \in Nat
        /\ Len(log') = Len(log) + 1
        /\ \A i \in 1..Len(log) : log'[i] = log[i]
        /\ log'[Len(log) + 1].req.op = Key(p)
    BY <1>1, CommitLogs, CommitLogsOnce, CommitGrows
  <1>5. LogIsStored'
    <2> SUFFICES ASSUME NEW i \in 1..Len(log')
                 PROVE  \/ \E u \in transactions' : u.key = log'[i].req.op
                        \/ \E o \in operations' : o.stream \in Streams /\ <<o.stream, o.op>> = log'[i].req.op
      BY DEF LogIsStored
    <2>1. CASE i \in 1..Len(log)
      BY <1>2, <1>3, <1>4, <2>1 DEF StoreInv, KeysInv, LogIsStored
    <2>2. CASE i = Len(log) + 1
      BY <1>2, <1>4, <2>2
    <2> QED  BY <1>4, <2>1, <2>2
  <1>6. TransactionsLogged'
    BY <1>2, <1>4 DEF StoreInv, KeysInv, TransactionsLogged
  <1>7. DirectLogged'
    <2> SUFFICES ASSUME NEW o \in operations', o.scope \in Streams
                 PROVE  Logged(<<o.stream, o.op>>)'
      BY DEF DirectLogged
    <2>1. p.scope \notin Streams
      BY DEF ProposalsAssumption
    <2>2. o \in operations
      BY <1>3, <2>1
    <2> QED  BY <2>2, <1>4 DEF StoreInv, KeysInv, DirectLogged
  <1>8. DetailsStored'
    <2>1. DOMAIN details' \subseteq DOMAIN details \cup {Key(p)}
      BY DEF Records, RecordDetails, Extend
    <2> QED  BY <1>2, <2>1 DEF StoreInv, KeysInv, DetailsStored
  <1>9. WithinCapacity'
    <2>1. /\ Cardinality(transactions) \in Nat /\ MaxOutcomes \in Nat /\ MaxEvents \in Nat
          /\ event_count \in Nat /\ Total(p) \in Nat
          /\ IsFiniteSet(transactions)
      BY FS_CardinalityType DEF StoreInv, WithinCapacity, ProposalsAssumption, Total
    <2>2. IsFiniteSet(transactions') /\ Cardinality(transactions') = Cardinality(transactions) + 1
      BY <1>2, <2>1, FS_AddElement
    <2>3. event_count' = event_count + Total(p)
      BY DEF Records, Record
    <2>4. Cardinality(transactions) < MaxOutcomes /\ event_count + Total(p) <= MaxEvents
      BY DEF Records
    <2>5. Len(log) <= Cardinality(transactions) + event_count
      BY DEF StoreInv, WithinCapacity
    <2> QED  BY <1>4, <2>1, <2>2, <2>3, <2>4, <2>5 DEF WithinCapacity
  <1> QED  BY <1>4, <1>5, <1>6, <1>7, <1>8, <1>9 DEF KeysInv

LEMMA AppendKeys ==
    ASSUME ProposalsAssumption, StoreInv, NEW c \in Clients, NEW a \in Appends, AppendsDirectly(c, a)
    PROVE  KeysInv' /\ WithinCapacity'
  <1> DEFINE e == DirectEntry(c, a)
  <1>0. a.stream \in Streams /\ a.count \in Nat /\ a.count > 0
    BY DEF ProposalsAssumption
  <1>1. Commits(c, e) /\ e.req.op = DirectKey(a)
    BY AppendCommits DEF DirectEntry
  <1>2. /\ operations' = operations \cup {Direct(a)}
        /\ <<Direct(a).stream, Direct(a).op>> = DirectKey(a)
        /\ Direct(a).stream = a.stream
    BY DEF AppendsDirectly, Direct, DirectKey
  <1>3. transactions' = transactions /\ details' = details
    BY DEF AppendsDirectly
  <1> HIDE DEF e
  <1>4. /\ \A k : Logged(k)' <=> Logged(k) \/ k = DirectKey(a)
        /\ LoggedOnce'
        /\ Len(log) \in Nat
        /\ Len(log') = Len(log) + 1
        /\ \A i \in 1..Len(log) : log'[i] = log[i]
        /\ log'[Len(log) + 1].req.op = DirectKey(a)
    BY <1>1, CommitLogs, CommitLogsOnce, CommitGrows
  <1>5. LogIsStored'
    <2> SUFFICES ASSUME NEW i \in 1..Len(log')
                 PROVE  \/ \E u \in transactions' : u.key = log'[i].req.op
                        \/ \E o \in operations' : o.stream \in Streams /\ <<o.stream, o.op>> = log'[i].req.op
      BY DEF LogIsStored
    <2>1. CASE i \in 1..Len(log)
      BY <1>2, <1>3, <1>4, <2>1 DEF StoreInv, KeysInv, LogIsStored
    <2>2. CASE i = Len(log) + 1
      BY <1>0, <1>2, <1>4, <2>2
    <2> QED  BY <1>4, <2>1, <2>2
  <1>6. TransactionsLogged'
    BY <1>3, <1>4 DEF StoreInv, KeysInv, TransactionsLogged
  <1>7. DirectLogged'
    BY <1>2, <1>4 DEF StoreInv, KeysInv, DirectLogged
  <1>8. DetailsStored'
    BY <1>3 DEF StoreInv, KeysInv, DetailsStored
  <1>9. WithinCapacity'
    <2>1. Cardinality(transactions) \in Nat /\ event_count \in Nat /\ MaxEvents \in Nat
      BY FS_CardinalityType DEF StoreInv, WithinCapacity, ProposalsAssumption
    <2>2. event_count' = event_count + a.count /\ event_count + a.count <= MaxEvents
      BY DEF AppendsDirectly
    <2> QED  BY <1>0, <1>3, <1>4, <2>1, <2>2 DEF StoreInv, WithinCapacity
  <1> QED  BY <1>4, <1>5, <1>6, <1>7, <1>8, <1>9 DEF KeysInv

-----------------------------------------------------------------------------
(* The other steps. *)

\* Steps that commit nothing leave the log, its keys and its limits alone.
LEMMA QuietKeeps ==
    ASSUME StoreInv, UNCHANGED committed, DOMAIN details' = DOMAIN details
    PROVE  WithinCapacity' /\ KeysInv' /\ \A k : Logged(k)' <=> Logged(k)
  BY DEF committed, StoreInv, WithinCapacity, KeysInv, LoggedOnce, LogIsStored,
     TransactionsLogged, DirectLogged, DetailsStored, Logged

\* A client's loads end with its session and are otherwise kept.
LEMMA QuietReads ==
    ASSUME StoreInv, UNCHANGED committed, NEW c \in Clients, UNCHANGED <<seen, at>> \/ Drop(c)
    PROVE  ReadsTracked'
  <1>0. UNCHANGED <<log, streams>> /\ \A s : Version(s)' = Version(s)
    BY DEF committed, Version
  <1>1. CASE UNCHANGED <<seen, at>>
    BY <1>0, <1>1 DEF StoreInv, ReadsTracked
  <1>2. CASE Drop(c)
    <2>1. /\ seen' = [seen EXCEPT ![c] = <<>>] /\ at' = [at EXCEPT ![c] = <<>>]
          /\ DOMAIN seen = Clients /\ DOMAIN at = Clients
      BY <1>2 DEF Drop, StoreInv, StoreTypes
    <2>2. \A d \in Clients : d # c => seen'[d] = seen[d] /\ at'[d] = at[d]
      BY <2>1
    <2>3. seen'[c] = <<>> /\ at'[c] = <<>> /\ DOMAIN <<>> = {} /\ <<>> \in [{} -> Nat]
      BY <2>1
    <2> QED  BY <1>0, <2>2, <2>3 DEF StoreInv, ReadsTracked
  <1> QED  BY <1>1, <1>2

LEMMA ForgetStep ==
    ASSUME StoreInv, NEW c \in Clients, Forgets(c)
    PROVE  StoreInv'
  <1>1. UNCHANGED committed /\ details' = details /\ job' = job
    BY DEF Forgets
  <1>2. WithinCapacity' /\ KeysInv' /\ \A k : Logged(k)' <=> Logged(k)
    BY <1>1, QuietKeeps
  <1>3. ReadsTracked'
    <2>1. UNCHANGED <<seen, at>> \/ Drop(c)
      BY DEF Forgets
    <2> QED  BY <1>1, <2>1, QuietReads
  <1>4. /\ \A d \in Clients : d # c => reply'[d] = reply[d] /\ pc'[d] = pc[d]
        /\ reply'[c].key = <<>> /\ ~reply'[c].late
        /\ pc'[c] \in {"idle", "open"}
        /\ DOMAIN reply' = Clients /\ DOMAIN pc' = Clients
    BY DEF Forgets, StoreInv, StoreTypes, NoReply
  <1>5. StoreTypes'
    BY <1>1, <1>4 DEF Forgets, Drop, StoreInv, StoreTypes, committed
  <1>6. RepliesLogged'
    BY <1>1, <1>2, <1>4 DEF StoreInv, RepliesLogged, Resolving
  <1>7. LateInv'
    BY <1>1, <1>4 DEF StoreInv, LateInv, Withdrawn
  <1>8. NoDetailsAfterExpiry'
    BY <1>4 DEF StoreInv, NoDetailsAfterExpiry
  <1> QED  BY <1>2, <1>3, <1>5, <1>6, <1>7, <1>8 DEF StoreInv

LEMMA FindStep ==
    ASSUME StoreInv, NEW c \in Clients, NEW key, Finds(c, key)
    PROVE  StoreInv'
  <1>0. PICK how : Resolve(c, key, how)
    BY DEF Finds
  <1>1. UNCHANGED committed /\ details' = details /\ reply' = reply /\ Logged(key)
    BY <1>0 DEF Finds, Resolve
  <1>2. WithinCapacity' /\ KeysInv' /\ \A k : Logged(k)' <=> Logged(k)
    BY <1>1, QuietKeeps
  <1>3. ReadsTracked'
    BY <1>0, <1>1, QuietReads DEF Resolve
  <1>4. /\ \A d \in Clients : d # c => job'[d] = job[d] /\ pc'[d] = pc[d]
        /\ job'[c].key = key /\ (job'[c].late <=> Withdrawn(key))
        /\ pc'[c] \in {"answer", "lifecycle"}
        /\ DOMAIN job' = Clients /\ DOMAIN pc' = Clients
    BY <1>0 DEF Resolve, StoreInv, StoreTypes
  <1>5. StoreTypes'
    BY <1>0, <1>1, <1>4 DEF Resolve, Drop, StoreInv, StoreTypes, committed
  <1>6. RepliesLogged'
    BY <1>1, <1>2, <1>4 DEF StoreInv, RepliesLogged, Resolving
  <1>7. LateInv'
    BY <1>1, <1>4 DEF StoreInv, LateInv, Withdrawn
  <1>8. NoDetailsAfterExpiry'
    BY <1>1 DEF StoreInv, NoDetailsAfterExpiry
  <1> QED  BY <1>2, <1>3, <1>5, <1>6, <1>7, <1>8 DEF StoreInv

LEMMA TellStep ==
    ASSUME StoreInv, NEW c \in Clients, Tells(c)
    PROVE  StoreInv'
  <1>0. PICK d : Tell(c, d) /\ (d = "available" => pc[c] = "read")
    BY DEF Tells
  <1>1. UNCHANGED committed /\ UNCHANGED <<details, seen, at>>
    BY <1>0 DEF Tell
  <1>2. WithinCapacity' /\ KeysInv' /\ \A k : Logged(k)' <=> Logged(k)
    BY <1>1, QuietKeeps
  <1>3. ReadsTracked'
    BY <1>1, QuietReads
  <1>4. /\ \A b \in Clients : b # c => job'[b] = job[b] /\ pc'[b] = pc[b] /\ reply'[b] = reply[b]
        /\ ~job'[c].late
        /\ pc'[c] = "idle"
        /\ reply'[c].key = job[c].key /\ reply'[c].details = d
        /\ reply'[c].late = job[c].late
        /\ DOMAIN job' = Clients /\ DOMAIN pc' = Clients /\ DOMAIN reply' = Clients
    BY <1>0 DEF Tell, StoreInv, StoreTypes, NoJob
  <1>5. StoreTypes'
    BY <1>1, <1>4 DEF StoreInv, StoreTypes, committed
  <1>6. RepliesLogged'
    <2>1. Logged(job[c].key)
      BY DEF Tells, StoreInv, RepliesLogged
    <2> QED  BY <1>2, <1>4, <2>1 DEF StoreInv, RepliesLogged, Resolving
  <1>7. LateInv'
    BY <1>1, <1>4 DEF StoreInv, LateInv, Withdrawn
  <1>8. NoDetailsAfterExpiry'
    <2>1. d = "available" => ~job[c].late
      BY <1>0 DEF StoreInv, LateInv
    <2> QED  BY <1>4, <2>1 DEF StoreInv, NoDetailsAfterExpiry
  <1> QED  BY <1>2, <1>3, <1>5, <1>6, <1>7, <1>8 DEF StoreInv

LEMMA ProceedStep ==
    ASSUME StoreInv, NEW c \in Clients, Proceeds(c)
    PROVE  StoreInv'
  <1>1. UNCHANGED committed /\ UNCHANGED <<details, seen, at, job, reply>>
    BY DEF Proceeds
  <1>2. WithinCapacity' /\ KeysInv' /\ \A k : Logged(k)' <=> Logged(k)
    BY <1>1, QuietKeeps
  <1>3. ReadsTracked'
    BY <1>1, QuietReads
  <1>4. /\ pc[c] = "lifecycle" /\ pc'[c] = "read" /\ DOMAIN pc' = Clients
        /\ \A d \in Clients : d # c => pc'[d] = pc[d]
    BY DEF Proceeds, StoreInv, StoreTypes
  <1>5. StoreTypes'
    BY <1>1, <1>4 DEF StoreInv, StoreTypes, committed
  <1>6. RepliesLogged'
    BY <1>1, <1>2, <1>4 DEF StoreInv, RepliesLogged, Resolving
  <1>7. LateInv'
    <2>1. ~Withdrawn(job[c].key)
      BY DEF Proceeds, Withdrawn
    <2> QED  BY <1>1, <1>4, <2>1 DEF StoreInv, LateInv, Withdrawn
  <1>8. NoDetailsAfterExpiry'
    BY <1>1 DEF StoreInv, NoDetailsAfterExpiry
  <1> QED  BY <1>2, <1>3, <1>5, <1>6, <1>7, <1>8 DEF StoreInv

LEMMA LoadStep ==
    ASSUME StoreInv, NEW c \in Clients, NEW s \in Streams, Load(c, s)
    PROVE  StoreInv'
  <1>1. UNCHANGED committed /\ UNCHANGED <<details, pc, job, reply>>
    BY DEF Load
  <1>2. WithinCapacity' /\ KeysInv' /\ \A k : Logged(k)' <=> Logged(k)
    BY <1>1, QuietKeeps
  <1>3. PICK n \in 0..Len(log) :
          /\ n > 0 => s \in log[n].writes
          /\ \A m \in (n + 1)..Len(log) : s \notin log[m].writes
          /\ at' = [at EXCEPT ![c] = Extend(@, s, n)]
    BY DEF Load
  <1>4. /\ seen' = [seen EXCEPT ![c] = Extend(@, s, Version(s))]
        /\ DOMAIN seen = Clients /\ DOMAIN at = Clients
        /\ Version(s) \in Nat /\ Len(log) \in Nat
    BY VersionType DEF Load, StoreInv, StoreTypes
  <1>5. StoreTypes'
    BY <1>1, <1>3, <1>4 DEF StoreInv, StoreTypes, committed
  <1>6. ReadsTracked'
    <2>0. UNCHANGED <<log, streams>> /\ \A x : Version(x)' = Version(x)
      BY <1>1 DEF committed, Version
    <2>1. Log!IsLastSeq(log, s, n)
      BY <1>3 DEF Log!IsLastSeq
    <2>2. \A d \in Clients : d # c => seen'[d] = seen[d] /\ at'[d] = at[d]
      BY <1>3, <1>4
    <2>3. /\ seen'[c] = Extend(seen[c], s, Version(s))
          /\ at'[c] = Extend(at[c], s, n)
      BY <1>3, <1>4
    <2>4. /\ DOMAIN seen[c] \subseteq Streams
          /\ at[c] \in [DOMAIN seen[c] -> Nat]
      BY DEF StoreInv, ReadsTracked
    <2>5. /\ DOMAIN seen'[c] = DOMAIN seen[c] \cup {s}
          /\ at'[c] \in [DOMAIN seen[c] \cup {s} -> Nat]
          /\ seen'[c][s] = Version(s) /\ at'[c][s] = n
          /\ \A x \in DOMAIN seen[c] : x # s => seen'[c][x] = seen[c][x] /\ at'[c][x] = at[c][x]
      BY <1>3, <1>4, <2>3, <2>4 DEF Extend
    <2>6. ASSUME NEW x \in DOMAIN seen'[c]
          PROVE  /\ seen'[c][x] \in Nat /\ seen'[c][x] <= Version(x)
                 /\ at'[c][x] <= Len(log)
                 /\ seen'[c][x] = Version(x) => Log!IsLastSeq(log, x, at'[c][x])
      <3>1. CASE x = s
        BY <3>1, <1>3, <1>4, <2>1, <2>5
      <3>2. CASE x # s
        <4>1. x \in DOMAIN seen[c]
          BY <3>2, <2>5
        <4> QED  BY <3>2, <4>1, <2>5 DEF StoreInv, ReadsTracked
      <3> QED  BY <3>1, <3>2
    <2>7. /\ DOMAIN seen'[c] \subseteq Streams
          /\ at'[c] \in [DOMAIN seen'[c] -> Nat]
      BY <2>4, <2>5
    <2> QED  BY <2>0, <2>2, <2>6, <2>7 DEF StoreInv, ReadsTracked
  <1>7. RepliesLogged'
    BY <1>1, <1>2 DEF StoreInv, RepliesLogged
  <1>8. LateInv'
    BY <1>1 DEF StoreInv, LateInv, Withdrawn
  <1>9. NoDetailsAfterExpiry'
    BY <1>1 DEF StoreInv, NoDetailsAfterExpiry
  <1> QED  BY <1>2, <1>5, <1>6, <1>7, <1>8, <1>9 DEF StoreInv

\* Withdrawal only adds to what is withdrawn.
LEMMA ExpireStep ==
    ASSUME StoreInv, NEW key, ExpireDetails(key)
    PROVE  /\ StoreInv'
           /\ \A k : Withdrawn(k)' <=> Withdrawn(k) \/ k = key
  <1>1. UNCHANGED committed /\ UNCHANGED <<pc, seen, at, job, reply>>
    BY DEF ExpireDetails
  <1>2. DOMAIN details' = DOMAIN details
    BY DEF ExpireDetails
  <1>3. \A k : Withdrawn(k)' <=> Withdrawn(k) \/ k = key
    BY DEF ExpireDetails, Withdrawn
  <1>4. WithinCapacity' /\ KeysInv' /\ \A k : Logged(k)' <=> Logged(k)
    BY <1>1, <1>2, QuietKeeps
  <1>5. ReadsTracked'
    <2>1. UNCHANGED <<log, streams>> /\ \A s : Version(s)' = Version(s)
      BY <1>1 DEF committed, Version
    <2> QED  BY <1>1, <2>1 DEF StoreInv, ReadsTracked
  <1>6. StoreTypes'
    BY <1>1 DEF StoreInv, StoreTypes, committed
  <1>7. RepliesLogged'
    BY <1>1, <1>4 DEF StoreInv, RepliesLogged
  <1>8. LateInv'
    BY <1>1, <1>3 DEF StoreInv, LateInv
  <1>9. NoDetailsAfterExpiry'
    BY <1>1 DEF StoreInv, NoDetailsAfterExpiry
  <1> QED  BY <1>3, <1>4, <1>5, <1>6, <1>7, <1>8, <1>9 DEF StoreInv

-----------------------------------------------------------------------------
(* The invariant holds. *)

LEMMA StoreInit == ASSUME ProposalsAssumption, Init PROVE StoreInv
  <1>1. StoreTypes
    BY DEF Init, StoreTypes
  <1>2. WithinCapacity
    <2>1. IsFiniteSet({}) /\ Cardinality({}) = 0
      BY FS_EmptySet
    <2>2. Len(log) = 0
      BY DEF Init
    <2> QED  BY <2>1, <2>2 DEF Init, WithinCapacity, ProposalsAssumption
  <1>3. KeysInv
    BY DEF Init, KeysInv, LoggedOnce, LogIsStored, TransactionsLogged, DirectLogged, DetailsStored
  <1>4. ReadsTracked
    <2>1. <<>> \in [{} -> Nat] /\ DOMAIN <<>> = {}
      OBVIOUS
    <2> QED  BY <2>1 DEF Init, ReadsTracked
  <1>5. RepliesLogged /\ LateInv /\ NoDetailsAfterExpiry
    BY DEF Init, RepliesLogged, LateInv, NoDetailsAfterExpiry, NoJob, NoReply, Resolving
  <1> QED  BY <1>1, <1>2, <1>3, <1>4, <1>5 DEF StoreInv

LEMMA StoreStep == ASSUME ProposalsAssumption, StoreInv, [Next]_vars PROVE StoreInv'
  <1>1. ASSUME NEW c \in Clients, NEW p \in Proposals, Records(c, p)
        PROVE  StoreInv'
    <2>1. Commits(c, RecordedEntry(c, p)) /\ KeysInv' /\ WithinCapacity'
      BY <1>1, RecordCommits, RecordKeys
    <2> QED  BY <2>1, CommitTypes, CommitReads, CommitReplies DEF StoreInv
  <1>2. ASSUME NEW c \in Clients, NEW a \in Appends, AppendsDirectly(c, a)
        PROVE  StoreInv'
    <2>1. Commits(c, DirectEntry(c, a)) /\ KeysInv' /\ WithinCapacity'
      BY <1>2, AppendCommits, AppendKeys
    <2> QED  BY <2>1, CommitTypes, CommitReads, CommitReplies DEF StoreInv
  <1>3. CASE UNCHANGED vars
    BY <1>3 DEF vars, committed, StoreInv, StoreTypes, WithinCapacity, KeysInv, LoggedOnce,
       LogIsStored, TransactionsLogged, DirectLogged, DetailsStored, Logged, ReadsTracked,
       Version, RepliesLogged, LateInv, Withdrawn, NoDetailsAfterExpiry
  <1>4. CASE Next
    BY <1>1, <1>2, <1>4, StepShape, ForgetStep, FindStep, TellStep, ProceedStep, LoadStep, ExpireStep
  <1> QED  BY <1>3, <1>4

\* Expiry is effective: no client that began to resolve a decision after its
\* details were withdrawn is given them.
THEOREM WithdrawnStaysHidden ==
    ASSUME ProposalsAssumption
    PROVE  Spec => []NoDetailsAfterExpiry
  <1>1. Init => StoreInv
    BY StoreInit
  <1>2. StoreInv /\ [Next]_vars => StoreInv'
    BY StoreStep
  <1>3. StoreInv => NoDetailsAfterExpiry
    BY DEF StoreInv
  <1> QED  BY <1>1, <1>2, <1>3, PTL DEF Spec

-----------------------------------------------------------------------------
(* The store implements the decision log. *)

\* No commit has the empty key, which stands for a client that was told nothing.
LEMMA KeysArePairs ==
    ASSUME NEW e \in Entries
    PROVE  e.req.op # <<>>
  <1>1. ASSUME NEW p \in Proposals,
               e \in [req : {[op |-> Key(p)]}, decision : {p.decision},
                      base : [DOMAIN p.parts -> Positions], writes : {Writes(p)}]
        PROVE  e.req.op # <<>>
    <2>1. e.req.op = <<p.scope, p.op>>
      BY <1>1 DEF Key
    <2> QED  BY <2>1
  <1>2. ASSUME NEW a \in Appends,
               e \in [req : {[op |-> DirectKey(a)]}, decision : {"none"},
                      base : [{a.stream} -> Positions], writes : {{a.stream}}]
        PROVE  e.req.op # <<>>
    <2>1. e.req.op = <<a.stream, a.op>>
      BY <1>2 DEF DirectKey
    <2> QED  BY <2>1
  <1> QED  BY <1>1, <1>2 DEF Entries

LEMMA CommitDecides ==
    ASSUME StoreInv, NEW c \in Clients, NEW e, Commits(c, e)
    PROVE  log' # log /\ e \in Entries /\ Log!Decide(e)
  <1>1. log' # log
    BY CommitGrows
  <1>2. ~Log!Decided(log, e.req.op)
    BY DEF Commits, Logged, Log!Decided
  <1>3. Revoked' = Revoked
    <2>1. \A k : Withdrawn(k)' <=> Withdrawn(k)
      BY DEF Commits
    <2>2. Revoked' = {log'[i] : i \in {n \in 1..Len(log') : Withdrawn(log'[n].req.op)}}
      BY <2>1 DEF Revoked, Withdrawn
    <2>3. ~Withdrawn(e.req.op)
      BY DEF Commits, Withdrawn
    <2>4. ASSUME NEW x
          PROVE  x \in {log'[i] : i \in {n \in 1..Len(log') : Withdrawn(log'[n].req.op)}}
             <=> x \in {log[i] : i \in {n \in 1..Len(log) : Withdrawn(log[n].req.op)}}
      BY <2>3, CommitGrows
    <2>5. {log'[i] : i \in {n \in 1..Len(log') : Withdrawn(log'[n].req.op)}}
          = {log[i] : i \in {n \in 1..Len(log) : Withdrawn(log[n].req.op)}}
      BY <2>4
    <2> QED  BY <2>2, <2>5 DEF Revoked
  <1>4. Told' = Told
    <2>1. reply' = reply /\ e \in Entries
      BY DEF Commits, Resolve
    <2>2. ASSUME NEW d \in Clients PROVE reply[d].key # e.req.op
      BY <2>1, KeysArePairs DEF Commits, StoreInv, RepliesLogged
    <2>3. ASSUME NEW d \in Clients, NEW x
          PROVE  x \in {log'[i] : i \in {n \in 1..Len(log') : log'[n].req.op = reply[d].key}}
             <=> x \in {log[i] : i \in {n \in 1..Len(log) : log[n].req.op = reply[d].key}}
      BY <2>2, CommitGrows
    <2>4. ASSUME NEW d \in Clients PROVE Told'[d] = Told[d]
      BY <2>1, <2>3 DEF Told
    <2> QED  BY <2>4 DEF Told
  <1> QED  BY <1>1, <1>2, <1>3, <1>4 DEF Commits, Log!Decide

\* What was told stays as it is when neither the log nor the replies' keys change.
ToldTo(key) == {log[i] : i \in {n \in 1..Len(log) : log[n].req.op = key}}

LEMMA QuietAbstract ==
    ASSUME UNCHANGED log
    PROVE  /\ (UNCHANGED details => Revoked' = Revoked)
           /\ (UNCHANGED reply => Told' = Told)
  BY DEF Revoked, Told, Withdrawn

LEMMA ReplyChanges ==
    ASSUME StoreInv, UNCHANGED log, NEW c \in Clients, NEW r, reply' = [reply EXCEPT ![c] = r]
    PROVE  Told' = [Told EXCEPT ![c] = ToldTo(r.key)]
  BY DEF StoreInv, StoreTypes, Told, ToldTo

LEMMA ForgetForgets ==
    ASSUME StoreInv, NEW c \in Clients, Forgets(c)
    PROVE  Log!Forget(c)
  <1>1. UNCHANGED log /\ UNCHANGED details
    BY DEF Forgets, committed
  <1>2. PICK r : reply' = [reply EXCEPT ![c] = r] /\ r.key = <<>>
    BY DEF Forgets, NoReply
  <1>3. ToldTo(<<>>) = {}
    BY KeysArePairs DEF ToldTo, StoreInv, StoreTypes
  <1> QED  BY <1>1, <1>2, <1>3, QuietAbstract, ReplyChanges DEF Log!Forget

LEMMA TellTells ==
    ASSUME StoreInv, NEW c \in Clients, Tells(c)
    PROVE  \E i \in 1..Len(log) : Log!Tell(c, i)
  <1>1. UNCHANGED log /\ UNCHANGED details
    BY DEF Tells, Tell, committed
  <1>2. PICK r : reply' = [reply EXCEPT ![c] = r] /\ r.key = job[c].key
    BY DEF Tells, Tell
  <1>3. PICK i \in 1..Len(log) : log[i].req.op = job[c].key
    BY DEF Tells, StoreInv, RepliesLogged, Logged
  <1>4. ToldTo(job[c].key) = {log[i]}
    BY <1>3 DEF ToldTo, StoreInv, KeysInv, LoggedOnce
  <1>5. Told' = [Told EXCEPT ![c] = {log[i]}]
    BY <1>1, <1>2, <1>4, ReplyChanges
  <1> QED  BY <1>1, <1>3, <1>5, QuietAbstract DEF Log!Tell

LEMMA ExpireWithdraws ==
    ASSUME StoreInv, NEW key, ExpireDetails(key)
    PROVE  \E i \in 1..Len(log) : Log!Withdraw(i)
  <1>1. UNCHANGED log /\ UNCHANGED reply
    BY DEF ExpireDetails, committed
  <1>2. Logged(key)
    BY DEF ExpireDetails, Stored, StoreInv, KeysInv, TransactionsLogged
  <1>3. PICK i \in 1..Len(log) : log[i].req.op = key
    BY <1>2 DEF Logged
  <1>4. \A k : Withdrawn(k)' <=> Withdrawn(k) \/ k = key
    BY ExpireStep
  <1>5. ASSUME NEW x PROVE x \in Revoked' <=> x \in Revoked \cup {log[i]}
    BY <1>1, <1>3, <1>4 DEF Revoked, StoreInv, KeysInv, LoggedOnce
  <1>6. Revoked' = Revoked \cup {log[i]}
    BY <1>5
  <1> QED  BY <1>1, <1>6, QuietAbstract DEF Log!Withdraw

LEMMA StoreDecides ==
    ASSUME ProposalsAssumption, StoreInv, [Next]_vars
    PROVE  [Log!Next]_(Log!vars)
  <1>1. ASSUME NEW c \in Clients, NEW e, Commits(c, e)
        PROVE  Log!Next
    BY <1>1, CommitDecides DEF Log!Next
  <1>2. ASSUME UNCHANGED <<log, details, reply>>
        PROVE  UNCHANGED Log!vars
    BY <1>2, QuietAbstract DEF Log!vars
  <1>3. CASE UNCHANGED vars
    BY <1>2, <1>3 DEF vars, committed
  <1>4. ASSUME NEW c \in Clients, Forgets(c) \/ Tells(c)
        PROVE  Log!Next
    BY <1>4, ForgetForgets, TellTells DEF Log!Next
  <1>5. ASSUME NEW c \in Clients, Proceeds(c) \/ (\E key : Finds(c, key)) \/ \E s \in Streams : Load(c, s)
        PROVE  UNCHANGED <<log, details, reply>>
    BY <1>5 DEF Proceeds, Finds, Resolve, Load, committed
  <1>6. ASSUME NEW k, ExpireDetails(k)
        PROVE  Log!Next
    BY <1>6, ExpireWithdraws DEF Log!Next
  <1>7. ASSUME NEW c \in Clients, NEW p \in Proposals, Records(c, p)
        PROVE  Log!Next
    BY <1>1, <1>7, RecordCommits
  <1>8. ASSUME NEW c \in Clients, NEW a \in Appends, AppendsDirectly(c, a)
        PROVE  Log!Next
    BY <1>1, <1>8, AppendCommits
  <1>9. CASE Next
    BY <1>2, <1>4, <1>5, <1>6, <1>7, <1>8, <1>9, StepShape
  <1> QED  BY <1>3, <1>9, <1>2

\* The in-memory store implements the decision log: every key is decided once, on
\* reads that are current at the commit, and what a client is told is in the log.
THEOREM StoreRefines ==
    ASSUME ProposalsAssumption
    PROVE  Spec => StoreImplementsDecisionLog
  <1>1. Init => StoreInv
    BY StoreInit
  <1>2. StoreInv /\ [Next]_vars => StoreInv'
    BY StoreStep
  <1>3. Init => Log!Init
    <2> SUFFICES ASSUME Init PROVE Log!Init
      OBVIOUS
    <2>1. log = <<>> /\ Len(log) = 0
      BY DEF Init
    <2>2. Revoked = {} /\ Told = [c \in Clients |-> {}]
      BY <2>1 DEF Revoked, Told
    <2> QED  BY <2>1, <2>2 DEF Log!Init
  <1>4. StoreInv /\ [Next]_vars => [Log!Next]_(Log!vars)
    BY StoreDecides
  <1> QED
    BY <1>1, <1>2, <1>3, <1>4, PTL DEF Spec, Log!Spec, StoreImplementsDecisionLog
===============================================================================
