------------------------- MODULE EventConsumersProofs -------------------------
(* What the consumers of events promise, for every value of their constants.     *)
(* Of domain-event workers: progress certifies work, first effects happen in     *)
(* journal order and a sound history is never refused.  Of read models: their    *)
(* documents are complete, nothing is settled without its effect, and a name is  *)
(* held once.                                                                    *)
EXTENDS EventConsumers, FiniteSetTheorems, SequenceTheorems, TLAPS

-----------------------------------------------------------------------------
(* Domain-event workers. *)

\* The pending delivery is the earliest unconfirmed event.
PendingIsNext == pending # 0 => IsFirstAfter(pending, Position)

\* What worker w knows: its delivery is confirmed or pending, the floor it saw is
\* a lower bound of progress, and before it handles an event all earlier ones
\* were handled.
WorkerInv(w) ==
    /\ pc[w] # "idle" => msg[w] \in Events /\ (msg[w] <= Position \/ msg[w] = pending)
    /\ pc[w] \in {"inspected", "located", "handling"} =>
          seen[w] <= Position /\ seen[w] < journal[msg[w]].start
    /\ pc[w] \in {"located", "handling"} => IsFirstAfter(msg[w], seen[w])
    /\ pc[w] = "handling" =>
          /\ journal[msg[w]].start = msg[w]
          /\ next[w] \in Transaction(msg[w])
          /\ \A m \in Events : m < next[w] => m \in handled
    /\ pc[w] = "done" => Transaction(msg[w]) \subseteq handled
    /\ pc[w] # "invalid"

\* The inductive invariant.
WorkInv ==
    /\ TypeOK
    /\ WellFormed(journal)
    /\ Migrated <= Len(journal)
    /\ PendingIsNext
    /\ ConfirmedWasHandled
    /\ EffectsInOrder
    /\ \A w \in Workers : WorkerInv(w)

-----------------------------------------------------------------------------
\* A transaction consists of events, shared by all of its members (WellFormed).
LEMMA Members ==
    ASSUME journal \in Seq(Messages), WellFormed(journal), NEW n \in Events
    PROVE  /\ n \in Transaction(n) /\ journal[n].start \in Transaction(n)
           /\ journal[n].start <= n /\ journal[n].start \in Nat /\ journal[n].count \in Nat
           /\ \A k \in Transaction(n) : k \in Events /\ journal[k] = journal[n]
<1>1. n \in 1..Len(journal) /\ IsEvent(journal, n) /\ journal[n] \in Messages
  BY DEF Events
<1>2. /\ journal[n].start \in Nat /\ journal[n].count \in Nat /\ journal[n].start > 0
  BY <1>1, SizeAssumption DEF IsEvent, Messages
<1>3. /\ journal[n].start <= n /\ n < journal[n].start + journal[n].count
      /\ journal[n].start + journal[n].count <= Len(journal) + 1
      /\ \A k \in journal[n].start..(journal[n].start + journal[n].count - 1) : journal[k] = journal[n]
  BY <1>1 DEF WellFormed
<1>4. Len(journal) \in Nat
  OBVIOUS
<1>5. n \in Transaction(n) /\ journal[n].start \in Transaction(n)
  BY <1>1, <1>2, <1>3, <1>4 DEF Transaction
<1>6. ASSUME NEW k \in Transaction(n) PROVE k \in Events /\ journal[k] = journal[n]
  <2>1. k \in 1..Len(journal) /\ journal[k] = journal[n]
    BY <1>2, <1>3, <1>4 DEF Transaction
  <2> QED
    BY <2>1, <1>2 DEF Events, IsEvent
<1> QED
  BY <1>2, <1>3, <1>5, <1>6

\* An atomic batch only adds messages behind the journal (Commit).
LEMMA CommitShape ==
    ASSUME TypeOK, NEW c \in 0..MaxBatch, NEW k \in 0..1, Commit(c, k)
    PROVE  /\ journal' \in Seq(Messages) /\ Len(journal') = Len(journal) + c + k
           /\ Len(journal') <= MaxJournal
           /\ \A n \in 1..Len(journal) : journal'[n] = journal[n]
           /\ \A n \in 1..Len(journal') : n > Len(journal) =>
                 journal'[n] = IF n <= Len(journal) + c
                               THEN [start |-> Len(journal) + 1, count |-> c] ELSE Other
<1> DEFINE new == [i \in 1..(c + k) |->
                     IF i <= c THEN [start |-> Len(journal) + 1, count |-> c] ELSE Other]
<1>1. journal \in Seq(Messages) /\ Len(journal) \in Nat /\ c \in Nat /\ k \in Nat
  BY SizeAssumption DEF TypeOK
<1>2. journal' = journal \o new /\ Len(journal) + c + k <= MaxJournal
  BY DEF Commit
<1>3. \A i \in 1..(c + k) : new[i] \in Messages
  BY <1>1, <1>2, SizeAssumption DEF Messages, Other
<1>4. new \in Seq(Messages) /\ Len(new) = c + k
  <2>1. c + k \in Nat
    BY <1>1
  <2>2. new \in [1..(c + k) -> Messages]
    BY <1>3, Zenon
  <2> HIDE DEF new
  <2> QED
    BY <2>1, <2>2
<1> HIDE DEF new
<1>5. /\ journal' \in Seq(Messages) /\ Len(journal') = Len(journal) + c + k
      /\ \A n \in 1..Len(journal) : journal'[n] = journal[n]
      /\ \A n \in 1..Len(journal') : n > Len(journal) => journal'[n] = new[n - Len(journal)]
  <2>1. /\ journal \o new \in Seq(Messages) /\ Len(journal \o new) = Len(journal) + Len(new)
        /\ \A i \in 1..(Len(journal) + Len(new)) : (journal \o new)[i] =
              IF i <= Len(journal) THEN journal[i] ELSE new[i - Len(journal)]
    BY <1>1, <1>4, ConcatProperties
  <2> QED
    BY <1>1, <1>2, <1>4, <2>1
<1>6. \A n \in 1..Len(journal') : n > Len(journal) =>
        /\ n - Len(journal) \in 1..(c + k)
        /\ n - Len(journal) <= c <=> n <= Len(journal) + c
  BY <1>1, <1>5
<1>7. \A n \in 1..Len(journal') : n > Len(journal) =>
        new[n - Len(journal)] = IF n <= Len(journal) + c
                                THEN [start |-> Len(journal) + 1, count |-> c] ELSE Other
  BY <1>6 DEF new
<1> QED
  BY <1>2, <1>5, <1>7

\* The batch keeps the journal well formed and its events in order (Commit).
LEMMA CommitEvents ==
    ASSUME TypeOK, WellFormed(journal), NEW c \in 0..MaxBatch, NEW k \in 0..1, Commit(c, k)
    PROVE  /\ WellFormed(journal')
           /\ \A n \in Events : n \in Events' /\ journal'[n] = journal[n]
           /\ \A n \in Events' : n \in Events \/ n > Len(journal)
<1>1. journal \in Seq(Messages) /\ Len(journal) \in Nat /\ c \in Nat /\ k \in Nat
  BY SizeAssumption DEF TypeOK
<1>2. /\ Len(journal') = Len(journal) + c + k
      /\ \A n \in 1..Len(journal) : journal'[n] = journal[n]
      /\ \A n \in 1..Len(journal') : n > Len(journal) =>
            journal'[n] = IF n <= Len(journal) + c
                          THEN [start |-> Len(journal) + 1, count |-> c] ELSE Other
  BY CommitShape
<1>3. \A n \in Events : n \in Events' /\ journal'[n] = journal[n]
  BY <1>1, <1>2 DEF Events, IsEvent
<1>4. \A n \in Events' : n \in Events \/ n > Len(journal)
  BY <1>1, <1>2 DEF Events, IsEvent
<1>5. ASSUME NEW n \in 1..Len(journal'), IsEvent(journal', n)
      PROVE  /\ journal'[n].start <= n /\ n < journal'[n].start + journal'[n].count
             /\ journal'[n].start + journal'[n].count <= Len(journal') + 1
             /\ \A i \in journal'[n].start..(journal'[n].start + journal'[n].count - 1) :
                   journal'[i] = journal'[n]
  <2>1. CASE n <= Len(journal)
    <3>1. n \in Events /\ journal'[n] = journal[n]
      BY <1>1, <1>2, <1>5, <2>1 DEF Events, IsEvent
    <3>2. \A i \in Transaction(n) : i \in 1..Len(journal) /\ journal[i] = journal[n]
      BY <1>1, <3>1, Members DEF Events
    <3>3. /\ journal[n].start <= n /\ n < journal[n].start + journal[n].count
          /\ journal[n].start + journal[n].count <= Len(journal) + 1
          /\ journal[n].start \in Nat /\ journal[n].count \in Nat
      BY <1>1, <3>1, Members, SMTT(30) DEF WellFormed, Events
    <3>4. \A i \in Transaction(n) : journal'[i] = journal'[n]
      BY <1>2, <3>1, <3>2
    <3>5. Transaction(n) = journal'[n].start..(journal'[n].start + journal'[n].count - 1)
      BY <3>1 DEF Transaction
    <3>6. journal'[n].start + journal'[n].count <= Len(journal') + 1
      BY <1>1, <1>2, <3>1, <3>3, SMTT(30)
    <3> QED
      BY <3>1, <3>3, <3>4, <3>5, <3>6
  <2>2. CASE n > Len(journal)
    <3>1. n <= Len(journal) + c /\ journal'[n] = [start |-> Len(journal) + 1, count |-> c]
      BY <1>1, <1>2, <1>5, <2>2 DEF IsEvent, Other
    <3> QED
      BY <1>1, <1>2, <2>2, <3>1
  <2> QED
    BY <1>1, <1>2, <2>1, <2>2
<1> QED
  BY <1>3, <1>4, <1>5 DEF WellFormed

-----------------------------------------------------------------------------
\* A new durable, migrated or not, starts in the invariant (Init).
LEMMA InitWork == Init => WorkInv
<1> SUFFICES ASSUME Init PROVE WorkInv
  OBVIOUS
<1> USE DEF Init
<1>1. /\ journal \in Seq(Messages) /\ WellFormed(journal) /\ Len(journal) <= MaxJournal
      /\ Migrated \in 0..Len(journal) /\ Len(journal) \in Nat /\ Position = Migrated
  BY PriorAssumption DEF Position
<1>2. handled = {n \in Events : n <= Migrated}
  BY <1>1 DEF Events
<1>3. TypeOK
  <2>1. calm \in BOOLEAN
    BY Zenon
  <2>2. /\ pc \in [Workers -> PCs] /\ msg \in [Workers -> {0} \cup Events]
        /\ seen \in [Workers -> 0..MaxJournal] /\ next \in [Workers -> {0} \cup Events]
    BY SizeAssumption DEF PCs
  <2> QED
    BY <1>1, <1>2, <2>1, <2>2 DEF TypeOK
<1>4. ConfirmedWasHandled
  <2> SUFFICES ASSUME NEW n \in Events, n <= Migrated, NEW k \in Transaction(n)
               PROVE  k \in handled
    BY <1>1 DEF ConfirmedWasHandled
  <2>1. n \in 1..Migrated /\ journal[n].start + journal[n].count <= Migrated + 1
    BY <1>1, PriorAssumption DEF Events
  <2>2. k \in Events /\ journal[n].start \in Nat /\ journal[n].count \in Nat
    BY <1>1, Members
  <2>3. k <= Migrated
    BY <1>1, <2>1, <2>2 DEF Transaction
  <2> QED
    BY <1>2, <2>2, <2>3
<1>5. EffectsInOrder
  BY <1>1, <1>2 DEF EffectsInOrder, Events
<1>6. \A w \in Workers : WorkerInv(w)
  BY DEF WorkerInv
<1> QED
  BY <1>1, <1>3, <1>4, <1>5, <1>6 DEF WorkInv, PendingIsNext

\* The floor a worker computes is the durable's position (AckFloor).
LEMMA FloorIsPosition == AckFloor = Position
  BY DEF AckFloor, Position

\* Positions and what they are compared with are numbers.
LEMMA Numbers ==
    ASSUME TypeOK
    PROVE  /\ Len(journal) \in Nat /\ Position \in Nat /\ pending \in Nat /\ Migrated \in Nat
           /\ floor \in Nat /\ Migrated <= Position /\ floor <= Position
           /\ \A n \in Events : n \in Nat \ {0} /\ n <= Len(journal)
           /\ \A w \in Workers : msg[w] \in Nat /\ seen[w] \in Nat /\ next[w] \in Nat
<1>1. journal \in Seq(Messages) /\ Len(journal) \in Nat /\ MaxJournal \in Nat
  BY SizeAssumption DEF TypeOK
<1>2. \A n \in Events : n \in Nat \ {0} /\ n <= Len(journal)
  BY <1>1 DEF Events
<1>3. Migrated \in Nat
  BY PriorAssumption
<1>4. pending \in Nat /\ floor \in Nat
  BY <1>2 DEF TypeOK
<1>5. \A w \in Workers : msg[w] \in Nat /\ seen[w] \in Nat /\ next[w] \in Nat
  BY <1>1, <1>2 DEF TypeOK
<1> QED
  BY <1>1, <1>2, <1>3, <1>4, <1>5 DEF Position

\* A batch disturbs no worker: its events come after every other (Commit).
LEMMA CommitWork ==
    ASSUME WorkInv, NEW c \in 0..MaxBatch, NEW k \in 0..1, Commit(c, k)
    PROVE  WorkInv'
<1>1. TypeOK /\ WellFormed(journal) /\ journal \in Seq(Messages)
  BY DEF WorkInv, TypeOK
<1>2. /\ WellFormed(journal')
      /\ \A n \in Events : n \in Events' /\ journal'[n] = journal[n]
      /\ \A n \in Events' : n \in Events \/ n > Len(journal)
  BY <1>1, CommitEvents
<1>3. /\ journal' \in Seq(Messages) /\ Len(journal') = Len(journal) + c + k
      /\ Len(journal') <= MaxJournal
  BY <1>1, CommitShape
<1>4. UNCHANGED <<pending, floor, handled, calm, pc, msg, seen, next>> /\ Position' = Position
  BY DEF Commit, durable, local, Position
<1>5. Events \subseteq Events'
  BY <1>2
<1>6. TypeOK'
  <2>1. calm' \in BOOLEAN
    BY <1>1, <1>4, Zenon DEF TypeOK
  <2>2. pc' \in [Workers -> PCs] /\ seen' \in [Workers -> 0..MaxJournal]
    BY <1>1, <1>4 DEF TypeOK
  <2>3. msg' \in [Workers -> {0} \cup Events'] /\ next' \in [Workers -> {0} \cup Events']
    BY <1>1, <1>4, <1>5 DEF TypeOK
  <2>4. pending' \in {0} \cup Events' /\ floor' \in {0} \cup Events' /\ handled' \subseteq Events'
    BY <1>1, <1>4, <1>5 DEF TypeOK
  <2> QED
    BY <1>3, <2>1, <2>2, <2>3, <2>4 DEF TypeOK
<1>7. /\ Len(journal) \in Nat /\ c \in Nat /\ k \in Nat /\ Position \in Nat
      /\ \A n \in Events : n \in Nat \ {0} /\ n <= Len(journal)
      /\ \A n \in Events' : n \in Nat
      /\ \A w \in Workers : msg[w] \in Nat /\ seen[w] \in Nat /\ next[w] \in Nat
  <2>1. \A n \in Events' : n \in Nat
    BY <1>2, <1>3 DEF Events
  <2> QED
    BY <1>1, <2>1, Numbers, SizeAssumption
<1>8. \A n \in Events : Transaction(n)' = Transaction(n)
  BY <1>2 DEF Transaction
<1>9. \A n \in Events, f \in Nat : IsFirstAfter(n, f) => IsFirstAfter(n, f)'
  BY <1>2, <1>7 DEF IsFirstAfter
<1>10. Migrated <= Len(journal') /\ Migrated <= Len(journal) /\ Position <= Len(journal)
  <2>1. Migrated \in Nat /\ Migrated <= Len(journal) /\ floor \in {0} \cup Events
    BY PriorAssumption DEF WorkInv, TypeOK
  <2> QED
    BY <1>3, <1>7, <2>1 DEF Position
<1>11. PendingIsNext'
  BY <1>1, <1>4, <1>7, <1>9 DEF PendingIsNext, WorkInv, TypeOK
<1>12. ConfirmedWasHandled'
  <2> SUFFICES ASSUME NEW n \in Events', n <= Position
               PROVE  Transaction(n)' \subseteq handled
    BY <1>4 DEF ConfirmedWasHandled
  <2>1. n \in Events
    BY <1>2, <1>7, <1>10
  <2> QED
    BY <2>1, <1>8 DEF WorkInv, ConfirmedWasHandled
<1>13. EffectsInOrder'
  <2> SUFFICES ASSUME NEW n \in handled, NEW m \in Events', m < n
               PROVE  m \in handled
    BY <1>4 DEF EffectsInOrder
  <2>1. n \in Events
    BY <1>1 DEF TypeOK
  <2>2. m \in Events
    BY <1>2, <1>7, <2>1
  <2> QED
    BY <2>2 DEF WorkInv, EffectsInOrder
<1>14. ASSUME NEW w \in Workers PROVE WorkerInv(w)'
  <2>1. WorkerInv(w)
    BY DEF WorkInv
  <2>2. pc[w] # "idle" => msg[w] \in Events /\ journal'[msg[w]] = journal[msg[w]]
                        /\ Transaction(msg[w])' = Transaction(msg[w])
    BY <2>1, <1>2, <1>4 DEF WorkerInv, Transaction
  <2>3. pc[w] = "handling" => \A m \in Events' : m < next[w] => m \in handled
    <3> SUFFICES ASSUME pc[w] = "handling", NEW m \in Events', m < next[w]
                 PROVE  m \in handled
      OBVIOUS
    <3>1. next[w] \in Events
      BY <1>1, <2>1, <2>2, Members DEF WorkerInv
    <3>2. m \in Events
      BY <1>2, <1>7, <3>1
    <3> QED
      BY <2>1, <3>2 DEF WorkerInv
  <2>4. pc[w] \in {"located", "handling"} => IsFirstAfter(msg[w], seen[w])'
    BY <1>4, <1>7, <1>9, <2>1, <2>2 DEF WorkerInv
  <2>5. pc[w] # "idle" => msg[w] \in Events'
    BY <2>2, <1>5
  <2> QED
    BY <1>4, <2>1, <2>2, <2>3, <2>4, <2>5 DEF WorkerInv
<1> QED
  BY <1>2, <1>6, <1>10, <1>11, <1>12, <1>13, <1>14 DEF WorkInv

-----------------------------------------------------------------------------
\* With the journal unchanged, what is said of events stays said.
LEMMA Frame ==
    ASSUME UNCHANGED journal
    PROVE  /\ Events' = Events
           /\ \A n : journal'[n] = journal[n]
           /\ WellFormed(journal) => WellFormed(journal')
  BY DEF Events

\* A delivery is the pending event or the next one (Deliver).
LEMMA DeliverWork ==
    ASSUME WorkInv, NEW w \in Workers, NEW n \in 1..Len(journal), Deliver(w, n)
    PROVE  WorkInv'
<1> USE DEF Deliver, Goto
<1>1. /\ TypeOK /\ UNCHANGED <<journal, floor, handled, calm, seen, next>> /\ pending' = n
      /\ Position' = Position /\ Events' = Events
  BY Frame DEF WorkInv, Position
<1>2. n \in Events /\ IsFirstAfter(n, Position) /\ (pending # 0 => pending = n)
  BY DEF WorkInv, PendingIsNext, IsFirstAfter
<1>3. TypeOK'
  <2>1. calm' \in BOOLEAN
    BY <1>1, Zenon DEF TypeOK
  <2>2. pc' \in [Workers -> PCs] /\ msg' \in [Workers -> {0} \cup Events]
    BY <1>1, <1>2 DEF TypeOK, PCs
  <2> QED
    BY <1>1, <1>2, <2>1, <2>2 DEF TypeOK
<1>4. PendingIsNext'
  BY <1>1, <1>2 DEF PendingIsNext, IsFirstAfter
<1>5. ConfirmedWasHandled' /\ EffectsInOrder' /\ WellFormed(journal') /\ Migrated <= Len(journal')
  BY <1>1 DEF WorkInv, ConfirmedWasHandled, EffectsInOrder, Transaction
<1>6. ASSUME NEW v \in Workers PROVE WorkerInv(v)'
  <2>1. WorkerInv(v)
    BY DEF WorkInv
  <2>2. CASE v = w
    <3>1. pc'[v] = "received" /\ msg'[v] = n
      BY <1>1, <2>2 DEF TypeOK
    <3> QED
      BY <1>1, <1>2, <3>1 DEF WorkerInv
  <2>3. CASE v # w
    <3>1. pc'[v] = pc[v] /\ msg'[v] = msg[v]
      BY <1>1, <2>3 DEF TypeOK
    <3>2. msg[v] = pending /\ msg[v] \in Events => msg[v] = n
      BY <1>1, <1>2, Numbers
    <3> QED
      BY <1>1, <2>1, <3>1, <3>2 DEF WorkerInv, IsFirstAfter, Transaction
  <2> QED
    BY <2>2, <2>3
<1> QED
  BY <1>3, <1>4, <1>5, <1>6 DEF WorkInv

\* Steps that change neither the durable nor the journal only have to keep the
\* order of effects and the invariant of their own worker.
LEMMA LocalWork ==
    ASSUME WorkInv, NEW w \in Workers,
           UNCHANGED <<journal, pending, floor>>,
           TypeOK', EffectsInOrder', WorkerInv(w)', handled \subseteq handled',
           \A v \in Workers : v # w =>
              pc'[v] = pc[v] /\ msg'[v] = msg[v] /\ seen'[v] = seen[v] /\ next'[v] = next[v]
    PROVE  WorkInv'
<1>1. Position' = Position /\ Events' = Events
  BY Frame DEF Position
<1>2. WellFormed(journal') /\ Migrated <= Len(journal')
  BY DEF WorkInv
<1>3. PendingIsNext'
  BY <1>1 DEF WorkInv, PendingIsNext, IsFirstAfter
<1>4. ConfirmedWasHandled'
  BY <1>1 DEF WorkInv, ConfirmedWasHandled, Transaction
<1>5. ASSUME NEW v \in Workers, v # w PROVE WorkerInv(v)'
  <2>1. WorkerInv(v)
    BY DEF WorkInv
  <2>2. pc'[v] = pc[v] /\ msg'[v] = msg[v] /\ seen'[v] = seen[v] /\ next'[v] = next[v]
    BY <1>5
  <2> QED
    BY <1>1, <2>1, <2>2 DEF WorkerInv, IsFirstAfter, Transaction
<1> QED
  BY <1>2, <1>3, <1>4, <1>5 DEF WorkInv

\* A worker that inspects the floor acknowledges only certified work (Inspect).
LEMMA InspectWork ==
    ASSUME WorkInv, NEW w \in Workers, Inspect(w)
    PROVE  WorkInv'
<1>1. /\ TypeOK /\ WellFormed(journal) /\ journal \in Seq(Messages) /\ WorkerInv(w)
      /\ UNCHANGED <<journal, pending, floor, handled, calm, msg, next>>
      /\ pc[w] = "received" /\ seen' = [seen EXCEPT ![w] = Position]
      /\ pc' = [pc EXCEPT ![w] = IF msg[w] <= Position \/ journal[msg[w]].start <= Position
                                 THEN "done" ELSE "inspected"]
  BY FloorIsPosition DEF WorkInv, TypeOK, Inspect, Goto, durable
<1>2. Position' = Position /\ Events' = Events /\ Position \in 0..MaxJournal
  <2>1. Migrated \in 0..MaxJournal
    BY PriorAssumption, SizeAssumption
  <2>2. floor \in 0..MaxJournal
    BY <1>1, Numbers, SizeAssumption DEF TypeOK
  <2> QED
    BY <1>1, <2>1, <2>2, Frame DEF Position
<1>3. TypeOK'
  <2>1. calm' \in BOOLEAN
    BY <1>1, Zenon DEF TypeOK
  <2>2. pc' \in [Workers -> PCs] /\ seen' \in [Workers -> 0..MaxJournal]
    BY <1>1, <1>2 DEF TypeOK, PCs
  <2> QED
    BY <1>1, <1>2, <2>1, <2>2 DEF TypeOK
<1>4. msg[w] \in Events /\ (msg[w] <= Position \/ msg[w] = pending)
  BY <1>1 DEF WorkerInv
<1>5. msg[w] \in Nat /\ journal[msg[w]].start \in Nat /\ Position \in Nat
  BY <1>1, <1>4, Members, Numbers
<1>6. CASE msg[w] <= Position \/ journal[msg[w]].start <= Position
  <2>1. journal[msg[w]].start \in Events /\ Transaction(journal[msg[w]].start) = Transaction(msg[w])
    BY <1>1, <1>4, Members DEF Transaction
  <2>2. Transaction(msg[w]) \subseteq handled
    BY <1>4, <1>6, <2>1 DEF WorkInv, ConfirmedWasHandled
  <2>3. pc'[w] = "done" /\ msg'[w] = msg[w]
    BY <1>1, <1>6 DEF TypeOK
  <2>4. WorkerInv(w)'
    BY <1>1, <1>2, <1>4, <2>2, <2>3 DEF WorkerInv, Transaction
  <2> QED
    BY <1>1, <1>2, <1>3, <2>4, LocalWork DEF WorkInv, EffectsInOrder, TypeOK
<1>7. CASE ~(msg[w] <= Position \/ journal[msg[w]].start <= Position)
  <2>1. pc'[w] = "inspected" /\ msg'[w] = msg[w] /\ seen'[w] = Position
    BY <1>1, <1>7 DEF TypeOK
  <2>2. WorkerInv(w)'
    BY <1>1, <1>2, <1>4, <1>5, <1>7, <2>1 DEF WorkerInv
  <2> QED
    BY <1>1, <1>2, <1>3, <2>2, LocalWork DEF WorkInv, EffectsInOrder, TypeOK
<1> QED
  BY <1>6, <1>7

\* Steps that only move the worker on: a location, a deferral, an end (Locate,
\* Defer, Abort).
LEMMA MoveWork ==
    ASSUME WorkInv, NEW w \in Workers, Locate(w) \/ Defer(w) \/ Abort(w)
    PROVE  WorkInv'
<1>1. /\ TypeOK /\ WorkerInv(w)
      /\ UNCHANGED <<journal, pending, floor, handled, calm, msg, seen, next>>
      /\ \/ pc' = [pc EXCEPT ![w] = "idle"]
         \/ pc[w] = "inspected" /\ pc' = [pc EXCEPT ![w] = "failed"]
         \/ /\ pc[w] = "inspected" /\ pc' = [pc EXCEPT ![w] = "located"]
            /\ IsFirstAfter(msg[w], seen[w])
  BY DEF WorkInv, Locate, Defer, Abort, Goto, durable, local
<1>2. Position' = Position /\ Events' = Events
  BY <1>1, Frame DEF Position
<1>3. TypeOK'
  <2>1. calm' \in BOOLEAN
    BY <1>1, Zenon DEF TypeOK
  <2>2. pc' \in [Workers -> PCs]
    BY <1>1 DEF TypeOK, PCs
  <2> QED
    BY <1>1, <1>2, <2>1, <2>2 DEF TypeOK
<1>4. \/ pc'[w] \in {"idle"} \/ (pc[w] = "inspected" /\ pc'[w] = "failed")
      \/ (pc[w] = "inspected" /\ pc'[w] = "located" /\ IsFirstAfter(msg[w], seen[w]))
  BY <1>1 DEF TypeOK
<1>5. WorkerInv(w)'
  BY <1>1, <1>2, <1>4 DEF WorkerInv, IsFirstAfter
<1> QED
  BY <1>1, <1>2, <1>3, <1>5, LocalWork DEF WorkInv, EffectsInOrder, TypeOK

\* The earliest unresolved event is the first of its transaction, and all events
\* before it are confirmed (Reconstruct).
LEMMA ReconstructWork ==
    ASSUME WorkInv, NEW w \in Workers, Reconstruct(w)
    PROVE  WorkInv'
<1>1. /\ TypeOK /\ WellFormed(journal) /\ journal \in Seq(Messages) /\ WorkerInv(w)
      /\ pc[w] = "located" /\ UNCHANGED <<journal, pending, floor, handled, calm, msg, seen>>
  BY DEF WorkInv, TypeOK, Reconstruct, durable
<1>2. msg[w] \in Events /\ IsFirstAfter(msg[w], seen[w]) /\ seen[w] < journal[msg[w]].start
      /\ seen[w] <= Position /\ (msg[w] <= Position \/ msg[w] = pending)
  BY <1>1 DEF WorkerInv
<1>3. journal[msg[w]].start = msg[w] /\ msg[w] \in Transaction(msg[w])
  <2>1. /\ journal[msg[w]].start \in Events /\ journal[msg[w]].start <= msg[w]
        /\ msg[w] \in Transaction(msg[w])
    BY <1>1, <1>2, Members
  <2>2. msg[w] <= journal[msg[w]].start
    BY <1>2, <2>1 DEF IsFirstAfter
  <2> QED
    BY <1>1, <2>1, <2>2, Numbers
<1>4. \A m \in Events : m < msg[w] => m \in handled
  <2> SUFFICES ASSUME NEW m \in Events, m < msg[w] PROVE m \in handled
    OBVIOUS
  <2>1. m <= seen[w]
    BY <1>1, <1>2, Numbers DEF IsFirstAfter
  <2>2. m <= Position /\ m \in Transaction(m)
    BY <1>1, <1>2, <2>1, Numbers, Members
  <2> QED
    BY <2>2 DEF WorkInv, ConfirmedWasHandled
<1>5. pc' = [pc EXCEPT ![w] = "handling"] /\ next' = [next EXCEPT ![w] = msg[w]]
  BY <1>3 DEF Reconstruct, Goto
<1>6. Position' = Position /\ Events' = Events
  BY <1>1, Frame DEF Position
<1>7. TypeOK'
  <2>1. calm' \in BOOLEAN
    BY <1>1, Zenon DEF TypeOK
  <2>2. pc' \in [Workers -> PCs] /\ next' \in [Workers -> {0} \cup Events]
    BY <1>1, <1>2, <1>5 DEF TypeOK, PCs
  <2> QED
    BY <1>1, <1>6, <2>1, <2>2 DEF TypeOK
<1>8. WorkerInv(w)'
  <2>1. pc'[w] = "handling" /\ next'[w] = msg[w] /\ msg'[w] = msg[w] /\ seen'[w] = seen[w]
    BY <1>1, <1>5 DEF TypeOK
  <2> QED
    BY <1>1, <1>2, <1>3, <1>4, <1>6, <2>1 DEF WorkerInv, IsFirstAfter, Transaction
<1> QED
  BY <1>1, <1>5, <1>6, <1>7, <1>8, LocalWork DEF WorkInv, EffectsInOrder, TypeOK

\* Running the handlers of the next event keeps the order of effects (Dispatch,
\* Fail).
LEMMA EffectOrder ==
    ASSUME WorkInv, NEW w \in Workers, pc[w] = "handling", UNCHANGED journal,
           handled' = handled \cup {next[w]}
    PROVE  EffectsInOrder' /\ handled' \subseteq Events' /\ next[w] \in Events
<1>1. TypeOK /\ WellFormed(journal) /\ journal \in Seq(Messages) /\ WorkerInv(w) /\ Events' = Events
  BY Frame DEF WorkInv, TypeOK
<1>2. next[w] \in Events /\ \A m \in Events : m < next[w] => m \in handled
  BY <1>1, Members DEF WorkerInv
<1> QED
  BY <1>1, <1>2 DEF WorkInv, EffectsInOrder, TypeOK

\* A transaction is done only when its last event was handled (Dispatch).
LEMMA DispatchWork ==
    ASSUME WorkInv, NEW w \in Workers, Dispatch(w)
    PROVE  WorkInv'
<1>1. /\ TypeOK /\ WellFormed(journal) /\ journal \in Seq(Messages) /\ WorkerInv(w)
      /\ pc[w] = "handling" /\ UNCHANGED <<journal, pending, floor, calm, msg, seen>>
      /\ handled' = handled \cup {next[w]}
  BY DEF WorkInv, TypeOK, Dispatch, durable
<1>2. EffectsInOrder' /\ handled' \subseteq Events' /\ next[w] \in Events
  BY <1>1, EffectOrder
<1>3. Position' = Position /\ Events' = Events
  BY <1>1, Frame DEF Position
<1>4. /\ msg[w] \in Events /\ next[w] \in Transaction(msg[w])
      /\ \A m \in Events : m < next[w] => m \in handled
  BY <1>1 DEF WorkerInv
<1>5. /\ journal[msg[w]].start \in Nat /\ journal[msg[w]].count \in Nat /\ next[w] \in Nat
      /\ \A n \in Transaction(msg[w]) : n \in Events
      /\ \A n \in Events : n \in Nat
  BY <1>1, <1>4, Members, Numbers
<1>6. CASE next[w] + 1 < journal[msg[w]].start + journal[msg[w]].count
  <2>1. next' = [next EXCEPT ![w] = next[w] + 1] /\ UNCHANGED pc
    BY <1>6 DEF Dispatch
  <2>2. next[w] + 1 \in Transaction(msg[w])
    BY <1>4, <1>5, <1>6 DEF Transaction
  <2>3. TypeOK'
    <3>1. calm' \in BOOLEAN
      BY <1>1, Zenon DEF TypeOK
    <3>2. next' \in [Workers -> {0} \cup Events]
      BY <1>1, <1>5, <2>1, <2>2 DEF TypeOK
    <3> QED
      BY <1>1, <1>2, <1>3, <2>1, <3>1, <3>2 DEF TypeOK
  <2>4. next'[w] = next[w] + 1 /\ \A m \in Events : m < next[w] + 1 => m \in handled'
    BY <1>1, <1>4, <1>5, <2>1 DEF TypeOK
  <2>5. WorkerInv(w)'
    BY <1>1, <1>3, <2>1, <2>2, <2>4 DEF WorkerInv, IsFirstAfter, Transaction
  <2> QED
    BY <1>1, <1>2, <2>1, <2>3, <2>5, LocalWork DEF TypeOK
<1>7. CASE ~(next[w] + 1 < journal[msg[w]].start + journal[msg[w]].count)
  <2>1. pc' = [pc EXCEPT ![w] = "done"] /\ UNCHANGED next
    BY <1>7 DEF Dispatch, Goto
  <2>2. Transaction(msg[w]) \subseteq handled'
    <3> SUFFICES ASSUME NEW n \in Transaction(msg[w]) PROVE n \in handled'
      OBVIOUS
    <3>1. n <= next[w] /\ n \in Events
      BY <1>4, <1>5, <1>7 DEF Transaction
    <3> QED
      BY <1>1, <1>4, <1>5, <3>1
  <2>3. TypeOK'
    <3>1. calm' \in BOOLEAN
      BY <1>1, Zenon DEF TypeOK
    <3>2. pc' \in [Workers -> PCs]
      BY <1>1, <2>1 DEF TypeOK, PCs
    <3> QED
      BY <1>1, <1>2, <1>3, <2>1, <3>1, <3>2 DEF TypeOK
  <2>4. pc'[w] = "done"
    BY <1>1, <2>1 DEF TypeOK
  <2>5. WorkerInv(w)'
    BY <1>1, <1>3, <2>2, <2>4 DEF WorkerInv, Transaction
  <2> QED
    BY <1>1, <1>2, <2>1, <2>3, <2>5, LocalWork DEF TypeOK
<1> QED
  BY <1>6, <1>7

\* A failure leaves a worker that only defers, its effects in order (Fail).
LEMMA FailWork ==
    ASSUME WorkInv, NEW w \in Workers, Fail(w)
    PROVE  WorkInv'
<1>1. /\ TypeOK /\ WorkerInv(w) /\ pc[w] # "idle"
      /\ UNCHANGED <<journal, pending, floor, calm, msg, seen, next>>
      /\ pc' = [pc EXCEPT ![w] = "failed"]
      /\ handled' = handled \/ (pc[w] = "handling" /\ handled' = handled \cup {next[w]})
  BY DEF WorkInv, Fail, Goto, durable, local
<1>2. Position' = Position /\ Events' = Events
  BY <1>1, Frame DEF Position
<1>3. EffectsInOrder' /\ handled' \subseteq Events' /\ handled \subseteq handled'
  <2>1. CASE handled' = handled
    BY <1>1, <1>2, <2>1 DEF WorkInv, EffectsInOrder, TypeOK
  <2>2. CASE pc[w] = "handling" /\ handled' = handled \cup {next[w]}
    BY <1>1, <2>2, EffectOrder
  <2> QED
    BY <1>1, <2>1, <2>2
<1>4. TypeOK'
  <2>1. calm' \in BOOLEAN
    BY <1>1, Zenon DEF TypeOK
  <2>2. pc' \in [Workers -> PCs]
    BY <1>1 DEF TypeOK, PCs
  <2> QED
    BY <1>1, <1>2, <1>3, <2>1, <2>2 DEF TypeOK
<1>5. WorkerInv(w)'
  <2>1. pc'[w] = "failed"
    BY <1>1 DEF TypeOK
  <2> QED
    BY <1>1, <1>2, <2>1 DEF WorkerInv
<1> QED
  BY <1>1, <1>3, <1>4, <1>5, LocalWork DEF TypeOK

\* An acknowledgement moves progress over the pending event, whose transaction
\* is handled; a late one changes nothing (Acknowledge).
LEMMA AcknowledgeWork ==
    ASSUME WorkInv, NEW w \in Workers, Acknowledge(w)
    PROVE  WorkInv'
<1>1. /\ TypeOK /\ WorkerInv(w) /\ pc[w] = "done"
      /\ UNCHANGED <<journal, handled, calm, msg, seen, next>>
      /\ pc' = [pc EXCEPT ![w] = "idle"] /\ Events' = Events
      /\ \/ msg[w] = pending /\ floor' = pending /\ pending' = 0
         \/ UNCHANGED <<pending, floor>>
  BY Frame DEF WorkInv, Acknowledge, Goto, durable, local
<1>2. pc' \in [Workers -> PCs] /\ pc'[w] = "idle" /\ \A v \in Workers : v # w => pc'[v] = pc[v]
  BY <1>1 DEF TypeOK, PCs
<1>3. TypeOK'
  <2>1. calm' \in BOOLEAN
    BY <1>1, Zenon DEF TypeOK
  <2> QED
    BY <1>1, <1>2, <2>1 DEF TypeOK
<1>4. EffectsInOrder' /\ WellFormed(journal') /\ Migrated <= Len(journal')
  BY <1>1 DEF WorkInv, EffectsInOrder
<1>5. CASE UNCHANGED <<pending, floor>>
  <2>1. WorkerInv(w)'
    BY <1>2 DEF WorkerInv
  <2> QED
    BY <1>1, <1>2, <1>3, <1>4, <1>5, <2>1, LocalWork
<1>6. CASE msg[w] = pending /\ floor' = pending /\ pending' = 0
  <2>1. msg[w] \in Events /\ Transaction(msg[w]) \subseteq handled
    BY <1>1 DEF WorkerInv
  <2>2. IsFirstAfter(pending, Position) /\ pending > Position
    BY <1>1, <1>6, <2>1, Numbers DEF WorkInv, PendingIsNext, IsFirstAfter
  <2>3. Position' = pending
    BY <1>1, <1>6, <2>2, Numbers DEF Position
  <2>4. ConfirmedWasHandled'
    <3> SUFFICES ASSUME NEW n \in Events, n <= pending PROVE Transaction(n) \subseteq handled
      BY <1>1, <2>3 DEF ConfirmedWasHandled, Transaction
    <3>1. n <= Position \/ n = pending
      BY <1>1, <2>2, Numbers DEF IsFirstAfter
    <3> QED
      BY <1>6, <2>1, <3>1 DEF WorkInv, ConfirmedWasHandled
  <2>5. PendingIsNext'
    BY <1>6 DEF PendingIsNext
  <2>6. ASSUME NEW v \in Workers PROVE WorkerInv(v)'
    <3>1. WorkerInv(v)
      BY DEF WorkInv
    <3>2. CASE v = w
      BY <1>2, <3>2 DEF WorkerInv
    <3>3. CASE v # w
      <4>1. pc'[v] = pc[v] /\ msg'[v] = msg[v] /\ seen'[v] = seen[v] /\ next'[v] = next[v]
        BY <1>1, <1>2, <3>3
      <4>2. Position <= Position' /\ (msg[v] = pending => msg[v] <= Position')
        BY <1>1, <2>2, <2>3, Numbers
      <4>3. (msg[v] <= Position => msg[v] <= Position') /\ (seen[v] <= Position => seen[v] <= Position')
        BY <1>1, <2>3, <4>2, Numbers
      <4> QED
        BY <1>1, <3>1, <4>1, <4>2, <4>3 DEF WorkerInv, IsFirstAfter, Transaction
    <3> QED
      BY <3>2, <3>3
  <2> QED
    BY <1>3, <1>4, <2>4, <2>5, <2>6 DEF WorkInv
<1> QED
  BY <1>1, <1>5, <1>6

-----------------------------------------------------------------------------
\* The invariant is inductive.
LEMMA StepWork == WorkInv /\ [Next]_vars => WorkInv'
<1> SUFFICES ASSUME WorkInv, [Next]_vars PROVE WorkInv'
  OBVIOUS
<1>1. ASSUME NEW c \in 0..MaxBatch, NEW k \in 0..1, Commit(c, k) PROVE WorkInv'
  BY <1>1, CommitWork
<1>2. ASSUME NEW w \in Workers, Step(w) PROVE WorkInv'
  BY <1>2, InspectWork, MoveWork, ReconstructWork, DispatchWork, AcknowledgeWork DEF Step
<1>3. ASSUME NEW w \in Workers, Fail(w) \/ Abort(w) PROVE WorkInv'
  BY <1>3, FailWork, MoveWork
<1>4. ASSUME NEW w \in Workers, NEW n \in 1..Len(journal), Deliver(w, n) PROVE WorkInv'
  BY <1>4, DeliverWork
<1>5. CASE Calm \/ UNCHANGED vars
  <2>1. /\ UNCHANGED <<journal, pending, floor, handled, pc, msg, seen, next>>
        /\ Events' = Events /\ Position' = Position
    BY <1>5, Frame DEF Calm, vars, durable, local, Position
  <2>2. calm' \in BOOLEAN
    BY <1>5, Zenon DEF Calm, vars, WorkInv, TypeOK
  <2>3. TypeOK'
    BY <2>1, <2>2 DEF WorkInv, TypeOK
  <2> QED
    BY <2>1, <2>3 DEF WorkInv, PendingIsNext, ConfirmedWasHandled, EffectsInOrder, WorkerInv,
                      IsFirstAfter, Transaction
<1> QED
  BY <1>1, <1>2, <1>3, <1>4, <1>5 DEF Next

\* The invariant holds of every behaviour of the workers.
THEOREM WorkersCorrect == Spec => []WorkInv
  BY InitWork, StepWork, PTL DEF Spec

\* Handlers run for events only and every variable keeps its type.
THEOREM WorkerTypes == Spec => []TypeOK
<1>1. WorkInv => TypeOK
  BY DEF WorkInv
<1> QED
  BY <1>1, WorkersCorrect, PTL

\* A confirmed event's whole transaction was handled, however deliveries overlap,
\* handlers fail and workers restart (process_event, acknowledge_delivery).
THEOREM ProgressCertifiesWork == Spec => []ConfirmedWasHandled
<1>1. WorkInv => ConfirmedWasHandled
  BY DEF WorkInv
<1> QED
  BY <1>1, WorkersCorrect, PTL

\* No event has its first effect before an earlier one (handle_transaction).
THEOREM FirstEffectsOrdered == Spec => []EffectsInOrder
<1>1. WorkInv => EffectsInOrder
  BY DEF WorkInv
<1> QED
  BY <1>1, WorkersCorrect, PTL

\* validate_first_event never refuses what the event store committed.
THEOREM SoundHistoryAccepted == Spec => []HistoryAccepted
<1>1. WorkInv => HistoryAccepted
  BY DEF WorkInv, WorkerInv, HistoryAccepted
<1> QED
  BY <1>1, WorkersCorrect, PTL

-----------------------------------------------------------------------------
(* Read models: the inductive invariant. *)

ModelStates == [value : [Model!Sources -> Seq(Nat)], positions : [Model!Sources -> Nat]]

ModelHolds(s, src, v) == \E n \in 1..Len(s.value[src]) : s.value[src][n] = v

\* Nothing of s is missing in t.
ModelBelow(s, t) ==
    \A src \in Model!Sources :
        s.positions[src] <= t.positions[src] /\ \A v : ModelHolds(s, src, v) => ModelHolds(t, src, v)

\* A document of key k that only whole deliveries have made: the domain events up to its
\* checkpoint, each once and in order; no broker message that was not delivered yet,
\* and the one it stands at; and every consecutive version.
ModelSound(k, s) ==
    /\ s \in ModelStates
    /\ s.positions["domain"] <= Len(hist) /\ Model!InOrder(s.value["domain"])
    /\ \A v : ModelHolds(s, "domain", v) <=> v \in Model!Routed(k, 0, s.positions["domain"])
    /\ "broker" \in Orders =>
          /\ s.positions["broker"] <= settled + 1
          /\ s.positions["broker"] # 0 => ModelHolds(s, "broker", s.positions["broker"])
    /\ "consecutive" \in Orders => \A v \in 1..s.positions["consecutive"] : ModelHolds(s, "consecutive", v)

ModelTypeInv ==
    /\ hist \in Seq(Keys \cup {Unhandled}) /\ bus \in Seq([src : Orders, key : Keys, ver : Nat])
    /\ \A i \in 1..Len(bus) : bus[i].src = "broker" => bus[i].ver = i
    /\ settled \in 0..Len(bus) /\ seq \in Nat
    /\ bucket \in [Keys -> [op : {"none", "put", "del"}, rev : Nat, state : ModelStates]]
    /\ phase \in [Workers -> Model!PCs] /\ base \in [Workers -> Nat] /\ draft \in [Workers -> ModelStates]
    /\ job = [w \in Workers |-> job[w]]

\* What the bucket holds under a key.
ModelEntry(k) ==
    /\ bucket[k].rev <= seq /\ ModelSound(k, bucket[k].state)
    /\ IF bucket[k].op = "put" THEN bucket[k].rev # 0 ELSE bucket[k].state = Model!Default

\* A state computed from the revision rev keeps what the document holds at that revision.
ModelFollows(k, rev, s) == bucket[k].rev = rev => ModelBelow(bucket[k].state, s)

\* The state has the effect of a delivery.
ModelHas(s, src, v) == IF src \in {"domain", "latest"} THEN s.positions[src] >= v ELSE ModelHolds(s, src, v)

ModelEffect(k, src, v) == k \in removed.keys \/ ModelHas(bucket[k].state, src, v)

\* What a delivery is about is stored.
ModelDelivery(j) ==
    /\ j.key \in Keys /\ j.ver \in Nat
    /\ IF j.src = "domain" THEN j.ver \in 1..Len(hist) /\ hist[j.ver] = j.key
       ELSE /\ j.src \in Orders /\ j.id \in 1..(settled + 1) /\ j.id <= Len(bus)
            /\ bus[j.id].src = j.src /\ bus[j.id].key = j.key /\ bus[j.id].ver = j.ver

\* What a worker may rely on at each of its steps.
ModelLocal(j, p, b, d) ==
    /\ b <= seq
    /\ p # "idle" => ModelDelivery(j)
    /\ p \notin {"idle", "quarantine"} => j.ver # 0
    /\ p = "quarantine" => j.src # "domain"
    /\ p \in {"replay", "create", "write"} => ModelSound(j.key, d) /\ ModelFollows(j.key, b, d)
    /\ p = "replay" => j.src = "domain" /\ d.positions["domain"] < j.ver
    /\ p \in {"create", "write"} => ModelHas(d, j.src, j.ver)
    /\ p = "ok" => (j.src # "domain" /\ j.id <= settled) \/ ModelEffect(j.key, j.src, j.ver)

ModelLocalInv == \A w \in Workers : ModelLocal(job[w], phase[w], base[w], draft[w])

\* A write that may still arrive.
ModelLate(x) == x.key \in Keys /\ x.rev <= seq /\ x.rev \in Nat /\ ModelSound(x.key, x.state) /\ ModelFollows(x.key, x.rev, x.state)

ModelDispatched(v) == v \in 1..Len(hist) /\ hist[v] \in Keys /\ ModelEffect(hist[v], "domain", v)
ModelSettled(i) == i \in quarantined \/ ModelEffect(bus[i].key, bus[i].src, bus[i].ver)

ModelInv ==
    /\ ModelTypeInv /\ ModelLocalInv
    /\ \A k \in Keys : ModelEntry(k)
    /\ \A x \in lost : ModelLate(x)
    /\ \A v \in dispatched : ModelDispatched(v)
    /\ \A i \in 1..settled : ModelSettled(i)

-----------------------------------------------------------------------------
LEMMA ModelSourceFacts ==
    /\ "domain" \in Model!Sources /\ "domain" \notin Orders /\ Orders \subseteq Model!Sources
    /\ \A o \in Orders : o \in {"broker", "consecutive", "latest"}
BY ModelAssumption DEF Model!ReadModelAssumption, Model!Sources

LEMMA ModelDefaultFacts ==
    /\ Model!Default \in ModelStates
    /\ \A src \in Model!Sources : Model!Default.positions[src] = 0 /\ Model!Default.value[src] = << >> /\ \A v : ~ModelHolds(Model!Default, src, v)
<1>1. \A src \in Model!Sources : Model!Default.positions[src] = 0 /\ Model!Default.value[src] = << >>
  BY DEF Model!Default
<1>2. Model!Default \in ModelStates BY DEF Model!Default, ModelStates
<1>3. \A src \in Model!Sources : \A v : ~ModelHolds(Model!Default, src, v) BY <1>1 DEF ModelHolds
<1> QED BY <1>1, <1>2, <1>3

LEMMA ModelBelowFacts ==
    /\ \A s \in ModelStates : ModelBelow(s, s) /\ ModelBelow(Model!Default, s)
    /\ \A r, s, t \in ModelStates : ModelBelow(r, s) /\ ModelBelow(s, t) => ModelBelow(r, t)
<1>1. \A s \in ModelStates : \A src \in Model!Sources : s.positions[src] \in Nat BY DEF ModelStates
<1> QED BY <1>1, ModelDefaultFacts DEF ModelBelow

ModelExtended(s, t, src, vs, v) ==
    /\ t \in ModelStates /\ t.positions[src] = v /\ t.value[src] = s.value[src] \o vs
    /\ \A o \in Model!Sources \ {src} : t.positions[o] = s.positions[o] /\ t.value[o] = s.value[o]
    /\ \A x : ModelHolds(t, src, x) <=> ModelHolds(s, src, x) \/ \E n \in 1..Len(vs) : vs[n] = x
    /\ \A o \in Model!Sources \ {src} : \A x : ModelHolds(t, o, x) <=> ModelHolds(s, o, x)

LEMMA ModelWithAppliedFacts ==
    ASSUME NEW s \in ModelStates, NEW src \in Model!Sources, NEW vs \in Seq(Nat), NEW v \in Nat
    PROVE  ModelExtended(s, Model!WithApplied(s, src, vs, v), src, vs, v)
<1>1. PICK t : t = Model!WithApplied(s, src, vs, v) OBVIOUS
<1>2. /\ s.value \in [Model!Sources -> Seq(Nat)] /\ s.positions \in [Model!Sources -> Nat] BY DEF ModelStates
<1>3. PICK q \in Seq(Nat) : q = s.value[src] BY <1>2
<1>4. /\ t.value = [s.value EXCEPT ![src] = q \o vs] /\ t.positions = [s.positions EXCEPT ![src] = v]
      /\ t = [value |-> t.value, positions |-> t.positions]
  BY <1>1, <1>3 DEF Model!WithApplied
<1>5. q \o vs \in Seq(Nat) /\ Len(q \o vs) = Len(q) + Len(vs)
      /\ \A i \in 1..(Len(q) + Len(vs)) : (q \o vs)[i] = IF i <= Len(q) THEN q[i] ELSE vs[i - Len(q)]
  BY ConcatProperties
<1>6. t.value \in [Model!Sources -> Seq(Nat)] /\ t.positions \in [Model!Sources -> Nat] BY <1>2, <1>4, <1>5
<1>7. t \in ModelStates BY <1>4, <1>6 DEF ModelStates
<1>8. t.positions[src] = v /\ t.value[src] = q \o vs BY <1>2, <1>4
<1>9. \A o \in Model!Sources \ {src} : t.positions[o] = s.positions[o] /\ t.value[o] = s.value[o] BY <1>2, <1>4
<1>10. ASSUME NEW x PROVE ModelHolds(t, src, x) <=> ModelHolds(s, src, x) \/ \E n \in 1..Len(vs) : vs[n] = x
  <2>1. Len(q) \in Nat /\ Len(vs) \in Nat OBVIOUS
  <2>2. ASSUME NEW n \in 1..Len(q), q[n] = x PROVE ModelHolds(t, src, x)
    <3>1. n \in 1..(Len(q) + Len(vs)) BY <2>1
    <3>2. (q \o vs)[n] = x BY <1>5, <2>2, <3>1
    <3> QED BY <1>5, <1>8, <3>1, <3>2 DEF ModelHolds
  <2>3. ASSUME NEW n \in 1..Len(vs), vs[n] = x PROVE ModelHolds(t, src, x)
    <3>1. Len(q) + n \in 1..(Len(q) + Len(vs)) /\ ~(Len(q) + n <= Len(q)) /\ (Len(q) + n) - Len(q) = n BY <2>1
    <3>2. (q \o vs)[Len(q) + n] = x BY <1>5, <2>3, <3>1
    <3> QED BY <1>5, <1>8, <3>1, <3>2 DEF ModelHolds
  <2>4. ASSUME ModelHolds(t, src, x) PROVE ModelHolds(s, src, x) \/ \E n \in 1..Len(vs) : vs[n] = x
    <3>1. PICK n \in 1..(Len(q) + Len(vs)) : (q \o vs)[n] = x BY <1>5, <1>8, <2>4 DEF ModelHolds
    <3>2. CASE n <= Len(q)
      <4>1. n \in 1..Len(q) /\ q[n] = x BY <1>5, <2>1, <3>1, <3>2
      <4> QED BY <1>3, <4>1 DEF ModelHolds
    <3>3. CASE ~(n <= Len(q))
      <4>1. n - Len(q) \in 1..Len(vs) /\ vs[n - Len(q)] = x BY <1>5, <2>1, <3>1, <3>3
      <4> QED BY <4>1
    <3> QED BY <3>2, <3>3
  <2> QED BY <1>3, <2>2, <2>3, <2>4 DEF ModelHolds
<1>11. \A o \in Model!Sources \ {src} : \A x : ModelHolds(t, o, x) <=> ModelHolds(s, o, x) BY <1>9 DEF ModelHolds
<1> QED BY <1>1, <1>3, <1>7, <1>8, <1>9, <1>10, <1>11 DEF ModelExtended

-----------------------------------------------------------------------------
(* A finite set of numbers has an enumeration in order. *)

LEMMA ModelEnumeration ==
    ASSUME NEW S \in SUBSET Nat, IsFiniteSet(S)
    PROVE  /\ Cardinality(S) \in Nat
           /\ \E q \in [1..Cardinality(S) -> S] : Model!InOrder(q)
           /\ \A q \in [1..Cardinality(S) -> S] : Model!InOrder(q) => {q[i] : i \in 1..Cardinality(S)} = S
<1>1. PICK n \in Nat : n = Cardinality(S) BY FS_CardinalityType
<1>2. IsFiniteSet(1..n) /\ Cardinality(1..n) = n
  <2>1. 1 \in Int /\ n \in Int /\ (IF 1 > n THEN 0 ELSE n - 1 + 1) = n BY <1>1
  <2> QED BY <2>1, FS_Interval
<1> DEFINE Upto(v) == {u \in S : u <= v}
           Rank == [v \in S |-> Cardinality(Upto(v))]
<1>3. ASSUME NEW v \in S PROVE IsFiniteSet(Upto(v)) /\ Rank[v] \in 1..n
  <2>1. Upto(v) \subseteq S /\ v \in Upto(v) OBVIOUS
  <2>2. IsFiniteSet(Upto(v)) /\ Cardinality(Upto(v)) <= n BY <1>1, <2>1, FS_Subset
  <2>3. Cardinality(Upto(v)) \in Nat BY <2>2, FS_CardinalityType
  <2>4. Cardinality(Upto(v)) # 0 BY <2>1, <2>2, FS_EmptySet
  <2> QED BY <2>2, <2>3, <2>4
<1>4. ASSUME NEW u \in S, NEW v \in S, u < v PROVE Rank[u] < Rank[v]
  <2>1. Upto(u) \subseteq Upto(v) /\ Upto(u) # Upto(v)
    <3>1. v \in Upto(v) /\ v \notin Upto(u) BY <1>4
    <3>2. \A x \in S : x <= u => x <= v BY <1>4
    <3> QED BY <3>1, <3>2
  <2>2. Cardinality(Upto(u)) < Cardinality(Upto(v)) BY <1>3, <2>1, FS_Subset
  <2> QED BY <2>2
<1>5. {Rank[v] : v \in S} = 1..n
  <2>1. Rank \in [S -> 1..n] BY <1>3
  <2>2. \A u, v \in S : Rank[u] = Rank[v] => u = v
    <3> SUFFICES ASSUME NEW u \in S, NEW v \in S, u # v PROVE Rank[u] # Rank[v] OBVIOUS
    <3>1. Rank[u] \in Nat /\ Rank[v] \in Nat BY <1>3
    <3>2. u < v \/ v < u OBVIOUS
    <3> QED BY <1>4, <3>1, <3>2
  <2>3. {Rank[v] : v \in S} \subseteq 1..n BY <2>1
  <2>4. Cardinality({Rank[v] : v \in S}) = n
    <3>1. Rank \in Surjection(S, {Rank[v] : v \in S}) BY <2>1 DEF Surjection
    <3>2. Rank \in Injection(S, {Rank[v] : v \in S}) BY <2>1, <2>2 DEF Injection, IsInjective
    <3>3. Rank \in Bijection(S, {Rank[v] : v \in S}) BY <3>1, <3>2 DEF Bijection
    <3>4. ExistsBijection(S, {Rank[v] : v \in S}) BY <3>3 DEF ExistsBijection
    <3> QED BY <1>1, <3>4, FS_Bijection
  <2> QED BY <1>2, <2>3, <2>4, FS_Subset
<1>6. \E q \in [1..n -> S] : Model!InOrder(q)
  <2> DEFINE q == [i \in 1..n |-> CHOOSE v \in S : Rank[v] = i]
  <2>1. \A i \in 1..n : q[i] \in S /\ Rank[q[i]] = i
    <3> SUFFICES ASSUME NEW i \in 1..n PROVE q[i] \in S /\ Rank[q[i]] = i OBVIOUS
    <3>1. \E v \in S : Rank[v] = i BY <1>5
    <3> HIDE DEF Rank
    <3> QED BY <3>1
  <2>2. ASSUME NEW i \in 1..n, NEW j \in 1..n, i < j PROVE q[i] < q[j]
    <3> HIDE DEF q, Rank
    <3>1. q[i] \in Nat /\ q[j] \in Nat BY <2>1
    <3>2. CASE q[j] < q[i]
      <4>1. Rank[q[j]] < Rank[q[i]] BY <1>4, <2>1, <3>2
      <4>2. j < i BY <2>1, <4>1
      <4> QED BY <2>2, <4>2
    <3>3. CASE q[i] = q[j] BY <2>1, <2>2, <3>3
    <3> QED BY <3>1, <3>2, <3>3
  <2>3. q \in [1..n -> S] BY <2>1
  <2>4. Model!InOrder(q) BY <2>2 DEF Model!InOrder
  <2> QED BY <2>3, <2>4
<1>7. ASSUME NEW q \in [1..n -> S], Model!InOrder(q) PROVE {q[i] : i \in 1..n} = S
  <2>1. \A i, j \in 1..n : q[i] = q[j] => i = j
    <3> SUFFICES ASSUME NEW i \in 1..n, NEW j \in 1..n, i # j PROVE q[i] # q[j] OBVIOUS
    <3>1. i < j \/ j < i OBVIOUS
    <3>2. q[i] \in Nat /\ q[j] \in Nat OBVIOUS
    <3> QED BY <1>7, <3>1, <3>2 DEF Model!InOrder
  <2>2. Cardinality({q[i] : i \in 1..n}) = n
    <3>1. q \in Surjection(1..n, {q[i] : i \in 1..n}) BY DEF Surjection
    <3>2. q \in Injection(1..n, {q[i] : i \in 1..n}) BY <2>1 DEF Injection, IsInjective
    <3>3. q \in Bijection(1..n, {q[i] : i \in 1..n}) BY <3>1, <3>2 DEF Bijection
    <3>4. ExistsBijection(1..n, {q[i] : i \in 1..n}) BY <3>3 DEF ExistsBijection
    <3> QED BY <1>2, <3>4, FS_Bijection
  <2>3. {q[i] : i \in 1..n} \subseteq S OBVIOUS
  <2> QED BY <1>1, <2>2, <2>3, FS_Subset
<1> QED BY <1>1, <1>6, <1>7

ModelEnumerates(q, S) == q \in Seq(Nat) /\ Model!InOrder(q) /\ {q[i] : i \in DOMAIN q} = S

ModelCandidates(S, b) == UNION {[1..n -> S] : n \in 0..b}
ModelOrderedListing(q, S) == Model!InOrder(q) /\ {q[i] : i \in DOMAIN q} = S

LEMMA ModelRelevantFacts ==
    ASSUME NEW k, NEW a \in Nat, NEW b \in Nat
    PROVE  ModelEnumerates(Model!Relevant(k, a, b), Model!Routed(k, a, b))
<1>1. PICK S : S = Model!Routed(k, a, b) OBVIOUS
<1>2. S \subseteq 1..b BY <1>1 DEF Model!Routed
<1>3. S \in SUBSET Nat BY <1>2
<1>4. IsFiniteSet(S) /\ Cardinality(S) \in 0..b
  <2>1. 1 \in Int /\ b \in Int /\ (IF 1 > b THEN 0 ELSE b - 1 + 1) = b OBVIOUS
  <2>2. IsFiniteSet(1..b) /\ Cardinality(1..b) = b BY <2>1, FS_Interval
  <2>3. IsFiniteSet(S) /\ Cardinality(S) <= Cardinality(1..b) BY <1>2, <2>2, FS_Subset
  <2>4. Cardinality(S) \in Nat BY <2>3, FS_CardinalityType
  <2> QED BY <2>2, <2>3, <2>4
<1>5. PICK n \in 0..b : n = Cardinality(S) BY <1>4
<1>6. PICK r \in [1..n -> S] : Model!InOrder(r) BY <1>3, <1>4, <1>5, ModelEnumeration
<1>7. r \in ModelCandidates(S, b) /\ ModelOrderedListing(r, S)
  <2>1. {r[i] : i \in 1..n} = S BY <1>3, <1>4, <1>5, <1>6, ModelEnumeration
  <2>2. DOMAIN r = 1..n BY <1>6
  <2> QED BY <1>5, <1>6, <2>1, <2>2 DEF ModelCandidates, ModelOrderedListing
<1>8. PICK q : q = Model!Relevant(k, a, b) OBVIOUS
<1>9. q \in ModelCandidates(S, b) /\ ModelOrderedListing(q, S)
  <2>1. q = CHOOSE p \in ModelCandidates(S, b) : ModelOrderedListing(p, S)
    BY <1>1, <1>8 DEF Model!Relevant, ModelCandidates, ModelOrderedListing
  <2> QED BY <1>7, <2>1
<1>10. q \in Seq(Nat)
  <2>1. PICK m \in 0..b : q \in [1..m -> S] BY <1>9 DEF ModelCandidates
  <2>2. m \in Nat BY <2>1
  <2>3. \A i \in 1..m : q[i] \in Nat BY <1>3, <2>1
  <2>4. q \in [1..m -> Nat]
    <3>1. q = [i \in 1..m |-> q[i]] BY ONLY <2>1
    <3> QED BY ONLY <2>3, <3>1
  <2> QED BY <2>2, <2>4
<1> QED BY <1>1, <1>8, <1>9, <1>10 DEF ModelEnumerates, ModelOrderedListing

-----------------------------------------------------------------------------
(* Time passes: streams grow, and documents are replaced by ones that hold more. *)

ModelGrows ==
    /\ Len(hist) <= Len(hist)' /\ \A v \in 1..Len(hist) : hist'[v] = hist[v]
    /\ Len(bus) <= Len(bus)' /\ \A i \in 1..Len(bus) : bus'[i] = bus[i]
    /\ settled <= settled' /\ seq <= seq' /\ removed.keys \subseteq removed'.keys /\ quarantined \subseteq quarantined'
    /\ \A k \in Keys : bucket'[k] = bucket[k] \/ bucket'[k].rev > seq \/ bucket'[k].state = Model!Default
    /\ \A k \in Keys : k \in removed'.keys \/ ModelBelow(bucket[k].state, bucket'[k].state)

LEMMA ModelHasBelow ==
    ASSUME NEW s \in ModelStates, NEW t \in ModelStates, ModelBelow(s, t), NEW src \in Model!Sources, NEW v \in Nat, ModelHas(s, src, v)
    PROVE  ModelHas(t, src, v)
<1>1. s.positions[src] \in Nat /\ t.positions[src] \in Nat BY DEF ModelStates
<1>2. s.positions[src] <= t.positions[src] /\ (ModelHolds(s, src, v) => ModelHolds(t, src, v)) BY DEF ModelBelow
<1> QED BY <1>1, <1>2 DEF ModelHas

LEMMA ModelRoutedKept ==
    ASSUME ModelTypeInv, ModelTypeInv', ModelGrows, NEW k, NEW b \in Nat, b <= Len(hist)
    PROVE  Model!Routed(k, 0, b)' = Model!Routed(k, 0, b)
<1>1. Len(hist) \in Nat /\ \A v \in (0 + 1)..b : v \in 1..Len(hist) BY DEF ModelTypeInv
<1>2. \A v \in (0 + 1)..b : hist'[v] = hist[v] BY <1>1 DEF ModelGrows
<1> QED BY <1>2 DEF Model!Routed

LEMMA ModelSoundKept ==
    ASSUME ModelTypeInv, ModelTypeInv', ModelGrows, NEW k, NEW s, ModelSound(k, s)
    PROVE  ModelSound(k, s)'
<1>1. s \in ModelStates /\ s.positions["domain"] \in Nat BY ModelSourceFacts DEF ModelSound, ModelStates
<1>2. Model!Routed(k, 0, s.positions["domain"])' = Model!Routed(k, 0, s.positions["domain"])
  BY <1>1, ModelRoutedKept DEF ModelSound
<1>3. s.positions["domain"] <= Len(hist)'
  <2>1. Len(hist) \in Nat /\ Len(hist)' \in Nat /\ Len(hist) <= Len(hist)' BY DEF ModelTypeInv, ModelGrows
  <2>2. s.positions["domain"] <= Len(hist) BY DEF ModelSound
  <2> QED BY <1>1, <2>1, <2>2
<1>4. ASSUME "broker" \in Orders PROVE s.positions["broker"] <= settled' + 1
  <2>1. s.positions["broker"] \in Nat BY <1>1, <1>4, ModelSourceFacts DEF ModelStates
  <2>2. s.positions["broker"] <= settled + 1 BY <1>4 DEF ModelSound
  <2>3. settled \in Nat /\ settled' \in Nat /\ settled <= settled' BY DEF ModelTypeInv, ModelGrows
  <2> QED BY <2>1, <2>2, <2>3
<1> QED BY <1>2, <1>3, <1>4 DEF ModelSound

LEMMA ModelFollowsKept ==
    ASSUME ModelTypeInv, ModelTypeInv', ModelGrows, NEW k \in Keys, NEW rev \in Nat, rev <= seq, NEW s \in ModelStates, ModelFollows(k, rev, s)
    PROVE  ModelFollows(k, rev, s)'
<1>1. CASE bucket'[k] = bucket[k] BY <1>1 DEF ModelFollows
<1>2. CASE bucket'[k].rev > seq
  <2>1. bucket'[k].rev \in Nat /\ seq \in Nat BY DEF ModelTypeInv
  <2> QED BY <1>2, <2>1 DEF ModelFollows
<1>3. CASE bucket'[k].state = Model!Default BY <1>3, ModelBelowFacts DEF ModelFollows
<1> QED BY <1>1, <1>2, <1>3 DEF ModelGrows

LEMMA ModelEffectKept ==
    ASSUME ModelTypeInv, ModelTypeInv', ModelGrows, NEW k \in Keys, NEW src \in Model!Sources, NEW v \in Nat, ModelEffect(k, src, v)
    PROVE  ModelEffect(k, src, v)'
<1>1. CASE k \in removed'.keys BY <1>1 DEF ModelEffect
<1>2. CASE k \notin removed'.keys
  <2>1. bucket[k].state \in ModelStates /\ bucket'[k].state \in ModelStates BY DEF ModelTypeInv
  <2>2. k \notin removed.keys /\ ModelBelow(bucket[k].state, bucket'[k].state) BY <1>2 DEF ModelGrows
  <2>3. ModelHas(bucket'[k].state, src, v) BY <2>1, <2>2, ModelHasBelow DEF ModelEffect
  <2> QED BY <2>3 DEF ModelEffect
<1> QED BY <1>1, <1>2

LEMMA ModelDeliveryKept ==
    ASSUME ModelTypeInv, ModelTypeInv', ModelGrows, NEW j, ModelDelivery(j)
    PROVE  ModelDelivery(j)'
<1>1. Len(hist) \in Nat /\ Len(hist)' \in Nat /\ Len(bus) \in Nat /\ Len(bus)' \in Nat BY DEF ModelTypeInv
<1>2. settled \in Nat /\ settled' \in Nat BY DEF ModelTypeInv
<1>3. CASE j.src = "domain" BY <1>1, <1>3 DEF ModelDelivery, ModelGrows
<1>4. CASE j.src # "domain"
  <2>1. j.id \in 1..Len(bus) BY <1>1, <1>2, <1>4 DEF ModelDelivery
  <2>2. bus'[j.id] = bus[j.id] BY <2>1 DEF ModelGrows
  <2>3. j.id \in 1..(settled' + 1) /\ j.id <= Len(bus)' BY <1>1, <1>2, <1>4, <2>1 DEF ModelDelivery, ModelGrows
  <2> QED BY <1>4, <2>2, <2>3 DEF ModelDelivery
<1> QED BY <1>3, <1>4

LEMMA ModelLocalKept ==
    ASSUME ModelTypeInv, ModelTypeInv', ModelGrows, NEW j, NEW p, NEW b \in Nat, NEW d \in ModelStates, ModelLocal(j, p, b, d)
    PROVE  ModelLocal(j, p, b, d)'
<1>1. seq \in Nat /\ seq' \in Nat /\ seq <= seq' /\ settled \in Nat /\ settled' \in Nat /\ settled <= settled' /\ b <= seq /\ b <= seq'
  BY DEF ModelTypeInv, ModelGrows, ModelLocal
<1>2. p # "idle" => ModelDelivery(j)' BY ModelDeliveryKept DEF ModelLocal
<1>3. p \in {"replay", "create", "write"} => ModelSound(j.key, d)' /\ ModelFollows(j.key, b, d)'
  <2> SUFFICES ASSUME p \in {"replay", "create", "write"} PROVE ModelSound(j.key, d)' /\ ModelFollows(j.key, b, d)' OBVIOUS
  <2>1. j.key \in Keys BY DEF ModelLocal, ModelDelivery
  <2> QED BY <1>1, <2>1, ModelSoundKept, ModelFollowsKept DEF ModelLocal
<1>4. p = "ok" => (j.src # "domain" /\ j.id <= settled') \/ ModelEffect(j.key, j.src, j.ver)'
  <2> SUFFICES ASSUME p = "ok" PROVE (j.src # "domain" /\ j.id <= settled') \/ ModelEffect(j.key, j.src, j.ver)' OBVIOUS
  <2>1. ModelDelivery(j) BY DEF ModelLocal
  <2>2. j.key \in Keys /\ j.src \in Model!Sources /\ j.ver \in Nat BY <2>1, ModelSourceFacts DEF ModelDelivery
  <2>3. CASE j.src # "domain" /\ j.id <= settled
    <3>1. j.id \in Nat BY <1>1, <2>1, <2>3 DEF ModelDelivery
    <3> QED BY <1>1, <2>3, <3>1
  <2>4. CASE ModelEffect(j.key, j.src, j.ver) BY <2>2, <2>4, ModelEffectKept
  <2> QED BY <2>3, <2>4 DEF ModelLocal
<1> QED BY <1>1, <1>2, <1>3, <1>4 DEF ModelLocal

LEMMA ModelLateKept ==
    ASSUME ModelTypeInv, ModelTypeInv', ModelGrows, NEW x, ModelLate(x)
    PROVE  ModelLate(x)'
<1>1. seq \in Nat /\ seq' \in Nat /\ seq <= seq' BY DEF ModelTypeInv, ModelGrows
<1>2. x.state \in ModelStates BY DEF ModelLate, ModelSound
<1> QED BY <1>1, <1>2, ModelSoundKept, ModelFollowsKept DEF ModelLate

\* A step keeps the invariant if time passes in it and it brings about no more than it may.
LEMMA ModelStepInv ==
    ASSUME ModelInv, ModelTypeInv', ModelGrows,
           \A k \in Keys : bucket'[k] = bucket[k] \/ ModelEntry(k)',
           \A w \in Workers : \/ /\ job'[w] = job[w] /\ phase'[w] = phase[w]
                                 /\ base'[w] = base[w] /\ draft'[w] = draft[w]
                              \/ ModelLocal(job[w], phase[w], base[w], draft[w])',
           \A x \in lost' : x \in lost \/ ModelLate(x)',
           \A v \in dispatched' : v \in dispatched \/ ModelDispatched(v)',
           \A i \in 1..settled' : i <= settled \/ ModelSettled(i)'
    PROVE  ModelInv'
<1> USE DEF ModelInv
<1>1. seq \in Nat /\ seq' \in Nat /\ seq <= seq' BY DEF ModelTypeInv, ModelGrows
<1>2. ASSUME NEW k \in Keys PROVE ModelEntry(k)'
  <2>1. CASE bucket'[k] = bucket[k]
    <3>2. bucket[k].rev \in Nat /\ bucket[k].rev <= seq /\ ModelSound(k, bucket[k].state)
      BY DEF ModelTypeInv, ModelEntry
    <3>3. PICK s : s = bucket[k].state OBVIOUS
    <3>4. ModelSound(k, s)' BY <3>2, <3>3, ModelSoundKept
    <3>5. s = bucket'[k].state BY <2>1, <3>3
    <3>6. bucket'[k].rev <= seq' BY <1>1, <2>1, <3>2
    <3> QED BY <2>1, <3>4, <3>5, <3>6 DEF ModelEntry
  <2> QED BY <2>1
<1>3. ASSUME NEW w \in Workers PROVE ModelLocal(job[w], phase[w], base[w], draft[w])'
  <2>1. CASE job'[w] = job[w] /\ phase'[w] = phase[w] /\ base'[w] = base[w] /\ draft'[w] = draft[w]
    <3>1. PICK j, p, b, d : j = job[w] /\ p = phase[w] /\ b = base[w] /\ d = draft[w] OBVIOUS
    <3>2. b \in Nat /\ d \in ModelStates BY <3>1 DEF ModelTypeInv
    <3>3. ModelLocal(j, p, b, d) BY <3>1 DEF ModelLocalInv
    <3>4. ModelLocal(j, p, b, d)' BY <3>2, <3>3, ModelLocalKept
    <3> QED BY <2>1, <3>1, <3>4
  <2> QED BY <2>1
<1>4. \A x \in lost' : ModelLate(x)' BY ModelLateKept
<1>5. ASSUME NEW v \in dispatched PROVE ModelDispatched(v)'
  <2>1. Len(hist) \in Nat /\ Len(hist)' \in Nat /\ Len(hist) <= Len(hist)' BY DEF ModelTypeInv, ModelGrows
  <2>2. v \in 1..Len(hist) /\ v \in Nat /\ v \in 1..Len(hist)' /\ hist'[v] = hist[v] /\ hist[v] \in Keys
    BY <2>1 DEF ModelDispatched, ModelGrows
  <2>3. PICK k \in Keys : k = hist[v] BY <2>2
  <2>4. ModelEffect(k, "domain", v)' BY <2>2, <2>3, ModelEffectKept, ModelSourceFacts DEF ModelDispatched
  <2> QED BY <2>2, <2>3, <2>4 DEF ModelDispatched
<1>6. ASSUME NEW i \in 1..settled', i <= settled PROVE ModelSettled(i)'
  <2>1. settled \in 0..Len(bus) /\ settled \in Nat /\ Len(bus) \in Nat BY DEF ModelTypeInv
  <2>2. i \in 1..settled /\ i \in 1..Len(bus) BY <1>6, <2>1
  <2>6. bus[i] \in [src : Orders, key : Keys, ver : Nat]
    <3>1. bus \in Seq([src : Orders, key : Keys, ver : Nat]) BY DEF ModelTypeInv
    <3> QED BY ONLY <2>2, <3>1, ElementOfSeq
  <2>7. bus'[i] = bus[i] BY <2>2 DEF ModelGrows
  <2>3. PICK m \in [src : Orders, key : Keys, ver : Nat] : m = bus[i] /\ m = bus'[i] BY <2>6, <2>7
  <2>4. CASE i \in quarantined BY <2>4 DEF ModelSettled, ModelGrows
  <2>5. CASE ModelEffect(m.key, m.src, m.ver)
    <3>1. ModelEffect(m.key, m.src, m.ver)' BY <2>5, ModelEffectKept, ModelSourceFacts
    <3> QED BY <2>3, <3>1 DEF ModelSettled
  <2> QED BY <2>2, <2>3, <2>4, <2>5 DEF ModelSettled
<1> QED BY <1>2, <1>3, <1>4, <1>5, <1>6 DEF ModelLocalInv

-----------------------------------------------------------------------------
(* What a delivery computes. *)

\* The conditions under which the versions vs, up to v, may be applied to s.
ModelApplies(k, s, src, vs, v) ==
    /\ s.positions[src] < v
    /\ IF src = "domain" THEN v <= Len(hist) /\ Model!InOrder(vs) /\ {vs[i] : i \in DOMAIN vs} = Model!Routed(k, s.positions["domain"], v)
       ELSE \E n \in 1..Len(vs) : vs[n] = v
    /\ src = "broker" => v <= settled + 1
    /\ src = "consecutive" => v = s.positions[src] + 1

LEMMA ModelConcatInOrder ==
    ASSUME NEW q \in Seq(Nat), NEW r \in Seq(Nat), Model!InOrder(q), Model!InOrder(r), NEW a \in Nat,
           \A i \in 1..Len(q) : q[i] <= a, \A i \in 1..Len(r) : a < r[i]
    PROVE  Model!InOrder(q \o r)
<1>1. Len(q) \in Nat /\ Len(r) \in Nat /\ DOMAIN q = 1..Len(q) /\ DOMAIN r = 1..Len(r) OBVIOUS
<1>2. /\ DOMAIN (q \o r) = 1..(Len(q) + Len(r))
      /\ \A i \in 1..(Len(q) + Len(r)) : (q \o r)[i] = IF i <= Len(q) THEN q[i] ELSE r[i - Len(q)]
  BY <1>1, ConcatProperties
<1> SUFFICES ASSUME NEW i \in 1..(Len(q) + Len(r)), NEW j \in 1..(Len(q) + Len(r)), i < j
             PROVE  (q \o r)[i] < (q \o r)[j]
  BY <1>2 DEF Model!InOrder
<1>3. CASE j <= Len(q)
  <2>1. i \in 1..Len(q) /\ j \in 1..Len(q) /\ i <= Len(q) BY <1>1, <1>3
  <2>2. q[i] < q[j] BY <1>1, <2>1 DEF Model!InOrder
  <2> QED BY <1>2, <1>3, <2>1, <2>2
<1>4. CASE i <= Len(q) /\ ~(j <= Len(q))
  <2>1. i \in 1..Len(q) /\ j - Len(q) \in 1..Len(r) BY <1>1, <1>4
  <2>2. q[i] <= a /\ a < r[j - Len(q)] /\ q[i] \in Nat /\ r[j - Len(q)] \in Nat BY <2>1, SMTT(30)
  <2>3. q[i] < r[j - Len(q)] BY <2>2
  <2> QED BY <1>2, <1>4, <2>3
<1>5. CASE ~(i <= Len(q))
  <2>1. i - Len(q) \in 1..Len(r) /\ j - Len(q) \in 1..Len(r) /\ i - Len(q) < j - Len(q) /\ ~(j <= Len(q))
    BY <1>1, <1>5
  <2>2. r[i - Len(q)] < r[j - Len(q)] BY <1>1, <2>1 DEF Model!InOrder
  <2> QED BY <1>2, <1>5, <2>1, <2>2
<1> QED BY <1>3, <1>4, <1>5

LEMMA ModelAppliedSound ==
    ASSUME ModelTypeInv, NEW k \in Keys, NEW s, ModelSound(k, s), NEW src \in Model!Sources, NEW vs \in Seq(Nat), NEW v \in Nat,
           ModelApplies(k, s, src, vs, v)
    PROVE  LET t == Model!WithApplied(s, src, vs, v) IN ModelSound(k, t) /\ ModelBelow(s, t) /\ ModelHas(t, src, v)
<1>1. PICK t : t = Model!WithApplied(s, src, vs, v) OBVIOUS
<1>2. s \in ModelStates /\ \A o \in Model!Sources : s.positions[o] \in Nat /\ s.value[o] \in Seq(Nat)
  BY DEF ModelSound, ModelStates
<1>3. /\ t \in ModelStates /\ t.positions[src] = v /\ t.value[src] = s.value[src] \o vs
      /\ \A o \in Model!Sources \ {src} : t.positions[o] = s.positions[o] /\ t.value[o] = s.value[o]
      /\ \A x : ModelHolds(t, src, x) <=> ModelHolds(s, src, x) \/ \E n \in 1..Len(vs) : vs[n] = x
      /\ \A o \in Model!Sources \ {src} : \A x : ModelHolds(t, o, x) <=> ModelHolds(s, o, x)
  <2>1. ModelExtended(s, t, src, vs, v) BY <1>1, <1>2, ModelWithAppliedFacts
  <2> QED BY <2>1 DEF ModelExtended
<1>4. ModelBelow(s, t)
  <2>1. ASSUME NEW o \in Model!Sources PROVE s.positions[o] <= t.positions[o] /\ \A x : ModelHolds(s, o, x) => ModelHolds(t, o, x)
    <3>1. CASE o = src BY <1>2, <1>3, <3>1 DEF ModelApplies
    <3>2. CASE o # src BY <1>2, <1>3, <3>2
    <3> QED BY <3>1, <3>2
  <2> QED BY <2>1 DEF ModelBelow
<1>5. ModelHas(t, src, v)
  <2>1. CASE src \in {"domain", "latest"} BY <1>3, <2>1 DEF ModelHas
  <2>2. CASE src \notin {"domain", "latest"} BY <1>3, <2>2 DEF ModelHas, ModelApplies
  <2> QED BY <2>1, <2>2
<1>6. /\ t.positions["domain"] <= Len(hist) /\ Model!InOrder(t.value["domain"])
      /\ \A x : ModelHolds(t, "domain", x) <=> x \in Model!Routed(k, 0, t.positions["domain"])
  <2>1. CASE src # "domain"
    <3>1. t.positions["domain"] = s.positions["domain"] /\ t.value["domain"] = s.value["domain"]
          /\ \A x : ModelHolds(t, "domain", x) <=> ModelHolds(s, "domain", x)
      BY <1>3, <2>1, ModelSourceFacts
    <3> QED BY <3>1 DEF ModelSound
  <2>2. CASE src = "domain"
    <3>1. PICK a \in Nat : a = s.positions["domain"] BY <1>2, ModelSourceFacts
    <3>2. PICK q \in Seq(Nat) : q = s.value["domain"] BY <1>2, ModelSourceFacts
    <3>3. a < v /\ v <= Len(hist) /\ Model!InOrder(vs) /\ {vs[i] : i \in DOMAIN vs} = Model!Routed(k, a, v)
      BY <2>2, <3>1 DEF ModelApplies
    <3>4. Model!InOrder(q) /\ \A x : ModelHolds(s, "domain", x) <=> x \in Model!Routed(k, 0, a)
      BY <3>1, <3>2 DEF ModelSound
    <3>5. \A x : (\E n \in 1..Len(vs) : vs[n] = x) <=> x \in Model!Routed(k, a, v)
      <4>1. DOMAIN vs = 1..Len(vs) OBVIOUS
      <4> QED BY <3>3, <4>1
    <3>6. \A i \in 1..Len(q) : q[i] <= a
      <4>1. \A i \in 1..Len(q) : ModelHolds(s, "domain", q[i]) BY <3>2 DEF ModelHolds
      <4> QED BY <3>4, <4>1 DEF Model!Routed
    <3>7. \A i \in 1..Len(vs) : a < vs[i]
      <4>1. \A x : x \in Model!Routed(k, a, v) => x \in (a + 1)..v BY DEF Model!Routed
      <4>2. \A x \in (a + 1)..v : a < x BY <3>1
      <4> QED BY <3>5, <4>1, <4>2
    <3>8. Model!InOrder(q \o vs) BY <3>3, <3>4, <3>6, <3>7, ModelConcatInOrder
    <3>9. \A x : x \in Model!Routed(k, 0, v) <=> x \in Model!Routed(k, 0, a) \/ x \in Model!Routed(k, a, v)
      <4>1. \A x : x \in (0 + 1)..v <=> x \in (0 + 1)..a \/ x \in (a + 1)..v BY <3>3
      <4> QED BY <4>1 DEF Model!Routed
    <3>10. t.positions["domain"] = v /\ t.value["domain"] = q \o vs BY <1>3, <2>2, <3>2
    <3>11. \A x : ModelHolds(t, "domain", x) <=> x \in Model!Routed(k, 0, v) BY <1>3, <2>2, <3>4, <3>5, <3>9
    <3> QED BY <3>3, <3>8, <3>10, <3>11
  <2> QED BY <2>1, <2>2
<1>7. ASSUME "broker" \in Orders
      PROVE  /\ t.positions["broker"] <= settled + 1
             /\ t.positions["broker"] # 0 => ModelHolds(t, "broker", t.positions["broker"])
  <2>1. CASE src = "broker" BY <1>3, <2>1 DEF ModelApplies
  <2>2. CASE src # "broker" BY <1>3, <1>7, <2>2, ModelSourceFacts DEF ModelSound
  <2> QED BY <2>1, <2>2
<1>8. ASSUME "consecutive" \in Orders, NEW x \in 1..t.positions["consecutive"] PROVE ModelHolds(t, "consecutive", x)
  <2>1. CASE src = "consecutive"
    <3>1. PICK a \in Nat : a = s.positions["consecutive"] BY <1>2, <1>8, ModelSourceFacts
    <3>2. v = a + 1 /\ \E n \in 1..Len(vs) : vs[n] = v BY <2>1, <3>1 DEF ModelApplies
    <3>3. x \in 1..a \/ x = v BY <1>3, <1>8, <2>1, <3>2
    <3> QED BY <1>3, <1>8, <2>1, <3>1, <3>2, <3>3 DEF ModelSound
  <2>2. CASE src # "consecutive" BY <1>3, <1>8, <2>2, ModelSourceFacts DEF ModelSound
  <2> QED BY <2>1, <2>2
<1> QED BY <1>1, <1>3, <1>4, <1>5, <1>6, <1>7, <1>8 DEF ModelSound

-----------------------------------------------------------------------------
(* One step per action. *)

LEMMA ModelSoundDefault ==
    ASSUME ModelTypeInv, NEW k
    PROVE  ModelSound(k, Model!Default)
<1>1. Model!Default.positions["domain"] = 0 /\ Model!Default.value["domain"] = << >> /\ Model!Default \in ModelStates
  BY ModelDefaultFacts, ModelSourceFacts
<1>2. Model!InOrder(<< >>) BY DEF Model!InOrder
<1>3. Model!Routed(k, 0, 0) = {} BY DEF Model!Routed
<1>4. \A v : ~ModelHolds(Model!Default, "domain", v) BY ModelDefaultFacts, ModelSourceFacts
<1>5. "broker" \in Orders => Model!Default.positions["broker"] = 0 BY ModelDefaultFacts, ModelSourceFacts
<1>6. "consecutive" \in Orders => Model!Default.positions["consecutive"] = 0 BY ModelDefaultFacts, ModelSourceFacts
<1>7. Len(hist) \in Nat /\ settled \in Nat BY DEF ModelTypeInv
<1> QED BY <1>1, <1>2, <1>3, <1>4, <1>5, <1>6, <1>7 DEF ModelSound

LEMMA ModelQuietGrows ==
    ASSUME ModelTypeInv, UNCHANGED <<bucket, removed, seq>>, settled' \in Nat, settled <= settled', quarantined \subseteq quarantined',
           hist' = hist \/ \E k : hist' = Append(hist, k), bus' = bus \/ \E m : bus' = Append(bus, m)
    PROVE  ModelGrows
<1>1. \A k \in Keys : ModelBelow(bucket[k].state, bucket[k].state) BY ModelBelowFacts DEF ModelTypeInv
<1>2. Len(hist) <= Len(hist)' /\ \A v \in 1..Len(hist) : hist'[v] = hist[v] BY DEF ModelTypeInv
<1>3. Len(bus) <= Len(bus)' /\ \A v \in 1..Len(bus) : bus'[v] = bus[v] BY DEF ModelTypeInv
<1>4. seq \in Nat BY DEF ModelTypeInv
<1> QED BY <1>1, <1>2, <1>3, <1>4 DEF ModelGrows

LEMMA ModelPublisherSteps ==
    ASSUME ModelInv,
           \/ \E k \in Keys \cup {Unhandled} : Model!Commit(k)
           \/ \E o \in Orders, k \in Keys, v \in Model!Versions : Model!Publish(o, k, v)
    PROVE  ModelInv'
<1> USE DEF ModelInv
<1>1. ASSUME NEW k \in Keys \cup {Unhandled}, Model!Commit(k) PROVE ModelInv'
  <2>1. hist' = Append(hist, k) /\ UNCHANGED <<bus, settled, delivered, quarantined, dispatched, bucket, seq, removed, lost, phase, job, tries, base, draft>>
    BY <1>1 DEF Model!Commit, Model!durable, Model!store, Model!local
  <2>2. ModelTypeInv' BY <2>1 DEF ModelTypeInv
  <2>3. ModelGrows BY <2>1, ModelQuietGrows DEF ModelTypeInv
  <2> QED BY <2>1, <2>2, <2>3, ModelStepInv DEF ModelTypeInv
<1>2. ASSUME NEW o \in Orders, NEW k \in Keys, NEW v \in Model!Versions, Model!Publish(o, k, v) PROVE ModelInv'
  <2>1. PICK m : m = [src |-> o, key |-> k, ver |-> v] OBVIOUS
  <2>2. bus' = Append(bus, m) /\ UNCHANGED <<hist, settled, delivered, quarantined, dispatched, bucket, seq, removed, lost, phase, job, tries, base, draft>>
    BY <1>2, <2>1 DEF Model!Publish, Model!durable, Model!store, Model!local
  <2>3. m \in [src : Orders, key : Keys, ver : Nat] /\ (m.src = "broker" => m.ver = Len(bus) + 1)
    <3>1. v \in Nat BY <1>2 DEF Model!Versions
    <3> QED BY <1>2, <2>1, <3>1 DEF Model!Publish
  <2>4. bus \in Seq([src : Orders, key : Keys, ver : Nat]) /\ Len(bus) \in Nat BY DEF ModelTypeInv
  <2>5. bus' \in Seq([src : Orders, key : Keys, ver : Nat]) /\ Len(bus)' = Len(bus) + 1 /\ bus'[Len(bus) + 1] = m
        /\ \A i \in 1..Len(bus) : bus'[i] = bus[i]
    BY <2>2, <2>3, <2>4
  <2>6. ASSUME NEW i \in 1..Len(bus)', bus'[i].src = "broker" PROVE bus'[i].ver = i
    <3>1. CASE i = Len(bus) + 1 BY <2>3, <2>5, <2>6, <3>1
    <3>2. CASE i \in 1..Len(bus) BY <2>5, <2>6, <3>2 DEF ModelTypeInv
    <3> QED BY <2>4, <2>5, <3>1, <3>2
  <2>7. ModelTypeInv' BY <2>2, <2>4, <2>5, <2>6 DEF ModelTypeInv
  <2>8. ModelGrows BY <2>2, ModelQuietGrows DEF ModelTypeInv
  <2>9. \A i \in 1..settled' : i <= settled BY <2>2 DEF ModelTypeInv
  <2> HIDE DEF ModelInv
  <2> QED BY <2>2, <2>7, <2>8, <2>9, ModelStepInv, SMTT(30)
<1> QED BY <1>1, <1>2

\* A document that is removed.
LEMMA ModelRemoveSteps ==
    ASSUME ModelInv, NEW k \in Keys, Model!Delete(k) \/ Model!Expire(k)
    PROVE  ModelInv'
<1> USE DEF ModelInv
<1>1. PICK e \in [op : {"none", "put", "del"}, rev : Nat, state : ModelStates] :
         /\ bucket' = [bucket EXCEPT ![k] = e] /\ e.state = Model!Default /\ e.op # "put" /\ e.rev <= seq'
  <2>1. Model!Default \in ModelStates /\ seq \in Nat BY ModelDefaultFacts DEF ModelTypeInv
  <2>2. CASE Model!Delete(k)
    <3>1. PICK e : e = [op |-> "del", rev |-> seq + 1, state |-> Model!Default] OBVIOUS
    <3>2. e \in [op : {"none", "put", "del"}, rev : Nat, state : ModelStates] BY <2>1, <3>1
    <3>3. bucket' = [bucket EXCEPT ![k] = e] /\ seq' = seq + 1 BY <2>2, <3>1 DEF Model!Delete
    <3>4. e.state = Model!Default /\ e.op # "put" /\ e.rev <= seq' BY <2>1, <3>1, <3>3
    <3> QED BY <3>2, <3>3, <3>4
  <2>3. CASE Model!Expire(k)
    <3>1. PICK e : e = [op |-> "none", rev |-> 0, state |-> Model!Default] OBVIOUS
    <3>2. e \in [op : {"none", "put", "del"}, rev : Nat, state : ModelStates] BY <2>1, <3>1
    <3>3. bucket' = [bucket EXCEPT ![k] = e] /\ seq' = seq BY <2>3, <3>1 DEF Model!Expire, Model!Absent
    <3>4. e.state = Model!Default /\ e.op # "put" /\ e.rev <= seq' BY <2>1, <3>1, <3>3
    <3> QED BY <3>2, <3>3, <3>4
  <2> QED BY <2>2, <2>3
<1>2. seq \in Nat /\ seq' \in Nat /\ seq <= seq' /\ removed'.keys = removed.keys \cup {k}
  BY DEF Model!Delete, Model!Expire, ModelTypeInv
<1>3. UNCHANGED <<hist, bus, settled, delivered, quarantined, dispatched, lost, phase, job, tries, base, draft>>
  BY DEF Model!Delete, Model!Expire, Model!world, Model!durable, Model!local
<1>4. ModelTypeInv' BY <1>1, <1>2, <1>3 DEF ModelTypeInv
<1>5. \A l \in Keys : l # k => bucket'[l] = bucket[l] BY <1>1 DEF ModelTypeInv
<1>6. bucket'[k] = e BY <1>1 DEF ModelTypeInv
<1>7. ModelGrows
  <2>1. \A l \in Keys : ModelBelow(bucket[l].state, bucket[l].state) BY ModelBelowFacts DEF ModelTypeInv
  <2>2. \A l \in Keys : l \in removed'.keys \/ ModelBelow(bucket[l].state, bucket'[l].state) BY <1>2, <1>5, <2>1
  <2>3. \A l \in Keys : bucket'[l] = bucket[l] \/ bucket'[l].state = Model!Default BY <1>1, <1>5, <1>6
  <2> QED BY <1>2, <1>3, <2>2, <2>3 DEF ModelGrows, ModelTypeInv
<1>8. ModelEntry(k)'
  <2>1. ModelSound(k, Model!Default)' BY <1>4, ModelSoundDefault, ModelSoundKept, <1>7
  <2>2. PICK r : r = bucket'[k].state OBVIOUS
  <2>3. ModelSound(k, r)' BY <1>1, <1>6, <2>1, <2>2
  <2> QED BY <1>1, <1>6, <2>2, <2>3 DEF ModelEntry
<1>9. \A i \in 1..settled' : i <= settled BY <1>3 DEF ModelTypeInv
<1>10. \A l \in Keys : bucket'[l] = bucket[l] \/ ModelEntry(l)' BY <1>5, <1>8
<1> QED BY <1>3, <1>4, <1>7, <1>9, <1>10, ModelStepInv

\* What worker w keeps after a step.
ModelAt(w, j, p, b, d) ==
    /\ job' = [job EXCEPT ![w] = j] /\ phase' = [phase EXCEPT ![w] = p]
    /\ base' = [base EXCEPT ![w] = b] /\ draft' = [draft EXCEPT ![w] = d]

\* A step of a worker that leaves the documents alone.
LEMMA ModelWorkerStep ==
    ASSUME ModelInv, NEW w \in Workers, NEW j, NEW p \in Model!PCs, NEW b \in Nat, NEW d \in ModelStates, ModelAt(w, j, p, b, d),
           UNCHANGED <<hist, bus, bucket, seq, removed>>, settled' \in 0..Len(bus), settled <= settled', quarantined \subseteq quarantined',
           ModelLocal(j, p, b, d),
           \A x \in lost' : x \in lost \/ ModelLate(x),
           \A v \in dispatched' : v \in dispatched \/ ModelDispatched(v),
           \A i \in 1..settled' : i <= settled \/ i \in quarantined' \/ ModelEffect(bus[i].key, bus[i].src, bus[i].ver)
    PROVE  ModelInv'
<1>1. ModelTypeInv' BY DEF ModelTypeInv, ModelAt, ModelInv
<1>2. ModelGrows BY ModelQuietGrows DEF ModelTypeInv, ModelInv
<1>3. ModelLocal(j, p, b, d)' BY <1>1, <1>2, ModelLocalKept DEF ModelInv
<1>4. ASSUME NEW v \in Workers
      PROVE  \/ job'[v] = job[v] /\ phase'[v] = phase[v] /\ base'[v] = base[v] /\ draft'[v] = draft[v]
             \/ ModelLocal(job[v], phase[v], base[v], draft[v])'
  <2>1. CASE v # w BY <2>1 DEF ModelAt, ModelTypeInv, ModelInv
  <2>2. CASE v = w
    <3>1. job'[w] = j /\ phase'[w] = p /\ base'[w] = b /\ draft'[w] = d BY DEF ModelAt, ModelTypeInv, ModelInv
    <3> QED BY <1>3, <2>2, <3>1
  <2> QED BY <2>1, <2>2
<1>5. \A x \in lost' : x \in lost \/ ModelLate(x)' BY <1>1, <1>2, ModelLateKept DEF ModelInv
<1>6. ASSUME NEW v, ModelDispatched(v) PROVE ModelDispatched(v)' BY <1>6 DEF ModelDispatched, ModelEffect
<1>7. \A i \in 1..settled' : i <= settled \/ ModelSettled(i)' BY DEF ModelSettled, ModelEffect
<1> QED BY <1>1, <1>2, <1>4, <1>5, <1>6, <1>7, ModelStepInv

LEMMA ModelWorkerFacts ==
    ASSUME ModelInv, NEW w \in Workers
    PROVE  /\ ModelLocal(job[w], phase[w], base[w], draft[w]) /\ base[w] \in Nat /\ draft[w] \in ModelStates
           /\ job = [job EXCEPT ![w] = job[w]] /\ base = [base EXCEPT ![w] = base[w]]
           /\ draft = [draft EXCEPT ![w] = draft[w]]
BY DEF ModelInv, ModelLocalInv, ModelTypeInv

\* Nothing is settled, dispatched or left behind.
LEMMA ModelMoveStep ==
    ASSUME ModelInv, NEW w \in Workers, NEW j, NEW p \in Model!PCs, NEW b \in Nat, NEW d \in ModelStates, ModelAt(w, j, p, b, d),
           UNCHANGED <<Model!world, settled, quarantined, dispatched, Model!store, lost>>, ModelLocal(j, p, b, d)
    PROVE  ModelInv'
<1>1. UNCHANGED <<hist, bus, bucket, seq, removed, settled, quarantined, dispatched, lost>>
  BY DEF Model!world, Model!store
<1>2. settled \in 0..Len(bus) /\ settled \in Nat BY DEF ModelInv, ModelTypeInv
<1> QED BY <1>1, <1>2, ModelWorkerStep

\* A worker moves on with what it has.
LEMMA ModelGotoStep ==
    ASSUME ModelInv, NEW w \in Workers, NEW p \in Model!PCs, Model!Goto(w, p), UNCHANGED <<job, base, draft>>,
           UNCHANGED <<Model!world, Model!durable, Model!store, lost>>, ModelLocal(job[w], p, base[w], draft[w])
    PROVE  ModelInv'
<1>1. ModelAt(w, job[w], p, base[w], draft[w]) BY ModelWorkerFacts DEF ModelAt, Model!Goto
<1>2. UNCHANGED <<Model!world, settled, quarantined, dispatched, Model!store, lost>> BY DEF Model!durable
<1> QED BY <1>1, <1>2, ModelWorkerFacts, ModelMoveStep

\* A delivery ends without an effect.
LEMMA ModelForgetStep ==
    ASSUME ModelInv, NEW w \in Workers, Model!Forget(w), UNCHANGED <<Model!world, Model!durable, Model!store, lost>>
    PROVE  ModelInv'
<1>1. ModelAt(w, Model!NoJob, "idle", 0, Model!Default) BY DEF Model!Forget, Model!Goto, ModelAt
<1>2. ModelLocal(Model!NoJob, "idle", 0, Model!Default) BY DEF ModelLocal, ModelInv, ModelTypeInv
<1>3. UNCHANGED <<Model!world, settled, quarantined, dispatched, Model!store, lost>> BY DEF Model!durable
<1> QED BY <1>1, <1>2, <1>3, ModelDefaultFacts, ModelMoveStep DEF Model!PCs

LEMMA ModelDispatchStep ==
    ASSUME ModelInv, NEW w \in Workers, NEW v, Model!DispatchDomain(w, v)
    PROVE  ModelInv'
<1>1. PICK j : j = [src |-> "domain", key |-> hist[v], ver |-> v, id |-> v, attempt |-> 1] OBVIOUS
<1>2. /\ phase[w] = "idle" /\ v \in 1..Len(hist) /\ hist[v] # Unhandled
      /\ job' = [job EXCEPT ![w] = j] /\ Model!Goto(w, "read") /\ UNCHANGED <<base, draft>>
      /\ UNCHANGED <<Model!world, settled, quarantined, dispatched, Model!store, lost>>
  BY <1>1 DEF Model!DispatchDomain, Model!Start, Model!durable
<1>3. ModelAt(w, j, "read", base[w], draft[w]) BY <1>2, ModelWorkerFacts DEF ModelAt, Model!Goto
<1>4. hist[v] \in Keys /\ v \in Nat /\ v # 0
  <2>1. hist[v] \in Keys \cup {Unhandled} BY <1>2, ElementOfSeq DEF ModelInv, ModelTypeInv
  <2> QED BY <1>2, <2>1
<1>5. j.src = "domain" /\ j.key = hist[v] /\ j.ver = v BY <1>1
<1>6. ModelDelivery(j) BY <1>2, <1>4, <1>5 DEF ModelDelivery
<1>7. ModelLocal(j, "read", base[w], draft[w]) BY <1>4, <1>5, <1>6, ModelWorkerFacts DEF ModelLocal
<1> QED BY <1>2, <1>3, <1>7, ModelWorkerFacts, ModelMoveStep DEF Model!PCs

LEMMA ModelDeliverStep ==
    ASSUME ModelInv, NEW w \in Workers, Model!DeliverIntegration(w)
    PROVE  ModelInv'
<1>1. PICK m : m = bus[settled + 1] OBVIOUS
<1>2. PICK j : j = [src |-> m.src, key |-> m.key, ver |-> m.ver, id |-> settled + 1, attempt |-> delivered'] OBVIOUS
<1>3. PICK p \in {"quarantine", "read"} : p = IF j.attempt > MaxAttempts \/ m.ver = 0 THEN "quarantine" ELSE "read" OBVIOUS
<1>4. /\ settled < Len(bus) /\ job' = [job EXCEPT ![w] = j] /\ Model!Goto(w, p) /\ UNCHANGED <<base, draft>>
      /\ UNCHANGED <<Model!world, settled, quarantined, dispatched, Model!store, lost>>
  BY <1>1, <1>2, <1>3 DEF Model!DeliverIntegration
<1>5. ModelAt(w, j, p, base[w], draft[w]) BY <1>4, ModelWorkerFacts DEF ModelAt, Model!Goto
<1>6. settled \in Nat /\ Len(bus) \in Nat /\ bus \in Seq([src : Orders, key : Keys, ver : Nat])
  BY DEF ModelInv, ModelTypeInv
<1>7. settled + 1 \in 1..Len(bus) BY <1>4, <1>6
<1>8. m \in [src : Orders, key : Keys, ver : Nat] BY <1>1, <1>6, <1>7, ElementOfSeq
<1>9. j.src = m.src /\ j.key = m.key /\ j.ver = m.ver /\ j.id = settled + 1 BY <1>2
<1>10. j.src # "domain" BY <1>8, <1>9, ModelSourceFacts
<1>11. ModelDelivery(j) BY <1>1, <1>6, <1>7, <1>8, <1>9, <1>10 DEF ModelDelivery
<1>12. p = "read" => j.ver # 0 BY <1>3, <1>9
<1>13. ModelLocal(j, p, base[w], draft[w]) BY <1>10, <1>11, <1>12, ModelWorkerFacts DEF ModelLocal
<1>14. p \in Model!PCs /\ base[w] \in Nat /\ draft[w] \in ModelStates BY ModelWorkerFacts DEF Model!PCs
<1> QED BY <1>4, <1>5, <1>13, <1>14, ModelMoveStep

\* A worker that gives up, or gives its message up.
LEMMA ModelFailSteps ==
    ASSUME ModelInv, NEW w \in Workers, Model!Unavailable(w) \/ Model!Refused(w) \/ Model!Abort(w) \/ Model!Defer(w)
    PROVE  ModelInv'
<1>1. CASE Model!Unavailable(w)
  <2>1. phase[w] \in {"read", "replay", "create", "write"} /\ Model!Goto(w, "retry") /\ UNCHANGED <<job, base, draft>>
        /\ UNCHANGED <<Model!world, Model!durable, Model!store, lost>>
    BY <1>1 DEF Model!Unavailable, Model!local
  <2>2. ModelLocal(job[w], "retry", base[w], draft[w]) BY <2>1, ModelWorkerFacts DEF ModelLocal
  <2> QED BY <2>1, <2>2, ModelGotoStep DEF Model!PCs
<1>2. CASE Model!Refused(w)
  <2>1. PICK p \in {"retry", "quarantine"} : p = IF job[w].src = "domain" THEN "retry" ELSE "quarantine" OBVIOUS
  <2>2. phase[w] = "write" /\ Model!Goto(w, p) /\ UNCHANGED <<job, base, draft>> /\ UNCHANGED <<Model!world, Model!durable, Model!store, lost>>
    BY <1>2, <2>1 DEF Model!Refused, Model!local
  <2>3. ModelLocal(job[w], p, base[w], draft[w]) BY <2>1, <2>2, ModelWorkerFacts DEF ModelLocal
  <2> QED BY <2>2, <2>3, ModelGotoStep DEF Model!PCs
<1>3. CASE Model!Abort(w) BY <1>3, ModelForgetStep DEF Model!Abort
<1>4. CASE Model!Defer(w)
  <2>1. CASE Model!Forget(w) BY <1>4, <2>1, ModelForgetStep DEF Model!Defer
  <2>2. CASE job[w].src # "domain" /\ Model!Goto(w, "quarantine") /\ UNCHANGED Model!local
    <3>1. phase[w] = "retry" /\ UNCHANGED <<job, base, draft>> /\ UNCHANGED <<Model!world, Model!durable, Model!store, lost>>
      BY <1>4, <2>2 DEF Model!Defer, Model!local
    <3>2. ModelLocal(job[w], "quarantine", base[w], draft[w]) BY <2>2, <3>1, ModelWorkerFacts DEF ModelLocal
    <3> QED BY <2>2, <3>1, <3>2, ModelGotoStep DEF Model!PCs
  <2> QED BY <1>4, <2>1, <2>2 DEF Model!Defer
<1> QED BY <1>1, <1>2, <1>3, <1>4

\* A conflict starts another round, or ends the delivery.
LEMMA ModelConflictStep ==
    ASSUME ModelInv, NEW w \in Workers, phase[w] \in {"create", "write"}, Model!Conflict(w), UNCHANGED <<Model!world, Model!durable, Model!store, lost>>
    PROVE  ModelInv'
<1>1. PICK p \in {"read", "retry"} : Model!Goto(w, p) /\ UNCHANGED <<job, base, draft>>
  BY DEF Model!Conflict, Model!local
<1>2. ModelLocal(job[w], p, base[w], draft[w]) BY ModelWorkerFacts DEF ModelLocal
<1> QED BY <1>1, <1>2, ModelGotoStep DEF Model!PCs

\* What is read: the document as it is, or none.
LEMMA ModelLookupFacts ==
    ASSUME ModelInv, NEW k \in Keys
    PROVE  LET e == Model!Lookup(k) IN
           /\ e.rev \in Nat /\ e.rev <= seq /\ ModelSound(k, e.state) /\ ModelFollows(k, e.rev, e.state)
           /\ e.state = bucket[k].state
<1>1. ModelEntry(k) /\ bucket[k].rev \in Nat /\ bucket[k].state \in ModelStates /\ seq \in Nat
  BY DEF ModelInv, ModelTypeInv
<1>2. ModelBelow(bucket[k].state, bucket[k].state) BY <1>1, ModelBelowFacts
<1>3. CASE bucket[k].op = "put" BY <1>1, <1>2, <1>3 DEF Model!Lookup, ModelEntry, ModelFollows
<1>4. CASE bucket[k].op # "put"
  <2>1. Model!Lookup(k) = Model!Absent BY <1>4 DEF Model!Lookup
  <2>2. Model!Absent.rev = 0 /\ Model!Absent.state = Model!Default BY DEF Model!Absent
  <2>3. bucket[k].state = Model!Default BY <1>1, <1>4 DEF ModelEntry
  <2>4. ModelSound(k, Model!Default) BY ModelSoundDefault DEF ModelInv
  <2> QED BY <1>1, <1>2, <2>1, <2>2, <2>3, <2>4 DEF ModelFollows
<1> QED BY <1>3, <1>4

\* A version the document already has needs no write.
LEMMA ModelReadOkStep ==
    ASSUME ModelInv, NEW k \in Keys, NEW j, ModelDelivery(j), j.key = k, j.ver # 0, j.ver <= bucket[k].state.positions[j.src]
    PROVE  (j.src # "domain" /\ j.id <= settled) \/ ModelEffect(k, j.src, j.ver)
<1>1. PICK s : s = bucket[k].state OBVIOUS
<1>2. ModelSound(k, s) BY <1>1 DEF ModelInv, ModelEntry
<1>3. j.src \in Model!Sources /\ j.ver \in Nat BY ModelSourceFacts DEF ModelDelivery
<1>4. s.positions[j.src] \in Nat BY <1>2, <1>3 DEF ModelSound, ModelStates
<1>5. PICK a \in Nat : a = s.positions[j.src] BY <1>4
<1>6. j.ver <= a /\ a # 0 BY <1>1, <1>3, <1>5
<1>7. CASE j.src \in {"domain", "latest"} BY <1>1, <1>3, <1>5, <1>6, <1>7 DEF ModelEffect, ModelHas
<1>8. CASE j.src = "consecutive"
  <2>1. "consecutive" \in Orders BY <1>8 DEF ModelDelivery
  <2>2. j.ver \in 1..a BY <1>3, <1>6
  <2>3. ModelHolds(s, "consecutive", j.ver) BY <1>2, <1>5, <1>8, <2>1, <2>2 DEF ModelSound
  <2> QED BY <1>1, <1>8, <2>3 DEF ModelEffect, ModelHas
<1>9. CASE j.src = "broker"
  <2>1. /\ "broker" \in Orders /\ j.id \in 1..(settled + 1) /\ j.id <= Len(bus)
        /\ bus[j.id].src = "broker" /\ bus[j.id].ver = j.ver
    BY <1>9 DEF ModelDelivery
  <2>2. settled \in Nat /\ Len(bus) \in Nat BY DEF ModelInv, ModelTypeInv
  <2>3. j.id \in 1..Len(bus) BY <2>1, <2>2
  <2>4. j.ver = j.id BY <2>1, <2>3 DEF ModelInv, ModelTypeInv
  <2>5. a <= settled + 1 /\ ModelHolds(s, "broker", a) BY <1>2, <1>5, <1>6, <1>9, <2>1 DEF ModelSound
  <2>6. CASE j.ver = a BY <1>1, <1>9, <2>5, <2>6 DEF ModelEffect, ModelHas
  <2>7. CASE j.ver # a BY <1>3, <1>6, <1>9, <2>2, <2>4, <2>5, <2>7
  <2> QED BY <2>6, <2>7
<1> QED BY <1>7, <1>8, <1>9, ModelSourceFacts DEF ModelDelivery

LEMMA ModelReadStep ==
    ASSUME ModelInv, NEW w \in Workers, Model!Read(w)
    PROVE  ModelInv'
<1>1. PICK j : j = job[w] OBVIOUS
<1>2. phase[w] = "read" BY DEF Model!Read
<1>3. ModelDelivery(j) /\ j.ver # 0 BY <1>1, <1>2, ModelWorkerFacts DEF ModelLocal
<1>4. j.key \in Keys /\ j.src \in Model!Sources /\ j.ver \in Nat BY <1>3, ModelSourceFacts DEF ModelDelivery
<1>5. PICK k \in Keys : k = j.key BY <1>4
<1>6. PICK e : e = Model!Lookup(k) OBVIOUS
<1>7. PICK s : s = e.state OBVIOUS
<1>8. e.rev \in Nat /\ e.rev <= seq /\ ModelSound(k, s) /\ ModelFollows(k, e.rev, s) /\ s = bucket[k].state
  BY <1>6, <1>7, ModelLookupFacts
<1>9. s \in ModelStates /\ s.positions[j.src] \in Nat BY <1>4, <1>8 DEF ModelSound, ModelStates
<1>10. PICK a \in Nat : a = s.positions[j.src] BY <1>9
<1>11. base' = [base EXCEPT ![w] = e.rev] /\ UNCHANGED job /\ UNCHANGED <<Model!world, settled, quarantined, dispatched, Model!store, lost>>
  BY <1>1, <1>5, <1>6 DEF Model!Read, Model!durable
<1>12. CASE j.ver <= a /\ Model!Goto(w, "ok") /\ UNCHANGED draft
  <2>1. ModelAt(w, j, "ok", e.rev, draft[w]) BY <1>1, <1>11, <1>12, ModelWorkerFacts DEF ModelAt, Model!Goto
  <2>2. (j.src # "domain" /\ j.id <= settled) \/ ModelEffect(k, j.src, j.ver)
    BY <1>3, <1>5, <1>8, <1>10, <1>12, ModelReadOkStep
  <2>3. ModelLocal(j, "ok", e.rev, draft[w]) BY <1>3, <1>5, <1>8, <2>2 DEF ModelLocal
  <2> QED BY <1>8, <1>11, <2>1, <2>3, ModelWorkerFacts, ModelMoveStep DEF Model!PCs
<1>13. CASE /\ j.ver > a /\ ~Model!Gap(j.src, a, j.ver)
            /\ draft' = [draft EXCEPT ![w] = Model!WithApplied(s, j.src, <<j.ver>>, j.ver)] /\ Model!Goto(w, Model!Writing(w))
  <2>1. PICK t : t = Model!WithApplied(s, j.src, <<j.ver>>, j.ver) OBVIOUS
  <2>2. <<j.ver>> \in Seq(Nat) /\ Len(<<j.ver>>) = 1 /\ <<j.ver>>[1] = j.ver /\ DOMAIN <<j.ver>> = {1}
    BY <1>4
  <2>3. ModelApplies(k, s, j.src, <<j.ver>>, j.ver)
    <3>1. CASE j.src = "domain"
      <4>1. j.ver = a + 1 /\ j.ver <= Len(hist) /\ hist[j.ver] = k
        <5>1. Len(hist) \in Nat BY DEF ModelInv, ModelTypeInv
        <5> QED BY <1>3, <1>5, <1>13, <3>1, <5>1 DEF Model!Gap, ModelDelivery
      <4>2. Model!Routed(k, a, j.ver) = {j.ver}
        <5>1. \A x : x \in (a + 1)..j.ver <=> x = j.ver BY <1>4, <4>1
        <5> QED BY <4>1, <5>1 DEF Model!Routed
      <4>3. Model!InOrder(<<j.ver>>) BY <2>2 DEF Model!InOrder
      <4>4. {<<j.ver>>[i] : i \in DOMAIN <<j.ver>>} = {j.ver} BY <2>2
      <4> QED BY <1>10, <1>13, <3>1, <4>1, <4>2, <4>3, <4>4 DEF ModelApplies
    <3>2. CASE j.src # "domain"
      <4>1. \E n \in 1..Len(<<j.ver>>) : <<j.ver>>[n] = j.ver BY <2>2
      <4>2. j.src = "consecutive" => j.ver = a + 1 BY <1>13 DEF Model!Gap
      <4>3. j.src = "broker" => j.ver <= settled + 1
        <5> SUFFICES ASSUME j.src = "broker" PROVE j.ver <= settled + 1 OBVIOUS
        <5>1. settled \in Nat /\ Len(bus) \in Nat BY DEF ModelInv, ModelTypeInv
        <5>2. j.id \in 1..(settled + 1) /\ j.id \in 1..Len(bus) /\ bus[j.id].src = "broker" /\ bus[j.id].ver = j.ver
          BY <1>3, <5>1 DEF ModelDelivery
        <5>3. j.ver = j.id BY <5>2 DEF ModelInv, ModelTypeInv
        <5> QED BY <5>1, <5>2, <5>3
      <4> QED BY <1>10, <1>13, <3>2, <4>1, <4>2, <4>3 DEF ModelApplies
    <3> QED BY <3>1, <3>2
  <2>4. ModelSound(k, t) /\ ModelBelow(s, t) /\ ModelHas(t, j.src, j.ver)
    BY <1>4, <1>8, <2>1, <2>2, <2>3, ModelAppliedSound DEF ModelInv
  <2>5. PICK p \in {"create", "write"} : p = Model!Writing(w) BY DEF Model!Writing
  <2>6. ModelAt(w, j, p, e.rev, t) BY <1>1, <1>11, <1>13, <2>1, <2>5, ModelWorkerFacts DEF ModelAt, Model!Goto
  <2>7. t \in ModelStates BY <2>4 DEF ModelSound
  <2>8. ModelFollows(k, e.rev, t) BY <1>8, <2>4 DEF ModelFollows
  <2>9. ModelLocal(j, p, e.rev, t) BY <1>3, <1>5, <1>8, <2>4, <2>8 DEF ModelLocal
  <2>10. p \in Model!PCs BY DEF Model!PCs
  <2> QED BY <1>8, <1>11, <2>6, <2>7, <2>9, <2>10, ModelMoveStep
<1>14. CASE /\ j.ver > a /\ Model!Gap(j.src, a, j.ver) /\ draft' = [draft EXCEPT ![w] = s]
            /\ Model!Goto(w, IF j.src = "domain" THEN "replay" ELSE "quarantine")
  <2>1. PICK p \in {"replay", "quarantine"} : p = IF j.src = "domain" THEN "replay" ELSE "quarantine" OBVIOUS
  <2>2. ModelAt(w, j, p, e.rev, s) BY <1>1, <1>11, <1>14, <2>1, ModelWorkerFacts DEF ModelAt, Model!Goto
  <2>3. p = "replay" => j.src = "domain" /\ s.positions["domain"] < j.ver BY <1>4, <1>10, <1>14, <2>1
  <2>4. ModelLocal(j, p, e.rev, s) BY <1>3, <1>5, <1>8, <2>1, <2>3 DEF ModelLocal
  <2>5. p \in Model!PCs BY DEF Model!PCs
  <2> QED BY <1>8, <1>9, <1>11, <2>2, <2>4, <2>5, ModelMoveStep
<1> QED BY <1>1, <1>5, <1>6, <1>7, <1>10, <1>12, <1>13, <1>14 DEF Model!Read, Model!Applied

LEMMA ModelReplayStep ==
    ASSUME ModelInv, NEW w \in Workers, Model!Replay(w)
    PROVE  ModelInv'
<1>1. PICK j : j = job[w] OBVIOUS
<1>2. PICK s : s = draft[w] OBVIOUS
<1>3. PICK b \in Nat : b = base[w] BY ModelWorkerFacts
<1>4. phase[w] = "replay" /\ UNCHANGED <<job, base>> /\ UNCHANGED <<Model!world, settled, quarantined, dispatched, Model!store, lost>>
  BY DEF Model!Replay, Model!durable
<1>5. /\ b <= seq /\ ModelDelivery(j) /\ j.ver # 0 /\ ModelSound(j.key, s) /\ ModelFollows(j.key, b, s)
      /\ j.src = "domain" /\ s.positions["domain"] < j.ver
  BY <1>1, <1>2, <1>3, <1>4, ModelWorkerFacts DEF ModelLocal
<1>6. PICK k \in Keys : k = j.key BY <1>5 DEF ModelDelivery
<1>7. s.positions["domain"] \in Nat BY <1>5, ModelSourceFacts DEF ModelSound, ModelStates
<1>8. PICK a \in Nat : a = s.positions["domain"] BY <1>7
<1>9. j.ver \in Nat /\ j.ver <= Len(hist)
  <2>1. Len(hist) \in Nat /\ j.ver \in 1..Len(hist) BY <1>5 DEF ModelDelivery, ModelInv, ModelTypeInv
  <2> QED BY <2>1
<1>10. PICK vs : vs = Model!Relevant(k, a, j.ver) OBVIOUS
<1>11. vs \in Seq(Nat) /\ Model!InOrder(vs) /\ {vs[i] : i \in DOMAIN vs} = Model!Routed(k, a, j.ver)
  <2>1. ModelEnumerates(vs, Model!Routed(k, a, j.ver)) BY <1>9, <1>10, ModelRelevantFacts
  <2> QED BY <2>1 DEF ModelEnumerates
<1>12. ModelApplies(k, s, "domain", vs, j.ver) BY <1>5, <1>8, <1>9, <1>11 DEF ModelApplies
<1>13. PICK t : t = Model!WithApplied(s, "domain", vs, j.ver) OBVIOUS
<1>14. ModelSound(k, t) /\ ModelBelow(s, t) /\ ModelHas(t, "domain", j.ver)
  BY <1>5, <1>6, <1>9, <1>11, <1>12, <1>13, ModelAppliedSound, ModelSourceFacts DEF ModelInv
<1>15. PICK p \in {"create", "write"} : p = IF base[w] = 0 THEN "create" ELSE "write" OBVIOUS
<1>16. ModelAt(w, j, p, b, t)
  <2>1. draft' = [draft EXCEPT ![w] = t]
    BY <1>1, <1>2, <1>6, <1>8, <1>10, <1>13, ModelWorkerFacts DEF Model!Replay, Model!Applied, ModelInv,
        ModelTypeInv
  <2>2. Model!Goto(w, p) BY <1>15 DEF Model!Replay
  <2> QED BY <1>1, <1>3, <1>4, <2>1, <2>2, ModelWorkerFacts DEF ModelAt, Model!Goto
<1>17. t \in ModelStates /\ s \in ModelStates BY <1>5, <1>14 DEF ModelSound
<1>18. bucket[k].state \in ModelStates BY DEF ModelInv, ModelTypeInv
<1>19. ModelFollows(k, b, t) BY <1>5, <1>6, <1>14, <1>17, <1>18, ModelBelowFacts DEF ModelFollows
<1>20. ModelLocal(j, p, b, t) BY <1>5, <1>6, <1>14, <1>19 DEF ModelLocal
<1>21. p \in Model!PCs BY DEF Model!PCs
<1> QED BY <1>4, <1>16, <1>17, <1>20, <1>21, ModelMoveStep

LEMMA ModelCreateStep ==
    ASSUME ModelInv, NEW w \in Workers, Model!Create(w)
    PROVE  ModelInv'
<1>1. PICK j, d : j = job[w] /\ d = draft[w] OBVIOUS
<1>2. phase[w] = "create" /\ UNCHANGED <<Model!world, Model!durable, Model!store, lost>> BY DEF Model!Create
<1>3. ModelDelivery(j) /\ j.ver # 0 /\ ModelSound(j.key, d) /\ ModelHas(d, j.src, j.ver)
  BY <1>1, <1>2, ModelWorkerFacts DEF ModelLocal
<1>4. PICK k \in Keys : k = j.key BY <1>3 DEF ModelDelivery
<1>5. CASE Model!Conflict(w) BY <1>2, <1>5, ModelConflictStep
<1>6. CASE bucket[k].op # "put" /\ base' = [base EXCEPT ![w] = bucket[k].rev] /\ Model!Goto(w, "write") /\ UNCHANGED <<job, draft>>
  <2>1. ModelAt(w, j, "write", bucket[k].rev, d) BY <1>1, <1>6, ModelWorkerFacts DEF ModelAt, Model!Goto
  <2>2. ModelEntry(k) /\ bucket[k].rev \in Nat BY DEF ModelInv, ModelTypeInv
  <2>3. d \in ModelStates BY <1>3 DEF ModelSound
  <2>4. bucket[k].state = Model!Default /\ bucket[k].rev <= seq BY <1>6, <2>2 DEF ModelEntry
  <2>5. ModelFollows(k, bucket[k].rev, d) BY <2>3, <2>4, ModelBelowFacts DEF ModelFollows
  <2>6. ModelLocal(j, "write", bucket[k].rev, d) BY <1>3, <1>4, <2>4, <2>5 DEF ModelLocal
  <2>7. UNCHANGED <<Model!world, settled, quarantined, dispatched, Model!store, lost>> BY <1>2 DEF Model!durable
  <2> QED BY <2>1, <2>2, <2>3, <2>6, <2>7, ModelMoveStep DEF Model!PCs
<1> QED BY <1>1, <1>4, <1>5, <1>6 DEF Model!Create

\* A write that the server takes.
LEMMA ModelPutGrows ==
    ASSUME ModelInv, NEW k \in Keys, NEW rev, NEW s, ModelSound(k, s), ModelFollows(k, rev, s), Model!Put(k, rev, s),
           UNCHANGED <<hist, bus, settled, quarantined, job, base, draft>>, phase' \in [Workers -> Model!PCs]
    PROVE  /\ ModelTypeInv' /\ ModelGrows /\ bucket'[k].state = s
           /\ \A l \in Keys : bucket'[l] = bucket[l] \/ ModelEntry(l)'
<1>1. PICK e : e = [op |-> "put", rev |-> seq + 1, state |-> s] OBVIOUS
<1>2. bucket' = [bucket EXCEPT ![k] = e] /\ seq' = seq + 1 /\ UNCHANGED removed /\ bucket[k].rev = rev
  BY <1>1 DEF Model!Put
<1>3. s \in ModelStates /\ seq \in Nat BY DEF ModelSound, ModelInv, ModelTypeInv
<1>4. e \in [op : {"none", "put", "del"}, rev : Nat, state : ModelStates] /\ e.op = "put" /\ e.rev = seq + 1 /\ e.state = s
  BY <1>1, <1>3
<1>5. bucket \in [Keys -> [op : {"none", "put", "del"}, rev : Nat, state : ModelStates]]
  BY DEF ModelInv, ModelTypeInv
<1>6. bucket' \in [Keys -> [op : {"none", "put", "del"}, rev : Nat, state : ModelStates]] BY <1>2, <1>4, <1>5
<1>7. ModelTypeInv' BY <1>2, <1>3, <1>6 DEF ModelInv, ModelTypeInv
<1>8. bucket'[k] = e /\ \A l \in Keys : l # k => bucket'[l] = bucket[l] BY <1>2, <1>5
<1>9. ModelGrows
  <2>1. \A l \in Keys : ModelBelow(bucket[l].state, bucket[l].state) BY <1>5, ModelBelowFacts
  <2>2. ModelBelow(bucket[k].state, bucket'[k].state) BY <1>2, <1>4, <1>8 DEF ModelFollows
  <2>3. \A l \in Keys : ModelBelow(bucket[l].state, bucket'[l].state) BY <1>8, <2>1, <2>2
  <2>4. \A l \in Keys : bucket'[l] = bucket[l] \/ bucket'[l].rev > seq BY <1>3, <1>4, <1>8
  <2> QED BY <1>2, <1>3, <2>3, <2>4 DEF ModelGrows, ModelInv, ModelTypeInv
<1>10. ModelEntry(k)'
  <2>1. ModelSound(k, s)' BY <1>7, <1>9, ModelSoundKept DEF ModelInv
  <2> QED BY <1>2, <1>3, <1>4, <1>8, <2>1 DEF ModelEntry
<1> QED BY <1>4, <1>7, <1>8, <1>9, <1>10

LEMMA ModelWriteStep ==
    ASSUME ModelInv, NEW w \in Workers, Model!Write(w)
    PROVE  ModelInv'
<1>1. PICK j, d : j = job[w] /\ d = draft[w] OBVIOUS
<1>2. PICK b \in Nat : b = base[w] BY ModelWorkerFacts
<1>3. phase[w] = "write" /\ UNCHANGED <<Model!world, Model!durable, lost>> BY DEF Model!Write
<1>4. /\ ModelDelivery(j) /\ j.ver # 0 /\ ModelSound(j.key, d) /\ ModelFollows(j.key, b, d) /\ ModelHas(d, j.src, j.ver) /\ b <= seq
  BY <1>1, <1>2, <1>3, ModelWorkerFacts DEF ModelLocal
<1>5. PICK k \in Keys : k = j.key BY <1>4 DEF ModelDelivery
<1>6. CASE Model!Conflict(w) /\ UNCHANGED Model!store BY <1>3, <1>6, ModelConflictStep
<1>7. CASE Model!Put(k, b, d) /\ Model!Goto(w, "ok") /\ UNCHANGED Model!local
  <2>1. UNCHANGED <<hist, bus, settled, quarantined, dispatched, lost, job, base, draft>>
    BY <1>3, <1>7 DEF Model!world, Model!durable, Model!local
  <2>2. phase' = [phase EXCEPT ![w] = "ok"] /\ phase' \in [Workers -> Model!PCs]
    BY <1>7 DEF Model!Goto, ModelInv, ModelTypeInv, Model!PCs
  <2>3. ModelTypeInv' /\ ModelGrows /\ bucket'[k].state = d /\ \A l \in Keys : bucket'[l] = bucket[l] \/ ModelEntry(l)'
    BY <1>4, <1>5, <1>7, <2>1, <2>2, ModelPutGrows
  <2>4. ModelDelivery(j)' BY <1>4, <2>3, ModelDeliveryKept DEF ModelInv
  <2>5. ModelEffect(k, j.src, j.ver)' BY <1>4, <2>3 DEF ModelEffect
  <2>6. b <= seq' BY <1>4, <2>3 DEF ModelGrows, ModelInv, ModelTypeInv
  <2>7. ModelLocal(j, "ok", b, d)' BY <1>4, <1>5, <2>4, <2>5, <2>6 DEF ModelLocal
  <2>8. ASSUME NEW v \in Workers
        PROVE  \/ job'[v] = job[v] /\ phase'[v] = phase[v] /\ base'[v] = base[v] /\ draft'[v] = draft[v]
               \/ ModelLocal(job[v], phase[v], base[v], draft[v])'
    <3>1. CASE v # w BY <2>1, <2>2, <3>1 DEF ModelInv, ModelTypeInv
    <3>2. CASE v = w
      <4>1. job'[w] = j /\ phase'[w] = "ok" /\ base'[w] = b /\ draft'[w] = d
        BY <1>1, <1>2, <2>1, <2>2 DEF ModelInv, ModelTypeInv
      <4> QED BY <2>7, <3>2, <4>1
    <3> QED BY <3>1, <3>2
  <2>9. \A i \in 1..settled' : i <= settled BY <2>1 DEF ModelInv, ModelTypeInv
  <2> QED BY <2>1, <2>3, <2>8, <2>9, ModelStepInv
<1> QED BY <1>1, <1>2, <1>5, <1>6, <1>7 DEF Model!Write

LEMMA ModelLostSteps ==
    ASSUME ModelInv, (\E w \in Workers : Model!LoseAnswer(w)) \/ \E x \in lost : Model!Arrive(x)
    PROVE  ModelInv'
<1>1. ASSUME NEW w \in Workers, Model!LoseAnswer(w) PROVE ModelInv'
  <2>1. PICK x : x = [key |-> job[w].key, rev |-> base[w], state |-> draft[w]] OBVIOUS
  <2>2. /\ phase[w] = "write" /\ lost' = lost \cup {x} /\ Model!Goto(w, "retry")
        /\ UNCHANGED <<hist, bus, settled, quarantined, dispatched, bucket, seq, removed, job, base, draft>>
    BY <1>1, <2>1 DEF Model!LoseAnswer, Model!world, Model!durable, Model!store, Model!local
  <2>3. x.key = job[w].key /\ x.rev = base[w] /\ x.state = draft[w] BY <2>1
  <2>4. /\ ModelDelivery(job[w]) /\ job[w].ver # 0 /\ ModelSound(job[w].key, draft[w]) /\ ModelFollows(job[w].key, base[w], draft[w])
        /\ base[w] <= seq /\ base[w] \in Nat
    BY <2>2, ModelWorkerFacts DEF ModelLocal
  <2>5. ModelLate(x) BY <2>3, <2>4 DEF ModelLate, ModelDelivery
  <2>6. ModelLocal(job[w], "retry", base[w], draft[w]) BY <2>4 DEF ModelLocal
  <2>7. ModelAt(w, job[w], "retry", base[w], draft[w]) BY <2>2, ModelWorkerFacts DEF ModelAt, Model!Goto
  <2>8. settled \in 0..Len(bus) /\ settled \in Nat BY DEF ModelInv, ModelTypeInv
  <2>9. "retry" \in Model!PCs /\ base[w] \in Nat /\ draft[w] \in ModelStates BY ModelWorkerFacts DEF Model!PCs
  <2>10. \A y \in lost' : y \in lost \/ ModelLate(y) BY <2>2, <2>5
  <2>11. \A i \in 1..settled' : i <= settled BY <2>2, <2>8
  <2> QED BY <2>2, <2>6, <2>7, <2>8, <2>9, <2>10, <2>11, ModelWorkerStep
<1>2. ASSUME NEW x \in lost, Model!Arrive(x) PROVE ModelInv'
  <2>1. lost' = lost \ {x} /\ UNCHANGED <<hist, bus, settled, quarantined, dispatched, phase, job, base, draft>>
    BY <1>2 DEF Model!Arrive, Model!world, Model!durable, Model!local
  <2>2. ModelLate(x) BY DEF ModelInv
  <2>3. ModelTypeInv' /\ ModelGrows /\ \A l \in Keys : bucket'[l] = bucket[l] \/ ModelEntry(l)'
    <3>1. CASE Model!Put(x.key, x.rev, x.state)
      <4>1. phase' \in [Workers -> Model!PCs] BY <2>1 DEF ModelInv, ModelTypeInv
      <4> QED BY <2>1, <2>2, <3>1, <4>1, ModelPutGrows DEF ModelLate
    <3>2. CASE UNCHANGED Model!store
      <4>1. ModelTypeInv' BY <2>1, <3>2 DEF Model!store, ModelInv, ModelTypeInv
      <4>2. ModelGrows BY <2>1, <3>2, ModelQuietGrows DEF Model!store, ModelInv, ModelTypeInv
      <4> QED BY <3>2, <4>1, <4>2 DEF Model!store
    <3> QED BY <1>2, <3>1, <3>2 DEF Model!Arrive
  <2>4. \A i \in 1..settled' : i <= settled BY <2>1 DEF ModelInv, ModelTypeInv
  <2> QED BY <2>1, <2>3, <2>4, ModelStepInv
<1> QED BY <1>1, <1>2

\* A message is settled: by its effect, or in quarantine.
LEMMA ModelEndSteps ==
    ASSUME ModelInv, NEW w \in Workers, Model!Finish(w) \/ Model!Quarantine(w)
    PROVE  ModelInv'
<1>1. PICK j : j = job[w] OBVIOUS
<1>2. Model!Forget(w) /\ UNCHANGED <<hist, bus, bucket, seq, removed, lost>>
  BY DEF Model!Finish, Model!Quarantine, Model!world, Model!store
<1>3. ModelAt(w, Model!NoJob, "idle", 0, Model!Default) BY <1>2 DEF Model!Forget, Model!Goto, ModelAt
<1>4. ModelLocal(Model!NoJob, "idle", 0, Model!Default) BY DEF ModelLocal, ModelInv, ModelTypeInv
<1>5. settled \in 0..Len(bus) /\ settled \in Nat /\ Len(bus) \in Nat /\ Len(hist) \in Nat
  BY DEF ModelInv, ModelTypeInv
<1>6. phase[w] # "idle" BY DEF Model!Finish, Model!Quarantine
<1>7. ModelDelivery(j) BY <1>1, <1>6, ModelWorkerFacts DEF ModelLocal
<1>8. CASE j.src = "domain"
  <2>1. phase[w] = "ok"
    <3>1. phase[w] # "quarantine" BY <1>1, <1>8, ModelWorkerFacts DEF ModelLocal
    <3> QED BY <3>1 DEF Model!Finish, Model!Quarantine
  <2>2. dispatched' = dispatched \cup {j.ver} /\ UNCHANGED <<settled, quarantined>>
    BY <1>1, <1>8, <2>1 DEF Model!Finish, Model!Quarantine
  <2>3. ModelEffect(j.key, "domain", j.ver) BY <1>1, <1>8, <2>1, ModelWorkerFacts DEF ModelLocal
  <2>4. ModelDispatched(j.ver) BY <1>7, <1>8, <2>3 DEF ModelDispatched, ModelDelivery
  <2>5. \A i \in 1..settled' : i <= settled BY <1>5, <2>2
  <2>6. \A v \in dispatched' : v \in dispatched \/ ModelDispatched(v) BY <2>2, <2>4
  <2>7. "idle" \in Model!PCs /\ 0 \in Nat /\ Model!Default \in ModelStates BY ModelDefaultFacts DEF Model!PCs
  <2>8. settled' \in 0..Len(bus) /\ settled <= settled' /\ quarantined \subseteq quarantined' BY <1>5, <2>2
  <2> QED BY <1>2, <1>3, <1>4, <2>5, <2>6, <2>7, <2>8, ModelWorkerStep
<1>9. CASE j.src # "domain"
  <2>1. /\ Model!Settle(j.id) /\ UNCHANGED dispatched /\ quarantined \subseteq quarantined'
        /\ phase[w] = "ok" \/ j.id \in quarantined'
    BY <1>1, <1>9 DEF Model!Finish, Model!Quarantine
  <2>2. j.id \in 1..(settled + 1) /\ j.id \in 1..Len(bus) BY <1>5, <1>7, <1>9 DEF ModelDelivery
  <2>3. settled' \in 0..Len(bus) /\ settled <= settled' /\ \A i \in 1..settled' : i <= settled \/ (i = j.id /\ j.id = settled + 1)
    <3>1. CASE j.id = settled + 1 BY <1>5, <2>1, <2>2, <3>1 DEF Model!Settle
    <3>2. CASE j.id # settled + 1 BY <1>5, <2>1, <3>2 DEF Model!Settle
    <3> QED BY <3>1, <3>2
  <2>4. ASSUME j.id = settled + 1 PROVE j.id \in quarantined' \/ ModelEffect(bus[j.id].key, bus[j.id].src, bus[j.id].ver)
    <3>1. CASE phase[w] = "ok"
      <4>1. ~(j.id <= settled) BY <1>5, <2>4
      <4>2. ModelEffect(j.key, j.src, j.ver) BY <1>1, <3>1, <4>1, ModelWorkerFacts DEF ModelLocal
      <4> QED BY <1>7, <1>9, <4>2 DEF ModelDelivery
    <3> QED BY <2>1, <3>1
  <2> QED BY <1>2, <1>3, <1>4, <2>1, <2>3, <2>4, ModelDefaultFacts, ModelWorkerStep DEF Model!PCs
<1> QED BY <1>8, <1>9

LEMMA ModelInit == Model!Init => ModelInv
<1> SUFFICES ASSUME Model!Init PROVE ModelInv OBVIOUS
<1>1. Model!Absent \in [op : {"none", "put", "del"}, rev : Nat, state : ModelStates] /\ Model!Absent.op = "none" /\ Model!Absent.rev = 0
      /\ Model!Absent.state = Model!Default
  BY ModelDefaultFacts DEF Model!Absent
<1>2. ModelTypeInv BY <1>1, ModelDefaultFacts DEF Model!Init, ModelTypeInv, Model!PCs
<1>3. ASSUME NEW k \in Keys PROVE ModelEntry(k)
  <2>1. bucket[k] = Model!Absent /\ seq = 0 BY DEF Model!Init
  <2> QED BY <1>1, <1>2, <2>1, ModelSoundDefault DEF ModelEntry
<1>4. ModelLocalInv
  <2>1. \A w \in Workers : phase[w] = "idle" /\ base[w] = 0 BY DEF Model!Init
  <2> QED BY <2>1 DEF Model!Init, ModelLocalInv, ModelLocal
<1> QED BY <1>2, <1>3, <1>4 DEF Model!Init, ModelInv

LEMMA ModelNext == ModelInv /\ [Model!Next]_(Model!vars) => ModelInv'
<1> SUFFICES ASSUME ModelInv, [Model!Next]_(Model!vars) PROVE ModelInv'
  OBVIOUS
<1>1. CASE UNCHANGED Model!vars
  <2>1. ModelTypeInv' BY <1>1 DEF Model!vars, ModelInv, ModelTypeInv
  <2>2. ModelGrows BY <1>1, ModelQuietGrows DEF Model!vars, ModelInv, ModelTypeInv
  <2>3. \A i \in 1..settled' : i <= settled BY <1>1 DEF Model!vars, ModelInv, ModelTypeInv
  <2> QED BY <1>1, <2>1, <2>2, <2>3, ModelStepInv DEF Model!vars
<1>2. ASSUME NEW w \in Workers,
             \/ Model!Step(w) \/ Model!LoseAnswer(w) \/ Model!Unavailable(w) \/ Model!Refused(w) \/ Model!Abort(w) \/ Model!DeliverIntegration(w)
             \/ \E v \in 1..Len(hist) : Model!DispatchDomain(w, v)
      PROVE  ModelInv'
  BY <1>2, ModelReadStep, ModelReplayStep, ModelCreateStep, ModelWriteStep, ModelEndSteps, ModelFailSteps,
      ModelLostSteps, ModelDeliverStep, ModelDispatchStep DEF Model!Step
<1> QED BY <1>1, <1>2, ModelPublisherSteps, ModelRemoveSteps, ModelLostSteps DEF Model!Next

LEMMA ModelComplete == ModelInv => Model!DomainIsComplete
<1> SUFFICES ASSUME ModelInv PROVE Model!DomainIsComplete OBVIOUS
<1>1. ASSUME NEW k \in Model!Stored
      PROVE  /\ Model!InOrder(bucket[k].state.value["domain"])
             /\ {bucket[k].state.value["domain"][i] : i \in DOMAIN bucket[k].state.value["domain"]}
                   = Model!Routed(k, 0, bucket[k].state.positions["domain"])
  <2>1. PICK s : s = bucket[k].state OBVIOUS
  <2>2. ModelSound(k, s) BY <2>1 DEF ModelInv, ModelEntry, Model!Stored
  <2>3. PICK q \in Seq(Nat) : q = s.value["domain"] BY <2>2, ModelSourceFacts DEF ModelSound, ModelStates
  <2>4. DOMAIN q = 1..Len(q) OBVIOUS
  <2>5. \A x : x \in {q[i] : i \in DOMAIN q} <=> x \in Model!Routed(k, 0, s.positions["domain"])
    BY <2>2, <2>3, <2>4 DEF ModelSound, ModelHolds
  <2> QED BY <2>1, <2>2, <2>3, <2>5 DEF ModelSound
<1>2. ASSUME NEW v \in dispatched
      PROVE  hist[v] \in removed.keys \/ bucket[hist[v]].state.positions["domain"] >= v
  BY DEF ModelInv, ModelDispatched, ModelEffect, ModelHas
<1> QED BY <1>1, <1>2 DEF Model!DomainIsComplete

\* A read model's documents are complete up to their checkpoints, and what a successful
\* dispatch applied is not taken out again, for any workers, keys, sources and retries,
\* however deliveries overlap and writes arrive late.
THEOREM DomainStaysComplete == Model!Spec => []DomainIsComplete
<1>1. ModelInv => DomainIsComplete BY ModelComplete DEF DomainIsComplete
<1> QED BY ModelInit, ModelNext, <1>1, PTL DEF Model!Spec

LEMMA ModelEffects == ModelInv => Model!SettledHasEffect
<1> SUFFICES ASSUME ModelInv, NEW i \in 1..settled
             PROVE  \/ i \in quarantined \/ bus[i].key \in removed.keys
                    \/ IF bus[i].src = "latest" THEN bucket[bus[i].key].state.positions["latest"] >= bus[i].ver
                       ELSE \E n \in 1..Len(bucket[bus[i].key].state.value[bus[i].src]) :
                               bucket[bus[i].key].state.value[bus[i].src][n] = bus[i].ver
  BY DEF Model!SettledHasEffect
<1>1. i \in 1..Len(bus) /\ bus \in Seq([src : Orders, key : Keys, ver : Nat])
  BY DEF ModelInv, ModelTypeInv
<1>2. PICK m \in [src : Orders, key : Keys, ver : Nat] : m = bus[i] BY ONLY <1>1, ElementOfSeq
<1>3. m.src # "domain" BY ModelSourceFacts
<1>4. i \in quarantined \/ ModelEffect(m.key, m.src, m.ver) BY <1>2 DEF ModelInv, ModelSettled
<1> QED BY <1>2, <1>3, <1>4 DEF ModelEffect, ModelHas, ModelHolds

\* Every integration message that the durable has passed is applied, superseded or in
\* quarantine, or its document was removed, for any workers, keys, policies and limits.
THEOREM SettledKeepsEffect == Model!Spec => []SettledHasEffect
<1>1. ModelInv => SettledHasEffect BY ModelEffects DEF SettledHasEffect
<1> QED BY ModelInit, ModelNext, <1>1, PTL DEF Model!Spec

-----------------------------------------------------------------------------
(* Setup: the inductive invariant. *)

\* A running model's name is claimed.
SetupClaimedInv == stage = [b \in Builders |-> stage[b]] /\ \A b \in Setup!Running : ModelOf[b] \in registered

SetupInv == SetupClaimedInv /\ Setup!NameHeldOnce

\* A step that starts no model.
LEMMA SetupWaitStep ==
    ASSUME SetupInv, NEW b \in Builders, UNCHANGED registered, stage[b] # "running",
           UNCHANGED stage \/ \E s \in {"failed", "opening", "history", "connecting"} : Setup!Goto(b, s)
    PROVE  SetupInv'
<1>1. stage' = [c \in Builders |-> stage'[c]] /\ Setup!Running' = Setup!Running
  BY DEF SetupInv, SetupClaimedInv, Setup!Goto, Setup!Running
<1> QED BY <1>1 DEF SetupInv, SetupClaimedInv, Setup!NameHeldOnce

\* The name is claimed and the model runs, or it was taken already.
LEMMA SetupClaimStep ==
    ASSUME SetupInv, NEW b \in Builders, Setup!Claim(b)
    PROVE  SetupInv'
<1>1. CASE ModelOf[b] \in registered
  <2>1. registered' = registered /\ Setup!Goto(b, "failed") /\ stage[b] # "running" BY <1>1 DEF Setup!Claim
  <2> QED BY <2>1, SetupWaitStep
<1>2. CASE ModelOf[b] \notin registered
  <2>1. registered' = registered \cup {ModelOf[b]} /\ stage' = [stage EXCEPT ![b] = "running"]
    BY <1>2 DEF Setup!Claim, Setup!Goto
  <2>2. stage' = [c \in Builders |-> stage'[c]] /\ Setup!Running' = Setup!Running \cup {b}
    BY <2>1 DEF SetupInv, SetupClaimedInv, Setup!Running
  <2>3. \A c \in Setup!Running : ModelOf[c] # ModelOf[b] BY <1>2 DEF SetupInv, SetupClaimedInv
  <2> QED BY <2>1, <2>2, <2>3 DEF SetupInv, SetupClaimedInv, Setup!NameHeldOnce
<1> QED BY <1>1, <1>2

\* Two running read models never share a name, for any builders, registrations and
\* failures on the way.
THEOREM NamesHeldOnce == Setup!Spec => []NameHeldOnce
<1>1. Setup!Init => SetupInv BY DEF Setup!Init, SetupInv, SetupClaimedInv, Setup!NameHeldOnce, Setup!Running
<1>2. SetupInv /\ [Setup!Next]_(Setup!vars) => SetupInv'
  <2> SUFFICES ASSUME SetupInv, [Setup!Next]_(Setup!vars) PROVE SetupInv'
    OBVIOUS
  <2>1. CASE UNCHANGED Setup!vars
    BY <2>1 DEF Setup!vars, SetupInv, SetupClaimedInv, Setup!NameHeldOnce, Setup!Running
  <2>2. ASSUME NEW b \in Builders,
               \/ \E e \in DomainEvents : Setup!OnDomainEvent(b, e)
               \/ \E e \in EventTypes : Setup!OnIntegrationEvent(b, e)
               \/ \E e \in EventTypes, c \in Contexts, o \in Policies : Setup!IntegrationSource(b, e, c, o)
        PROVE  SetupInv'
    <3>1. Setup!Registering(b) BY <2>2 DEF Setup!OnDomainEvent, Setup!OnIntegrationEvent, Setup!IntegrationSource
    <3> QED BY <3>1, SetupWaitStep DEF Setup!Registering
  <2>3. ASSUME NEW b \in Builders, Setup!BeginBuild(b) \/ Setup!Open(b) \/ Setup!OpenHistory(b) PROVE SetupInv'
    <3>1. UNCHANGED registered /\ stage[b] # "running" BY <2>3 DEF Setup!BeginBuild, Setup!Open, Setup!OpenHistory
    <3>2. \E s \in {"failed", "opening", "history", "connecting"} : Setup!Goto(b, s)
      BY <2>3 DEF Setup!BeginBuild, Setup!Open, Setup!OpenHistory
    <3> QED BY <3>1, <3>2, SetupWaitStep
  <2> QED BY <2>1, <2>2, <2>3, SetupClaimStep DEF Setup!Next
<1>3. SetupInv => NameHeldOnce BY DEF SetupInv, NameHeldOnce
<1> QED BY <1>1, <1>2, <1>3, PTL DEF Setup!Spec
===============================================================================
