----------------------------- MODULE StorageProofs -----------------------------
(* What the stores promise, for every value of their constants.  A batch whose   *)
(* writer was told of a definite failure stays out of the stream; handles stay   *)
(* within their namespaces; the observer's window holds nothing from before a    *)
(* reset; a traversal of the quarantine is exact; and the consumer's edits of    *)
(* installed skills survive.                                                     *)
EXTENDS Storage, FiniteSetTheorems, SequenceTheorems, WellFoundedInduction, TLAPS

-----------------------------------------------------------------------------
(* Appends to a stream. *)

Pcs == {"idle", "done", "load", "loaded", "fence", "receipt", "publish", "race", "race receipt", "verify"}
Publishing == {"publish", "race", "race receipt", "verify"}
Results == {"none", "unavailable", "recreated", "identity", "replayed", "conflict", "capacity", "appended", "corrupt"}

Entry ==
    [agg : Aggregates \cup {Receipt}, op : Ops, content : Contents \cup {"transaction"}, tx : BOOLEAN,
     writes : SUBSET Aggregates, ver : Nat, batch : Nat, from : Nat]

Histories == UNION {[S -> Entry] : S \in SUBSET Nat}

Appending ==
    [pc : Pcs, agg : Aggregates \cup {Receipt}, op : Ops \cup {"none"}, content : Contents \cup {"none"},
     expected : Nat, incarnation : Nat, from : Nat, hist : Histories, batch : Nat, ack : Nat, result : Results]

\* Stored batches name an append; so do those on their way.
TypeInv ==
    /\ log \in Seq(Entry) /\ epoch \in Nat /\ batches \in Nat /\ refused \subseteq 0..batches
    /\ delayed \subseteq [entry : Entry, expectation : Nat]
    /\ writer \in [Writers -> Appending]
    /\ \A i \in DOMAIN log : log[i].batch \in 0..batches
    /\ \A b \in delayed : b.entry.batch \in 1..batches /\ b.entry.agg \in Aggregates

\* What a history holds is what the stream held up to some sequence.
Past(a, hist) ==
    /\ DOMAIN hist \subseteq Positions(a)
    /\ \A i \in DOMAIN hist : hist[i] = log[i]
    /\ \A i \in Positions(a), j \in DOMAIN hist : i <= j => i \in DOMAIN hist

\* No entry of the aggregate up to a sequence belongs to the operation.
Fresh(a, op, n) == n \in 0..Len(log) /\ \A i \in Positions(a) : i <= n => log[i].op # op

Nowhere(k) == (\A i \in DOMAIN log : log[i].batch # k) /\ \A b \in delayed : b.entry.batch # k

\* An entry that was made by the append x.
MadeBy(entry, x) == entry.agg = x.agg /\ entry.op = x.op /\ entry.content = x.content /\ ~entry.tx

\* The server no longer takes the batch.
Outrun(b) == \E i \in Positions(b.entry.agg) : i > b.expectation

\* What a writer may rely on at each of its steps.
WriterInv(w) ==
    LET x == writer[w]
    IN  /\ IF x.pc \in Publishing THEN x.batch \in (1..batches) \ refused ELSE x.batch = 0
        /\ x.pc \notin {"idle", "done"} => x.agg \in Aggregates /\ x.op \in Ops /\ x.content \in Contents
        /\ \A i \in DOMAIN log : log[i].batch = x.batch /\ x.batch # 0 => MadeBy(log[i], x)
        /\ \A b \in delayed : b.entry.batch = x.batch => MadeBy(b.entry, x)
        /\ x.pc \notin Publishing \/ x.pc = "publish" => x.ack = 0
        /\ x.pc = "publish" => Fresh(x.agg, x.op, LastSequence(x.hist))
        /\ x.pc = "publish" \/ (x.pc \in {"race", "race receipt"} /\ x.ack # 0) => Nowhere(x.batch)
        /\ x.pc \in {"receipt", "publish", "race receipt"} \/ (x.pc \in {"loaded", "fence"} /\ x.from = epoch)
              => Past(x.agg, x.hist)
        /\ x.pc = "load" => x.incarnation <= epoch
        /\ x.pc \in {"loaded", "fence"} => x.incarnation <= x.from /\ x.from <= epoch

OwnBatches == \A v, w \in Writers : v # w /\ writer[v].batch # 0 => writer[v].batch # writer[w].batch

\* An aggregate holds an operation at most once.
OperationOnce ==
    \A i, j \in DOMAIN log : log[i].agg \in Aggregates /\ log[i].agg = log[j].agg /\ log[i].op = log[j].op => i = j

ReceiptHasCommits ==
    \A a \in Aggregates, op \in Ops :
        ReceiptWrites(op, a) => \E i \in Positions(a) : log[i].op = op /\ log[i].tx

DelayedInv ==
    \A b \in delayed :
        /\ Fresh(b.entry.agg, b.entry.op, b.expectation)
        /\ b.entry.batch \in refused => Outrun(b)

AppendInv ==
    /\ TypeInv /\ OwnBatches /\ OperationOnce /\ ReceiptHasCommits /\ DelayedInv /\ RefusedIsAbsent
    /\ \A w \in Writers : WriterInv(w)

\* The batch of a writer is not in the stream and will not be taken.
Gone(w) ==
    \/ writer[w].batch = 0
    \/ /\ \A i \in DOMAIN log : log[i].batch # writer[w].batch
       /\ \A b \in delayed : b.entry.batch = writer[w].batch => Outrun(b)

-----------------------------------------------------------------------------
(* Sequences and histories. *)

Smaller == {p \in Nat \X Nat : p[1] < p[2]}

\* A set of numbers has a least element.
LEMMA LeastExists ==
    ASSUME NEW T, T \subseteq Nat, T # {}
    PROVE  \E k \in T : \A j \in T : k <= j
  <1>1. IsWellFoundedOn(Smaller, Nat)
    BY NatLessThanWellFounded DEF Smaller, OpToRel
  <1>2. \E k \in T : \A j \in T : ~(<<j, k>> \in Smaller)
    BY <1>1, WFMin, ZenonT(20)
  <1>3. PICK k \in T : \A j \in T : ~(<<j, k>> \in Smaller)
    BY <1>2
  <1>4. ASSUME NEW j \in T PROVE k <= j
    <2>1. <<j, k>> \notin Smaller /\ j \in Nat /\ k \in Nat
      BY <1>3
    <2>2. ~(j < k)
      BY <2>1 DEF Smaller
    <2> QED  BY <2>1, <2>2
  <1> QED  BY <1>4

\* A bounded set of numbers has a greatest element, which Max chooses.
LEMMA GreatestExists ==
    ASSUME NEW n \in Nat, NEW S, S \subseteq 1..n, S # {}
    PROVE  Max(S) \in S /\ \A i \in S : i <= Max(S)
  <1> DEFINE T == {k \in Nat : \E i \in S : k = n - i}
  <1>1. PICK e \in S : TRUE
    OBVIOUS
  <1>2. n - e \in T
    BY <1>1
  <1>3. PICK k \in T : \A j \in T : k <= j
    <2>1. T \subseteq Nat
      OBVIOUS
    <2> HIDE DEF T
    <2> QED  BY <1>2, <2>1, LeastExists
  <1>4. PICK m \in S : k = n - m
    BY <1>3
  <1>5. \A i \in S : m >= i
    <2> TAKE i \in S
    <2>1. n - i \in T
      OBVIOUS
    <2>2. k <= n - i
      BY <1>3, <2>1
    <2> QED  BY <2>2, <1>4
  <1>6. Max(S) \in S /\ \A y \in S : Max(S) >= y
    BY <1>4, <1>5 DEF Max
  <1> QED  BY <1>6

\* The last sequence of a history is the greatest one in it, or zero.
LEMMA LastIsGreatest ==
    ASSUME NEW n \in Nat, NEW hist, DOMAIN hist \subseteq 1..n
    PROVE  /\ LastSequence(hist) \in 0..n
           /\ \A i \in DOMAIN hist : i <= LastSequence(hist)
           /\ LastSequence(hist) # 0 => LastSequence(hist) \in DOMAIN hist
  <1>1. CASE DOMAIN hist = {}
    BY <1>1 DEF LastSequence
  <1>2. CASE DOMAIN hist # {}
    <2> DEFINE D == DOMAIN hist
    <2>1. Max(D) \in D /\ \A i \in D : i <= Max(D)
      BY <1>2, GreatestExists
    <2>2. LastSequence(hist) = Max(D)
      BY <1>2 DEF LastSequence
    <2> QED  BY <2>1, <2>2
  <1> QED  BY <1>1, <1>2

\* A history has a number of versions.
LEMMA VersionsType ==
    ASSUME NEW n \in Nat, NEW hist, DOMAIN hist \subseteq 1..n
    PROVE  Versions(hist) \in Nat
  <1>1. IsFiniteSet(1..n)
    BY FS_Interval
  <1> QED  BY <1>1, FS_Subset, FS_CardinalityType DEF Versions

\* The history of an append that has read nothing.
LEMMA EmptyHistory == <<>> \in Histories
  <1>1. <<>> \in [{} -> Entry]
    OBVIOUS
  <1>2. {} \in SUBSET Nat
    OBVIOUS
  <1> QED  BY <1>1, <1>2 DEF Histories

\* What is loaded is past.
LEMMA LoadedIsPast ==
    ASSUME TypeInv, NEW a
    PROVE  /\ History(a) \in Histories /\ Past(a, History(a)) /\ DOMAIN History(a) = Positions(a)
           /\ Positions(a) \subseteq 1..Len(log) /\ Len(log) \in Nat
  <1>1. Positions(a) \subseteq Nat /\ Positions(a) \subseteq 1..Len(log) /\ Len(log) \in Nat
    BY DEF TypeInv, Positions
  <1>2. History(a) \in [Positions(a) -> Entry]
    BY DEF History, Positions, TypeInv
  <1>3. History(a) \in Histories
    BY <1>1, <1>2 DEF Histories
  <1>4. Past(a, History(a))
    BY DEF Past, History
  <1> QED  BY <1>1, <1>3, <1>4 DEF History

\* The server takes a batch only if nothing of its aggregate comes after what
\* its writer read.
LEMMA CurrentIsLast ==
    ASSUME TypeInv, NEW b, Current(b)
    PROVE  \A i \in Positions(b.entry.agg) : i <= b.expectation
  <1> DEFINE h == History(b.entry.agg)
  <1>1. DOMAIN h = Positions(b.entry.agg) /\ DOMAIN h \subseteq 1..Len(log) /\ Len(log) \in Nat
    BY LoadedIsPast
  <1>2. b.expectation = LastSequence(h)
    BY DEF Current
  <1> HIDE DEF h
  <1> QED  BY <1>1, <1>2, LastIsGreatest

-----------------------------------------------------------------------------
(* Steps that leave the stream alone. *)

\* A step of one writer preserves the invariant if it establishes what that writer
\* relies on; it may have its batch refused once the batch is gone.
LEMMA Moves ==
    ASSUME AppendInv, NEW w \in Writers,
           writer' = [writer EXCEPT ![w] = writer'[w]], writer'[w] \in Appending,
           UNCHANGED <<log, epoch, delayed>>, batches' \in {batches, batches + 1},
           refused' = refused \/ (refused' = refused \cup {writer[w].batch} /\ Gone(w)),
           WriterInv(w)',
           \A v \in Writers \ {w} : writer'[w].batch # 0 => writer'[w].batch # writer[v].batch
    PROVE  AppendInv'
  <1>1. \A v \in Writers \ {w} : writer'[v] = writer[v]
    BY DEF AppendInv, TypeInv
  <1>2. writer[w].batch \in 0..batches
    <2>1. WriterInv(w) /\ batches \in Nat
      BY DEF AppendInv, TypeInv
    <2>2. writer[w].batch \in (1..batches) \ refused \/ writer[w].batch = 0
      BY <2>1 DEF WriterInv
    <2> QED  BY <2>1, <2>2
  <1>3. batches' >= batches /\ batches \in Nat /\ batches' \in Nat
    BY DEF AppendInv, TypeInv
  <1>4. TypeInv'
    <2>1. refused' \subseteq 0..batches'
      <3>1. refused \subseteq 0..batches /\ 0..batches \subseteq 0..batches'
        BY <1>3 DEF AppendInv, TypeInv
      <3> QED  BY <1>2, <3>1
    <2>2. writer' \in [Writers -> Appending]
      BY DEF AppendInv, TypeInv
    <2>3. (\A i \in DOMAIN log : log[i].batch \in 0..batches') /\ \A b \in delayed : b.entry.batch \in 1..batches'
      BY <1>3 DEF AppendInv, TypeInv
    <2> QED  BY <1>3, <2>1, <2>2, <2>3 DEF AppendInv, TypeInv
  <1>5. OwnBatches'
    BY <1>1 DEF AppendInv, OwnBatches
  <1>6. OperationOnce' /\ ReceiptHasCommits'
    BY DEF AppendInv, OperationOnce, ReceiptHasCommits, ReceiptWrites, Positions
  <1>7. DelayedInv'
    <2> SUFFICES ASSUME NEW b \in delayed
                 PROVE  /\ Fresh(b.entry.agg, b.entry.op, b.expectation)'
                        /\ b.entry.batch \in refused' => Outrun(b)'
      BY DEF DelayedInv
    <2>1. Fresh(b.entry.agg, b.entry.op, b.expectation)' /\ (Outrun(b) => Outrun(b)')
      BY DEF AppendInv, DelayedInv, Fresh, Outrun, Positions
    <2>2. b.entry.batch # 0
      BY DEF AppendInv, TypeInv
    <2> QED  BY <2>1, <2>2 DEF AppendInv, DelayedInv, Gone
  <1>8. RefusedIsAbsent'
    BY DEF AppendInv, RefusedIsAbsent, Gone
  <1>9. ASSUME NEW v \in Writers, v # w PROVE WriterInv(v)'
    <2>1. WriterInv(v) /\ writer'[v] = writer[v]
      BY <1>1, <1>9 DEF AppendInv
    <2>2. writer[v].batch # 0 => writer[v].batch # writer[w].batch
      BY <1>9 DEF AppendInv, OwnBatches
    <2>3. /\ \A a, hist : Past(a, hist)' <=> Past(a, hist)
          /\ \A a, op, n : Fresh(a, op, n)' <=> Fresh(a, op, n)
          /\ \A k : Nowhere(k)' <=> Nowhere(k)
      BY DEF Past, Fresh, Nowhere, Positions
    <2>4. writer[v].batch \in (1..batches) \ refused => writer[v].batch \in (1..batches') \ refused'
      BY <1>3, <2>2
    <2> QED  BY <2>1, <2>3, <2>4 DEF WriterInv
  <1> QED  BY <1>4, <1>5, <1>6, <1>7, <1>8, <1>9 DEF AppendInv

\* An answer preserves the invariant if a definite one is about a batch that is gone.
LEMMA Answers ==
    ASSUME AppendInv, NEW w \in Writers, NEW result \in Results, Answer(w, writer[w], result),
           UNCHANGED <<log, epoch, delayed, batches>>, result \in Definite => Gone(w)
    PROVE  AppendInv'
  <1> DEFINE x == writer[w]
             y == [Unstarted EXCEPT !.pc = "done", !.agg = x.agg, !.op = x.op, !.content = x.content,
                                    !.result = result]
  <1>1. writer \in [Writers -> Appending] /\ x \in Appending
    BY DEF AppendInv, TypeInv
  <1>2. <<>> \in Histories
    BY EmptyHistory
  <1>3. y \in Appending /\ y.pc = "done" /\ y.batch = 0 /\ y.ack = 0
    BY <1>1, <1>2 DEF Unstarted, Appending, Pcs, Receipt
  <1>4. writer' = [writer EXCEPT ![w] = y] /\ writer'[w] = y
    BY <1>1 DEF Answer, Move
  <1> HIDE DEF y
  <1>5. WriterInv(w)'
    <2>1. \A b \in delayed : b.entry.batch # 0
      BY DEF AppendInv, TypeInv
    <2> QED  BY <1>3, <1>4, <2>1 DEF WriterInv, Publishing
  <1>6. refused' = refused \/ (refused' = refused \cup {writer[w].batch} /\ Gone(w))
    BY DEF Answer
  <1> QED  BY <1>3, <1>4, <1>5, <1>6, Moves

\* What the type of a writer's append gives a step that changes some of its fields.
LEMMA WriterFacts ==
    ASSUME AppendInv, NEW w \in Writers
    PROVE  /\ writer \in [Writers -> Appending] /\ writer[w] \in Appending /\ WriterInv(w) /\ TypeInv
           /\ \A b \in delayed : b.entry.batch # 0
           /\ \A v \in Writers \ {w} : writer[w].batch # 0 => writer[w].batch # writer[v].batch
  BY DEF AppendInv, TypeInv, OwnBatches

\* Begin
LEMMA BeginStep ==
    ASSUME AppendInv, NEW w \in Writers, NEW a \in Aggregates, NEW op \in Ops, NEW content \in Contents,
           NEW expected \in 0..1, Begin(w, a, op, content, expected)
    PROVE  AppendInv'
  <1> DEFINE y == [Unstarted EXCEPT !.pc = "load", !.agg = a, !.op = op, !.content = content,
                                    !.expected = expected, !.incarnation = epoch]
  <1>1. writer \in [Writers -> Appending] /\ epoch \in Nat /\ \A b \in delayed : b.entry.batch # 0
    BY WriterFacts DEF TypeInv
  <1>2. <<>> \in Histories
    BY EmptyHistory
  <1>3. /\ y \in Appending /\ y.pc = "load" /\ y.batch = 0 /\ y.ack = 0 /\ y.incarnation = epoch
        /\ y.agg = a /\ y.op = op /\ y.content = content
    <2>1. expected \in Nat
      OBVIOUS
    <2> QED  BY <1>1, <1>2, <2>1 DEF Unstarted, Appending, Pcs, Results, Receipt
  <1>4. writer' = [writer EXCEPT ![w] = y] /\ UNCHANGED <<log, epoch, delayed, batches, refused>>
    BY DEF Begin, Move
  <1>5. writer'[w] = y
    BY <1>1, <1>4
  <1> HIDE DEF y
  <1>6. WriterInv(w)'
    <2>1. writer'[w].incarnation <= epoch'
      BY <1>1, <1>3, <1>4, <1>5
    <2> QED  BY <1>1, <1>3, <1>4, <1>5, <2>1 DEF WriterInv, Publishing
  <1> QED  BY <1>3, <1>4, <1>5, <1>6, Moves

\* ReadFails
LEMMA ReadFailsStep ==
    ASSUME AppendInv, NEW w \in Writers, ReadFails(w)
    PROVE  AppendInv'
  <1>1. "unavailable" \notin Definite
    BY DEF Definite
  <1>3. "unavailable" \in Results
    BY DEF Results
  <1>2. Answer(w, writer[w], "unavailable") /\ UNCHANGED <<log, epoch, delayed, batches>>
    BY DEF ReadFails
  <1> QED  BY <1>1, <1>2, <1>3, Answers

\* Load
LEMMA LoadStep ==
    ASSUME AppendInv, NEW w \in Writers, Load(w)
    PROVE  AppendInv'
  <1> DEFINE x == writer[w]
             h == History(x.agg)
             y == [x EXCEPT !.hist = h, !.from = epoch,
                            !.pc = IF w \in Sessions THEN "loaded" ELSE "receipt",
                            !.expected = IF w \in Sessions THEN Versions(h) ELSE @]
  <1>1. /\ writer \in [Writers -> Appending] /\ x \in Appending /\ epoch \in Nat /\ WriterInv(w) /\ x.pc = "load"
        /\ \A b \in delayed : b.entry.batch # 0
    BY WriterFacts DEF TypeInv, Load, At
  <1>2. h \in Histories /\ Past(x.agg, h) /\ Versions(h) \in Nat
    <2>1. TypeInv
      BY DEF AppendInv
    <2>2. h \in Histories /\ Past(x.agg, h) /\ DOMAIN h \subseteq 1..Len(log) /\ Len(log) \in Nat
      BY <2>1, LoadedIsPast
    <2> HIDE DEF h
    <2> QED  BY <2>2, VersionsType
  <1>3. writer' = [writer EXCEPT ![w] = y] /\ UNCHANGED <<log, epoch, delayed, batches, refused>>
    BY DEF Load, Move
  <1> HIDE DEF h
  <1>4. /\ y \in Appending /\ y.pc \in {"loaded", "receipt"} /\ y.hist = h /\ y.from = epoch
        /\ y.batch = x.batch /\ y.ack = x.ack /\ y.incarnation = x.incarnation
        /\ y.agg = x.agg /\ y.op = x.op /\ y.content = x.content
    BY <1>1, <1>2 DEF Appending, Pcs
  <1>5. writer'[w] = y
    BY <1>1, <1>3
  <1> HIDE DEF y
  <1>6. WriterInv(w)'
    <2>1. \A a, hist : Past(a, hist)' <=> Past(a, hist)
      BY <1>3 DEF Past, Positions
    <2>2. Past(writer'[w].agg, writer'[w].hist)
      BY <1>2, <1>4, <1>5
    <2>3. x.batch = 0 /\ x.ack = 0 /\ x.incarnation <= epoch /\ x.agg \in Aggregates /\ x.op \in Ops /\ x.content \in Contents
      BY <1>1 DEF WriterInv, Publishing
    <2>4. writer'[w].incarnation <= writer'[w].from /\ writer'[w].from <= epoch'
      BY <1>1, <1>3, <1>4, <1>5, <2>3
    <2>5. /\ writer'[w].pc \in {"loaded", "receipt"} /\ writer'[w].batch = 0 /\ writer'[w].ack = 0
          /\ writer'[w].agg \in Aggregates /\ writer'[w].op \in Ops /\ writer'[w].content \in Contents
          /\ delayed' = delayed
      BY <1>3, <1>4, <1>5, <2>3
    <2> HIDE DEF x
    <2> QED  BY <1>1, <2>1, <2>2, <2>4, <2>5 DEF WriterInv, Publishing
  <1>7. x.batch = 0
    BY <1>1 DEF WriterInv, Publishing
  <1> QED  BY <1>3, <1>4, <1>5, <1>6, <1>7, Moves

\* ValidateIncarnation: whoever gets past the second fence read the stream it is about to write.
LEMMA ValidateStep ==
    ASSUME AppendInv, NEW w \in Writers, NEW pc \in {"loaded", "fence"}, NEW next \in {"fence", "receipt"},
           ValidateIncarnation(w, pc, next)
    PROVE  AppendInv'
  <1> DEFINE x == writer[w]
             y == [x EXCEPT !.pc = next]
  <1>1. /\ writer \in [Writers -> Appending] /\ x \in Appending /\ WriterInv(w) /\ x.pc = pc
        /\ \A b \in delayed : b.entry.batch # 0
    BY WriterFacts DEF ValidateIncarnation, At
  <1>2. /\ x.batch = 0 /\ x.ack = 0 /\ x.agg \in Aggregates /\ x.op \in Ops /\ x.content \in Contents
        /\ x.incarnation <= x.from /\ x.from <= epoch /\ (x.from = epoch => Past(x.agg, x.hist))
    BY <1>1 DEF WriterInv, Publishing
  <1>3. CASE ~SameIncarnation(w)
    <2>1. Answer(w, writer[w], "recreated") /\ UNCHANGED <<log, epoch, delayed, batches>>
      BY <1>3 DEF ValidateIncarnation
    <2>2. Gone(w) /\ "recreated" \in Results
      BY <1>2 DEF Gone, Results
    <2> QED  BY <2>1, <2>2, Answers
  <1>4. CASE SameIncarnation(w)
    <2>1. writer' = [writer EXCEPT ![w] = y] /\ UNCHANGED <<log, epoch, delayed, batches, refused>>
      BY <1>4 DEF ValidateIncarnation, Move
    <2>2. writer'[w] = y
      BY <1>1, <2>1
    <2>3. /\ y \in Appending /\ y.pc = next /\ y.batch = 0 /\ y.ack = 0 /\ y.agg = x.agg /\ y.op = x.op
          /\ y.content = x.content /\ y.hist = x.hist /\ y.from = x.from /\ y.incarnation = x.incarnation
      BY <1>1, <1>2 DEF Appending, Pcs
    <2>4. x.from = epoch
      BY <1>1, <1>2, <1>4 DEF SameIncarnation, Appending, AppendInv, TypeInv
    <2> HIDE DEF y
    <2>5. \A a, hist : Past(a, hist)' <=> Past(a, hist)
      BY <2>1 DEF Past, Positions
    <2>6. WriterInv(w)'
      <3>1. Past(writer[w].agg, writer[w].hist)'
        BY <1>2, <2>2, <2>3, <2>4, <2>5
      <3>2. writer'[w].incarnation <= writer'[w].from /\ writer'[w].from <= epoch'
        BY <1>2, <2>1, <2>2, <2>3
      <3>3. /\ writer'[w].pc \in {"fence", "receipt"} /\ writer'[w].batch = 0 /\ writer'[w].ack = 0
            /\ writer'[w].agg \in Aggregates /\ writer'[w].op \in Ops /\ writer'[w].content \in Contents
            /\ delayed' = delayed
        BY <1>2, <2>1, <2>2, <2>3
      <3> HIDE DEF x
      <3> QED  BY <1>1, <3>1, <3>2, <3>3 DEF WriterInv, Publishing
    <2> QED  BY <2>1, <2>2, <2>3, <2>6, Moves
  <1> QED  BY <1>3, <1>4

\* CheckAppend: what is published was not in the history it was checked against.
LEMMA CheckAppendStep ==
    ASSUME AppendInv, NEW w \in Writers, CheckAppend(w)
    PROVE  AppendInv'
  <1> DEFINE x == writer[w]
             existing == Existing(x.hist, x.op, x.content)
             y == [x EXCEPT !.pc = "publish", !.batch = batches + 1]
  <1>1. /\ writer \in [Writers -> Appending] /\ x \in Appending /\ WriterInv(w) /\ x.pc = "receipt" /\ TypeInv
        /\ \A b \in delayed : b.entry.batch # 0
    BY WriterFacts DEF CheckAppend, At
  <1>2. /\ x.batch = 0 /\ x.ack = 0 /\ x.agg \in Aggregates /\ x.op \in Ops /\ x.content \in Contents
        /\ Past(x.agg, x.hist)
    BY <1>1 DEF WriterInv, Publishing
  <1>3. ASSUME NEW result \in Results, Answer(w, x, result) /\ UNCHANGED batches
        PROVE  AppendInv'
    <2>1. UNCHANGED <<log, epoch, delayed, batches>>
      BY <1>3 DEF CheckAppend
    <2>2. Gone(w)
      BY <1>2 DEF Gone
    <2> QED  BY <1>3, <2>1, <2>2, Answers
  <1>4. ASSUME existing = "none", batches' = batches + 1, Move(w, y), UNCHANGED refused
        PROVE  AppendInv'
    <2>1. writer' = [writer EXCEPT ![w] = y] /\ UNCHANGED <<log, epoch, delayed, refused>>
      BY <1>4 DEF CheckAppend, Move
    <2>2. writer'[w] = y /\ batches \in Nat /\ batches + 1 \in Nat
      BY <1>1, <2>1 DEF TypeInv
    <2>3. /\ y \in Appending /\ y.pc = "publish" /\ y.batch = batches + 1 /\ y.ack = 0 /\ y.agg = x.agg /\ y.op = x.op
          /\ y.content = x.content /\ y.hist = x.hist
      BY <1>1, <1>2, <2>2 DEF Appending, Pcs
    <2> HIDE DEF y
    <2>4. \A i \in DOMAIN x.hist : x.hist[i].op # x.op
      BY <1>4 DEF Existing
    <2>5. Fresh(x.agg, x.op, LastSequence(x.hist))
      <3>1. Len(log) \in Nat /\ DOMAIN x.hist \subseteq 1..Len(log) /\ \A i \in Positions(x.agg) : i \in 1..Len(log)
        BY <1>1, <1>2, LoadedIsPast DEF Past
      <3> DEFINE n == LastSequence(x.hist)
      <3>2. n \in 0..Len(log) /\ (n # 0 => n \in DOMAIN x.hist)
        BY <3>1, LastIsGreatest
      <3> HIDE DEF n
      <3>3. ASSUME NEW i \in Positions(x.agg), i <= n PROVE log[i].op # x.op
        <4>1. n \in DOMAIN x.hist
          BY <3>1, <3>2, <3>3
        <4>2. i \in DOMAIN x.hist /\ x.hist[i] = log[i]
          BY <1>2, <3>3, <4>1 DEF Past
        <4> QED  BY <2>4, <4>2
      <3> QED  BY <3>2, <3>3 DEF Fresh, n
    <2>6. Nowhere(batches + 1)
      BY <1>1, <2>2 DEF TypeInv, Nowhere
    <2>7. batches + 1 \in (1..batches') \ refused'
      BY <1>1, <1>4, <2>2 DEF TypeInv
    <2>8. WriterInv(w)'
      <3>1. /\ \A a, hist : Past(a, hist)' <=> Past(a, hist)
            /\ \A a, op, n : Fresh(a, op, n)' <=> Fresh(a, op, n)
            /\ \A k : Nowhere(k)' <=> Nowhere(k)
        BY <2>1 DEF Past, Fresh, Nowhere, Positions
      <3>2. \A i \in DOMAIN log' : log'[i].batch # batches + 1
        BY <2>1, <2>6 DEF Nowhere
      <3>3. \A b \in delayed' : b.entry.batch # batches + 1
        BY <2>1, <2>6 DEF Nowhere
      <3>4. /\ writer'[w].pc = "publish" /\ writer'[w].batch = batches + 1 /\ writer'[w].ack = 0
            /\ writer'[w].agg \in Aggregates /\ writer'[w].op \in Ops /\ writer'[w].content \in Contents
        BY <1>2, <2>2, <2>3
      <3>5. Past(writer[w].agg, writer[w].hist)'
        BY <1>2, <2>2, <2>3, <3>1
      <3>6. Fresh(writer[w].agg, writer[w].op, LastSequence(writer[w].hist))'
        BY <2>5, <2>2, <2>3, <3>1
      <3>7. Nowhere(writer[w].batch)'
        BY <2>6, <3>1, <3>4
      <3> HIDE DEF x
      <3> QED  BY <2>7, <3>2, <3>3, <3>4, <3>5, <3>6, <3>7 DEF WriterInv, Publishing
    <2>9. \A v \in Writers : writer[v].batch # batches + 1
      <3> SUFFICES ASSUME NEW v \in Writers PROVE writer[v].batch # batches + 1
        OBVIOUS
      <3>1. writer[v].batch \in (1..batches) \ refused \/ writer[v].batch = 0
        BY DEF AppendInv, WriterInv
      <3> QED  BY <2>2, <3>1
    <2> QED  BY <1>4, <2>1, <2>2, <2>3, <2>8, <2>9, Moves
  <1>5. existing \in {"none", "replayed", "identity"}
    BY DEF Existing
  <1>6. {"replayed", "identity", "conflict"} \subseteq Results
    BY DEF Results
  <1> HIDE DEF existing, y
  <1> QED  BY <1>3, <1>4, <1>5, <1>6 DEF CheckAppend, existing, y

\* PublishExhausted: a batch the server had no room for went nowhere.
LEMMA PublishExhaustedStep ==
    ASSUME AppendInv, NEW w \in Writers, PublishExhausted(w)
    PROVE  AppendInv'
  <1>1. WriterInv(w) /\ writer[w].pc = "publish"
    BY DEF AppendInv, PublishExhausted, At
  <1>2. Gone(w)
    BY <1>1 DEF WriterInv, Nowhere, Gone
  <1>3. Answer(w, writer[w], "capacity") /\ UNCHANGED <<log, epoch, delayed, batches>>
    BY DEF PublishExhausted
  <1>4. "capacity" \in Results
    BY DEF Results
  <1> QED  BY <1>2, <1>3, <1>4, Answers

\* Verify: its answers do not say that nothing was stored.
LEMMA VerifyStep ==
    ASSUME AppendInv, NEW w \in Writers, Verify(w)
    PROVE  AppendInv'
  <1>1. PICK result \in {"appended", "corrupt"} : Answer(w, writer[w], result)
    BY DEF Verify
  <1>2. UNCHANGED <<log, epoch, delayed, batches>>
    BY DEF Verify
  <1>3. result \in Results /\ result \notin Definite
    BY DEF Results, Definite
  <1> QED  BY <1>1, <1>2, <1>3, Answers

\* ResolveRace: a reused identity is reported only when another entry holds the
\* operation, which keeps the writer's own batch out, now and later.
LEMMA ResolveRaceStep ==
    ASSUME AppendInv, NEW w \in Writers, ResolveRace(w)
    PROVE  AppendInv'
  <1> DEFINE x == writer[w]
             existing == Existing(x.hist, x.op, x.content)
             outcome == IF ReceiptWrites(x.op, x.agg) THEN "identity"
                        ELSE IF existing = "none" THEN "conflict" ELSE existing
  <1>1. WriterInv(w) /\ x.pc = "race receipt" /\ OperationOnce /\ ReceiptHasCommits /\ DelayedInv /\ TypeInv
    BY DEF AppendInv, ResolveRace, At
  <1>2. x.agg \in Aggregates /\ x.op \in Ops /\ x.batch # 0 /\ Past(x.agg, x.hist)
    <2>1. x.batch \in (1..batches) \ refused
      BY <1>1 DEF WriterInv, Publishing
    <2>2. x.batch # 0
      BY <2>1
    <2> QED  BY <1>1, <2>2 DEF WriterInv
  <1>3. ASSUME NEW p \in Positions(x.agg), log[p].op = x.op, log[p].tx \/ log[p].content # x.content
        PROVE  Gone(w)
    <2>1. ASSUME NEW i \in DOMAIN log, log[i].batch = x.batch
          PROVE  FALSE
      <3>1. MadeBy(log[i], x)
        BY <1>1, <1>2, <2>1 DEF WriterInv
      <3>2. p \in DOMAIN log /\ log[p].agg = x.agg
        BY DEF Positions
      <3>3. i = p
        BY <1>1, <1>2, <1>3, <3>1, <3>2 DEF OperationOnce, MadeBy
      <3> QED  BY <1>3, <3>1, <3>3 DEF MadeBy
    <2>2. ASSUME NEW b \in delayed, b.entry.batch = x.batch
          PROVE  Outrun(b)
      <3>1. b.entry.agg = x.agg /\ b.entry.op = x.op
        BY <1>1, <2>2 DEF WriterInv, MadeBy
      <3>2. Fresh(x.agg, x.op, b.expectation)
        BY <1>1, <3>1 DEF DelayedInv
      <3>3. p \in Nat /\ b.expectation \in Nat /\ ~(p <= b.expectation)
        <4>1. p \in Nat
          <5>1. Positions(x.agg) \subseteq 1..Len(log) /\ Len(log) \in Nat
            BY <1>1, LoadedIsPast
          <5> QED  BY <5>1
        <4>2. b.expectation \in Nat
          BY <1>1 DEF TypeInv
        <4> QED  BY <1>3, <3>2, <4>1, <4>2 DEF Fresh
      <3> QED  BY <3>1, <3>3 DEF Outrun
    <2> QED  BY <2>1, <2>2 DEF Gone
  <1>4. ASSUME ReceiptWrites(x.op, x.agg)
        PROVE  Gone(w)
    BY <1>1, <1>2, <1>3, <1>4 DEF ReceiptHasCommits
  <1>5. ASSUME existing = "identity"
        PROVE  Gone(w)
    <2>1. PICK p \in DOMAIN x.hist : x.hist[p].op = x.op /\ ~(~x.hist[p].tx /\ x.hist[p].content = x.content)
      BY <1>5 DEF Existing
    <2>2. p \in Positions(x.agg) /\ x.hist[p] = log[p]
      BY <1>2, <2>1 DEF Past
    <2> QED  BY <1>3, <2>1, <2>2
  <1>6. ASSUME x.ack # 0
        PROVE  Gone(w)
    BY <1>1, <1>6 DEF WriterInv, Nowhere, Gone
  <1>7. existing \in {"none", "replayed", "identity"}
    BY DEF Existing
  <1>8. Answer(w, x, Reconciled(x, outcome)) /\ UNCHANGED <<log, epoch, delayed, batches>>
    BY DEF ResolveRace
  <1> HIDE DEF existing, x
  <1>9. /\ Reconciled(x, outcome) \in Results
        /\ Reconciled(x, outcome) \in Definite => ReceiptWrites(x.op, x.agg) \/ existing = "identity" \/ x.ack # 0
    BY <1>7 DEF Reconciled, Results, Definite
  <1> QED  BY <1>4, <1>5, <1>6, <1>8, <1>9, Answers DEF x

\* LoadRace
LEMMA LoadRaceStep ==
    ASSUME AppendInv, NEW w \in Writers, LoadRace(w)
    PROVE  AppendInv'
  <1> DEFINE x == writer[w]
             h == History(x.agg)
             y == [x EXCEPT !.pc = "race receipt", !.hist = h]
  <1>1. /\ writer \in [Writers -> Appending] /\ x \in Appending /\ WriterInv(w) /\ x.pc = "race" /\ TypeInv
        /\ \A v \in Writers \ {w} : x.batch # 0 => x.batch # writer[v].batch
    BY WriterFacts DEF LoadRace, At
  <1>2. h \in Histories /\ Past(x.agg, h)
    BY <1>1, LoadedIsPast
  <1>3. writer' = [writer EXCEPT ![w] = y] /\ UNCHANGED <<log, epoch, delayed, batches, refused>>
    BY DEF LoadRace, Move
  <1> HIDE DEF h
  <1>4. /\ y \in Appending /\ y.pc = "race receipt" /\ y.hist = h
        /\ y.batch = x.batch /\ y.ack = x.ack /\ y.agg = x.agg /\ y.op = x.op /\ y.content = x.content
    BY <1>1, <1>2 DEF Appending, Pcs
  <1>5. writer'[w] = y
    BY <1>1, <1>3
  <1> HIDE DEF y
  <1>6. /\ \A a, hist : Past(a, hist)' <=> Past(a, hist)
        /\ \A k : Nowhere(k)' <=> Nowhere(k)
    BY <1>3 DEF Past, Nowhere, Positions
  <1>7. WriterInv(w)'
    <2>1. Past(writer[w].agg, writer[w].hist)'
      BY <1>2, <1>4, <1>5, <1>6
    <2>2. \A e : MadeBy(e, y) <=> MadeBy(e, x)
      BY <1>4 DEF MadeBy
    <2>3. \A e : MadeBy(e, writer[w])' <=> MadeBy(e, x)
      BY <1>5, <2>2 DEF MadeBy
    <2>4. /\ y.batch \in (1..batches) \ refused
          /\ y.agg \in Aggregates /\ y.op \in Ops /\ y.content \in Contents
          /\ \A i \in DOMAIN log : log[i].batch = y.batch /\ y.batch # 0 => MadeBy(log[i], x)
          /\ \A b \in delayed : b.entry.batch = y.batch => MadeBy(b.entry, x)
          /\ y.ack # 0 => Nowhere(y.batch)
      BY <1>1, <1>4 DEF WriterInv, Publishing
    <2> QED  BY <1>3, <1>4, <1>5, <1>6, <2>1, <2>3, <2>4 DEF WriterInv, Publishing
  <1> QED  BY <1>1, <1>3, <1>4, <1>5, <1>7, Moves

\* PublishRejected: a refused batch went nowhere, and its writer knows why.
LEMMA PublishRejectedStep ==
    ASSUME AppendInv, NEW w \in Writers, PublishRejected(w)
    PROVE  AppendInv'
  <1> DEFINE x == writer[w]
  <1>1. /\ writer \in [Writers -> Appending] /\ x \in Appending /\ WriterInv(w) /\ x.pc = "publish" /\ TypeInv
        /\ \A v \in Writers \ {w} : x.batch # 0 => x.batch # writer[v].batch
    BY WriterFacts DEF PublishRejected, At
  <1>2. PICK n \in {0, 1} : Move(w, [writer[w] EXCEPT !.pc = "race", !.ack = n])
    BY DEF PublishRejected
  <1> DEFINE y == [x EXCEPT !.pc = "race", !.ack = n]
  <1>3. writer' = [writer EXCEPT ![w] = y] /\ UNCHANGED <<log, epoch, delayed, batches, refused>>
    BY <1>2 DEF PublishRejected, Move
  <1>4. /\ y \in Appending /\ y.pc = "race" /\ y.batch = x.batch /\ y.agg = x.agg /\ y.op = x.op /\ y.content = x.content
    <2>1. n \in Nat
      OBVIOUS
    <2> QED  BY <1>1, <2>1 DEF Appending, Pcs
  <1>5. writer'[w] = y
    BY <1>1, <1>3
  <1> HIDE DEF y
  <1>6. \A k : Nowhere(k)' <=> Nowhere(k)
    BY <1>3 DEF Nowhere
  <1>7. WriterInv(w)'
    BY <1>1, <1>3, <1>4, <1>5, <1>6 DEF WriterInv, Publishing, MadeBy
  <1> QED  BY <1>1, <1>3, <1>4, <1>5, <1>7, Moves

\* PublishUnanswered: a request that may still arrive carries the append it came from.
LEMMA PublishUnansweredStep ==
    ASSUME AppendInv, NEW w \in Writers, PublishUnanswered(w)
    PROVE  AppendInv'
  <1> DEFINE x == writer[w]
             y == [x EXCEPT !.pc = "race"]
             b == Batch(x)
  <1>1. /\ writer \in [Writers -> Appending] /\ x \in Appending /\ WriterInv(w) /\ x.pc = "publish" /\ TypeInv
        /\ \A v \in Writers \ {w} : x.batch # 0 => x.batch # writer[v].batch
    BY WriterFacts DEF PublishUnanswered, At
  <1>2. /\ writer' = [writer EXCEPT ![w] = y] /\ UNCHANGED <<log, epoch, batches, refused>>
        /\ delayed' \subseteq delayed \cup {b}
    BY DEF PublishUnanswered, Move
  <1>3. /\ y \in Appending /\ y.pc = "race" /\ y.batch = x.batch /\ y.ack = x.ack
        /\ y.agg = x.agg /\ y.op = x.op /\ y.content = x.content
    BY <1>1 DEF Appending, Pcs
  <1>4. writer'[w] = y /\ \A v \in Writers \ {w} : writer'[v] = writer[v]
    BY <1>1, <1>2
  <1>5. /\ x.batch \in 1..batches /\ x.batch \notin refused /\ x.batch # 0 /\ x.ack = 0 /\ x.agg \in Aggregates
        /\ x.op \in Ops /\ x.content \in Contents /\ Past(x.agg, x.hist)
        /\ Fresh(x.agg, x.op, LastSequence(x.hist))
    <2>1. x.batch \in (1..batches) \ refused
      BY <1>1 DEF WriterInv, Publishing
    <2> QED  BY <1>1, <2>1 DEF WriterInv
  <1> HIDE DEF y
  <1>6. /\ b \in [entry : Entry, expectation : Nat] /\ MadeBy(b.entry, x) /\ b.entry.batch = x.batch
        /\ b.entry.agg = x.agg /\ b.entry.op = x.op /\ b.expectation = LastSequence(x.hist)
    <2>1. Len(log) \in Nat /\ DOMAIN x.hist \subseteq 1..Len(log)
      BY <1>1, <1>5, LoadedIsPast DEF Past
    <2>2. Versions(x.hist) \in Nat /\ LastSequence(x.hist) \in Nat
      BY <2>1, VersionsType, LastIsGreatest
    <2>3. Versions(x.hist) + 1 \in Nat
      BY <2>2
    <2>4. x.batch \in Nat /\ x.from \in Nat
      BY <1>1 DEF Appending
    <2> QED  BY <1>5, <2>2, <2>3, <2>4 DEF Batch, Expectation, Entry, MadeBy
  <1> HIDE DEF b
  <1>7. TypeInv'
    <2>1. writer' \in [Writers -> Appending]
      BY <1>1, <1>2, <1>3
    <2>2. \A c \in delayed' : c \in [entry : Entry, expectation : Nat] /\ c.entry.batch \in 1..batches /\ c.entry.agg \in Aggregates
      BY <1>1, <1>2, <1>5, <1>6 DEF TypeInv
    <2> QED  BY <1>1, <1>2, <2>1, <2>2 DEF TypeInv
  <1>8. OwnBatches' /\ OperationOnce' /\ ReceiptHasCommits' /\ RefusedIsAbsent'
    <2>1. OwnBatches'
      BY <1>3, <1>4 DEF AppendInv, OwnBatches
    <2> QED  BY <1>2, <2>1 DEF AppendInv, OperationOnce, ReceiptHasCommits, ReceiptWrites, Positions, RefusedIsAbsent
  <1>9. DelayedInv'
    <2> SUFFICES ASSUME NEW c \in delayed'
                 PROVE  /\ Fresh(c.entry.agg, c.entry.op, c.expectation)'
                        /\ c.entry.batch \in refused' => Outrun(c)'
      BY DEF DelayedInv
    <2>1. Fresh(c.entry.agg, c.entry.op, c.expectation) /\ (c.entry.batch \in refused => Outrun(c))
      BY <1>2, <1>5, <1>6 DEF AppendInv, DelayedInv
    <2> QED  BY <1>2, <2>1 DEF Fresh, Outrun, Positions
  <1>10. ASSUME NEW v \in Writers PROVE WriterInv(v)'
    <2>1. \A a, hist : Past(a, hist)' <=> Past(a, hist)
      BY <1>2 DEF Past, Positions
    <2>2. \A a, op, n : Fresh(a, op, n)' <=> Fresh(a, op, n)
      BY <1>2 DEF Fresh, Positions
    <2>3. CASE v = w
      <3>1. \A c \in delayed' : c.entry.batch = x.batch => MadeBy(c.entry, x)
        BY <1>1, <1>2, <1>6 DEF WriterInv
      <3>2. \A i \in DOMAIN log : log[i].batch = x.batch => MadeBy(log[i], x)
        BY <1>1, <1>5 DEF WriterInv
      <3>3. /\ writer'[v].pc = "race" /\ writer'[v].ack = 0 /\ writer'[v].batch \in (1..batches') \ refused'
            /\ writer'[v].agg \in Aggregates /\ writer'[v].op \in Ops /\ writer'[v].content \in Contents
        BY <1>2, <1>3, <1>4, <1>5, <2>3
      <3>4. /\ \A i \in DOMAIN log' : log'[i].batch = writer'[v].batch => MadeBy(log'[i], writer'[v])
            /\ \A c \in delayed' : c.entry.batch = writer'[v].batch => MadeBy(c.entry, writer'[v])
        BY <1>2, <1>3, <1>4, <2>3, <3>1, <3>2 DEF MadeBy
      <3> HIDE DEF x
      <3> QED  BY <3>3, <3>4 DEF WriterInv, Publishing
    <2>4. CASE v # w
      <3>1. writer'[v] = writer[v] /\ WriterInv(v) /\ writer[v].batch # x.batch
        BY <1>1, <1>4, <1>5, <2>4 DEF AppendInv
      <3>2. Nowhere(writer[v].batch) => Nowhere(writer[v].batch)'
        BY <1>2, <1>6, <3>1 DEF Nowhere
      <3>3. \A c \in delayed' : c.entry.batch = writer[v].batch => MadeBy(c.entry, writer[v])
        BY <1>2, <1>6, <3>1 DEF WriterInv
      <3> HIDE DEF x
      <3> QED  BY <1>2, <2>1, <2>2, <3>1, <3>2, <3>3 DEF WriterInv
    <2> QED  BY <2>3, <2>4
  <1> QED  BY <1>7, <1>8, <1>9, <1>10 DEF AppendInv

-----------------------------------------------------------------------------
(* Steps that store something. *)

\* The stream gets longer, and nothing new is on its way.
StreamGrows ==
    /\ log' \in Seq(Entry) /\ Len(log) <= Len(log') /\ \A i \in 1..Len(log) : log'[i] = log[i]
    /\ UNCHANGED <<epoch, batches, refused>> /\ delayed' \subseteq delayed

\* What was read stays past, what was fresh up to a sequence stays so, and who is outrun stays behind.
LEMMA GrowthKeeps ==
    ASSUME TypeInv, StreamGrows
    PROVE  /\ \A a, hist : Past(a, hist) => Past(a, hist)'
           /\ \A a, op, n : Fresh(a, op, n) => Fresh(a, op, n)'
           /\ \A b : Outrun(b) => Outrun(b)'
  <1>1. /\ Len(log) \in Nat /\ Len(log') \in Nat /\ DOMAIN log = 1..Len(log) /\ DOMAIN log' = 1..Len(log')
        /\ Len(log) <= Len(log')
    BY DEF TypeInv, StreamGrows
  <1>2. \A a : /\ Positions(a) \subseteq Positions(a)'
               /\ \A i \in Positions(a)' : i <= Len(log) => i \in Positions(a)
               /\ \A i \in Positions(a)' : i \in Nat
               /\ \A i \in Positions(a) : log'[i] = log[i] /\ i \in 1..Len(log)
    BY <1>1 DEF StreamGrows, Positions
  <1>3. ASSUME NEW a, NEW hist, Past(a, hist) PROVE Past(a, hist)'
    <2>1. ASSUME NEW i \in Positions(a)', NEW j \in DOMAIN hist, i <= j
          PROVE  i \in DOMAIN hist
      <3>1. j \in 1..Len(log)
        BY <1>2, <1>3 DEF Past
      <3>2. i \in Positions(a)
        BY <1>1, <1>2, <2>1, <3>1
      <3> QED  BY <1>3, <2>1, <3>2 DEF Past
    <2>2. DOMAIN hist \subseteq Positions(a)' /\ \A i \in DOMAIN hist : hist[i] = log'[i]
      BY <1>2, <1>3 DEF Past
    <2> QED  BY <2>1, <2>2 DEF Past
  <1>4. ASSUME NEW a, NEW op, NEW n, Fresh(a, op, n) PROVE Fresh(a, op, n)'
    <2>1. n \in 0..Len(log) /\ n \in 0..Len(log')
      BY <1>1, <1>4 DEF Fresh
    <2>2. ASSUME NEW i \in Positions(a)', i <= n PROVE log'[i].op # op
      <3>1. i \in Positions(a) /\ log'[i] = log[i]
        BY <1>1, <1>2, <2>1, <2>2
      <3> QED  BY <1>4, <2>2, <3>1 DEF Fresh
    <2> QED  BY <2>1, <2>2 DEF Fresh
  <1>5. ASSUME NEW b, Outrun(b) PROVE Outrun(b)'
    BY <1>2, <1>5 DEF Outrun
  <1> QED  BY <1>3, <1>4, <1>5

\* New entries that are no one's refused batch keep the claims about the stream and about what is delayed.
LEMMA StreamKeeps ==
    ASSUME AppendInv, StreamGrows, writer' \in [Writers -> Appending],
           \A i \in DOMAIN log' : i > Len(log) => log'[i].batch \in (0..batches) \ (refused \ {0})
    PROVE  TypeInv' /\ DelayedInv' /\ RefusedIsAbsent'
  <1>1. TypeInv /\ Len(log) \in Nat /\ DOMAIN log = 1..Len(log) /\ DOMAIN log' = 1..Len(log') /\ Len(log') \in Nat
    BY DEF AppendInv, TypeInv, StreamGrows
  <1>2. ASSUME NEW i \in DOMAIN log'
        PROVE  log'[i].batch \in 0..batches /\ (log'[i].batch = 0 \/ log'[i].batch \notin refused)
    <2>1. CASE i > Len(log)
      BY <2>1
    <2>2. CASE i \in 1..Len(log)
      <3>1. log'[i] = log[i] /\ i \in DOMAIN log
        BY <1>1, <2>2 DEF StreamGrows
      <3> QED  BY <3>1 DEF AppendInv, TypeInv, RefusedIsAbsent
    <2> QED  BY <1>1, <2>1, <2>2
  <1>3. TypeInv'
    BY <1>1, <1>2 DEF TypeInv, StreamGrows
  <1>4. DelayedInv'
    BY <1>1, GrowthKeeps DEF AppendInv, DelayedInv, StreamGrows
  <1>5. RefusedIsAbsent'
    BY <1>2 DEF RefusedIsAbsent, StreamGrows
  <1> QED  BY <1>3, <1>4, <1>5

\* A writer that takes no part keeps what it relies on, also when its own late request is stored.
LEMMA BystanderKeeps ==
    ASSUME AppendInv, StreamGrows, NEW w \in Writers, writer'[w] = writer[w],
           \A i \in DOMAIN log' : i > Len(log) /\ log'[i].batch = writer[w].batch /\ writer[w].batch # 0
                => \E b \in delayed : b.entry = log'[i]
    PROVE  WriterInv(w)'
  <1> DEFINE x == writer[w]
  <1>1. WriterInv(w) /\ TypeInv
    BY DEF AppendInv
  <1>2. /\ \A a, hist : Past(a, hist) => Past(a, hist)'
        /\ \A a, op, n : Fresh(a, op, n) => Fresh(a, op, n)'
    BY <1>1, GrowthKeeps
  <1>3. ASSUME NEW i \in DOMAIN log', log'[i].batch = x.batch, x.batch # 0
        PROVE  (\E b \in delayed : b.entry = log'[i]) \/ (i \in DOMAIN log /\ log[i] = log'[i])
    BY <1>1, <1>3 DEF StreamGrows, TypeInv
  <1>4. ASSUME NEW i \in DOMAIN log', log'[i].batch = x.batch, x.batch # 0
        PROVE  MadeBy(log'[i], x)
    BY <1>1, <1>3, <1>4 DEF WriterInv
  <1>5. x.batch # 0 /\ Nowhere(x.batch) => Nowhere(x.batch)'
    BY <1>3 DEF Nowhere, StreamGrows
  <1>6. x.pc \in Publishing => x.batch # 0
    <2>1. x.pc \in Publishing => x.batch \in (1..batches) \ refused
      BY <1>1 DEF WriterInv
    <2> QED  BY <2>1
  <1>7. x.pc \in {"publish", "race", "race receipt"} => x.batch # 0
    BY <1>6 DEF Publishing
  <1> QED
    BY <1>1, <1>2, <1>4, <1>5, <1>7 DEF WriterInv, StreamGrows

\* One more entry of an aggregate that does not hold its operation.
LEMMA OneMore ==
    ASSUME AppendAssumption, AppendInv, NEW e \in Entry, e.agg \in Aggregates, log' = Append(log, e),
           \A i \in Positions(e.agg) : log[i].op # e.op
    PROVE  /\ log' \in Seq(Entry) /\ Len(log') = Len(log) + 1 /\ log'[Len(log) + 1] = e
           /\ \A i \in 1..Len(log) : log'[i] = log[i]
           /\ OperationOnce' /\ ReceiptHasCommits'
  <1>1. log \in Seq(Entry) /\ Len(log) \in Nat /\ DOMAIN log = 1..Len(log)
    BY DEF AppendInv, TypeInv
  <1>2. /\ log' \in Seq(Entry) /\ Len(log') = Len(log) + 1 /\ log'[Len(log) + 1] = e
        /\ \A i \in 1..Len(log) : log'[i] = log[i]
    BY <1>1
  <1>3. DOMAIN log' = 1..(Len(log) + 1) /\ \A i \in DOMAIN log' : i \in DOMAIN log \/ i = Len(log) + 1
    BY <1>1, <1>2
  <1>4. OperationOnce'
    <2> SUFFICES ASSUME NEW i \in DOMAIN log', NEW j \in DOMAIN log', log'[i].agg \in Aggregates,
                        log'[i].agg = log'[j].agg, log'[i].op = log'[j].op
                 PROVE  i = j
      BY DEF OperationOnce
    <2>1. CASE i \in DOMAIN log /\ j \in DOMAIN log
      <3>1. log'[i] = log[i] /\ log'[j] = log[j]
        BY <1>1, <1>2, <2>1
      <3> QED  BY <2>1, <3>1 DEF AppendInv, OperationOnce
    <2>2. CASE i \in DOMAIN log /\ j = Len(log) + 1
      BY <1>1, <1>2, <2>2 DEF Positions
    <2>3. CASE i = Len(log) + 1 /\ j \in DOMAIN log
      BY <1>1, <1>2, <2>3 DEF Positions
    <2> QED  BY <1>3, <2>1, <2>2, <2>3
  <1>5. ReceiptHasCommits'
    <2> SUFFICES ASSUME NEW a \in Aggregates, NEW op \in Ops, ReceiptWrites(op, a)'
                 PROVE  \E i \in Positions(a)' : log'[i].op = op /\ log'[i].tx
      BY DEF ReceiptHasCommits
    <2>1. ReceiptWrites(op, a)
      BY <1>1, <1>2, <1>3 DEF ReceiptWrites, AppendAssumption
    <2>2. PICK i \in Positions(a) : log[i].op = op /\ log[i].tx
      BY <2>1 DEF AppendInv, ReceiptHasCommits
    <2> QED  BY <1>1, <1>2, <1>3, <2>2 DEF Positions
  <1> QED  BY <1>2, <1>4, <1>5

\* PublishAccepted: the expectation rules out that the operation was stored since it was checked.
LEMMA PublishAcceptedStep ==
    ASSUME AppendAssumption, AppendInv, NEW w \in Writers, PublishAccepted(w)
    PROVE  AppendInv'
  <1> DEFINE x == writer[w]
             b == Batch(x)
             e == b.entry
  <1>1. /\ writer \in [Writers -> Appending] /\ x \in Appending /\ WriterInv(w) /\ x.pc = "publish" /\ TypeInv
        /\ \A v \in Writers \ {w} : x.batch # 0 => x.batch # writer[v].batch
    BY WriterFacts DEF PublishAccepted, At
  <1>2. Current(b) /\ log' = Append(log, e) /\ UNCHANGED <<epoch, delayed, batches, refused>>
    BY DEF PublishAccepted
  <1>3. /\ x.batch \in (1..batches) \ refused /\ x.batch # 0 /\ x.agg \in Aggregates /\ x.op \in Ops
        /\ x.content \in Contents /\ Past(x.agg, x.hist) /\ Fresh(x.agg, x.op, LastSequence(x.hist)) /\ Nowhere(x.batch)
    <2>1. x.batch \in (1..batches) \ refused
      BY <1>1 DEF WriterInv, Publishing
    <2>2. x.batch # 0
      BY <2>1
    <2> QED  BY <1>1, <2>1, <2>2 DEF WriterInv
  <1>4. /\ e \in Entry /\ MadeBy(e, x) /\ e.batch = x.batch /\ e.agg = x.agg /\ e.op = x.op
        /\ b.expectation = LastSequence(x.hist)
    <2>1. Len(log) \in Nat /\ DOMAIN x.hist \subseteq 1..Len(log)
      BY <1>1, <1>3, LoadedIsPast DEF Past
    <2>2. Versions(x.hist) \in Nat
      BY <2>1, VersionsType
    <2>3. Versions(x.hist) + 1 \in Nat
      BY <2>2
    <2>4. x.batch \in Nat /\ x.from \in Nat
      BY <1>1 DEF Appending
    <2> QED  BY <1>3, <2>3, <2>4 DEF Batch, Expectation, Entry, MadeBy
  <1>5. \A i \in Positions(e.agg) : log[i].op # e.op
    <2>1. \A i \in Positions(b.entry.agg) : i <= b.expectation
      BY <1>1, <1>2, CurrentIsLast
    <2> QED  BY <1>3, <1>4, <2>1 DEF Fresh
  <1> HIDE DEF e, b
  <1>6. /\ log' \in Seq(Entry) /\ Len(log') = Len(log) + 1 /\ log'[Len(log) + 1] = e
        /\ \A i \in 1..Len(log) : log'[i] = log[i]
        /\ OperationOnce' /\ ReceiptHasCommits'
    BY <1>2, <1>3, <1>4, <1>5, OneMore
  <1>7. Len(log) \in Nat /\ DOMAIN log = 1..Len(log) /\ DOMAIN log' = 1..(Len(log) + 1)
    BY <1>1, <1>6 DEF TypeInv
  <1>8. StreamGrows
    BY <1>2, <1>6, <1>7 DEF StreamGrows
  <1>9. PICK pc \in {"verify", "race"}, n \in {Len(log) + 1, 0} :
            writer' = [writer EXCEPT ![w] = [x EXCEPT !.pc = pc, !.ack = n]] /\ (pc = "race" => n = 0)
    BY DEF PublishAccepted, Move
  <1> DEFINE y == [x EXCEPT !.pc = pc, !.ack = n]
  <1>10. /\ y \in Appending /\ y.pc = pc /\ y.ack = n /\ y.batch = x.batch /\ y.agg = x.agg /\ y.op = x.op
         /\ y.content = x.content
    <2>1. n \in Nat
      BY <1>7
    <2> QED  BY <1>1, <2>1 DEF Appending, Pcs
  <1>11. writer'[w] = y /\ (\A v \in Writers \ {w} : writer'[v] = writer[v]) /\ writer' \in [Writers -> Appending]
    BY <1>1, <1>9, <1>10
  <1> HIDE DEF y
  <1>12. \A i \in DOMAIN log' : i > Len(log) => log'[i] = e
    BY <1>6, <1>7
  <1>13. TypeInv' /\ DelayedInv' /\ RefusedIsAbsent'
    <2>1. e.batch \in (0..batches) \ (refused \ {0})
      BY <1>3, <1>4
    <2> QED  BY <1>8, <1>11, <1>12, <2>1, StreamKeeps
  <1>14. OwnBatches'
    BY <1>10, <1>11 DEF AppendInv, OwnBatches
  <1>15. ASSUME NEW v \in Writers, v # w PROVE WriterInv(v)'
    <2>1. writer'[v] = writer[v] /\ writer[v].batch # e.batch
      BY <1>1, <1>3, <1>4, <1>11, <1>15
    <2> QED  BY <1>8, <1>12, <2>1, BystanderKeeps
  <1>16. WriterInv(w)'
    <2>1. /\ writer'[w].pc \in {"verify", "race"} /\ (writer'[w].pc = "race" => writer'[w].ack = 0)
          /\ writer'[w].batch \in (1..batches') \ refused'
          /\ writer'[w].agg \in Aggregates /\ writer'[w].op \in Ops /\ writer'[w].content \in Contents
      BY <1>2, <1>3, <1>9, <1>10, <1>11
    <2>2. \A i \in DOMAIN log' : log'[i].batch = x.batch => log'[i] = e
      BY <1>3, <1>6, <1>7, <1>12 DEF Nowhere
    <2>3. \A i \in DOMAIN log' : log'[i].batch = writer'[w].batch => MadeBy(log'[i], writer'[w])
      BY <1>4, <1>10, <1>11, <2>2 DEF MadeBy
    <2>4. \A c \in delayed' : c.entry.batch # writer'[w].batch
      BY <1>2, <1>3, <1>10, <1>11 DEF Nowhere
    <2> HIDE DEF x
    <2> QED  BY <2>1, <2>3, <2>4 DEF WriterInv, Publishing
  <1> QED  BY <1>6, <1>13, <1>14, <1>15, <1>16 DEF AppendInv

\* Arrives: a late request is stored only while nothing outran it.
LEMMA ArrivesStep ==
    ASSUME AppendAssumption, AppendInv, NEW b \in delayed, Arrives(b)
    PROVE  AppendInv'
  <1> DEFINE e == b.entry
  <1>1. TypeInv /\ delayed' \subseteq delayed /\ UNCHANGED <<epoch, batches, refused, writer>>
    BY DEF AppendInv, Arrives
  <1>2. b.expectation \in Nat /\ e \in Entry /\ e.batch \in 1..batches /\ e.agg \in Aggregates
    BY <1>1 DEF TypeInv
  <1>3. writer' \in [Writers -> Appending] /\ OwnBatches'
    BY <1>1 DEF AppendInv, TypeInv, OwnBatches
  <1>4. Len(log) \in Nat /\ DOMAIN log = 1..Len(log) /\ log \in Seq(Entry)
    BY <1>1 DEF TypeInv
  <1>5. CASE log' = log
    <2>1. StreamGrows
      BY <1>1, <1>4, <1>5 DEF StreamGrows
    <2>2. \A i \in DOMAIN log' : ~(i > Len(log))
      BY <1>4, <1>5
    <2>3. TypeInv' /\ DelayedInv' /\ RefusedIsAbsent'
      BY <1>3, <2>1, <2>2, StreamKeeps
    <2>4. \A w \in Writers : WriterInv(w)'
      BY <1>1, <2>1, <2>2, BystanderKeeps
    <2>5. OperationOnce' /\ ReceiptHasCommits'
      BY <1>5 DEF AppendInv, OperationOnce, ReceiptHasCommits, ReceiptWrites, Positions
    <2> QED  BY <1>3, <2>3, <2>4, <2>5 DEF AppendInv
  <1>6. CASE Current(b) /\ log' = Append(log, e)
    <2>1. \A i \in Positions(e.agg) : i <= b.expectation /\ i \in Nat
      <3>1. Positions(e.agg) \subseteq 1..Len(log)
        BY <1>1, LoadedIsPast
      <3> QED  BY <1>1, <1>4, <1>6, <3>1, CurrentIsLast
    <2>2. \A i \in Positions(e.agg) : log[i].op # e.op
      BY <2>1 DEF AppendInv, DelayedInv, Fresh
    <2>3. e.batch \notin refused
      BY <1>2, <2>1 DEF AppendInv, DelayedInv, Outrun
    <2>4. /\ log' \in Seq(Entry) /\ Len(log') = Len(log) + 1 /\ log'[Len(log) + 1] = e
          /\ \A i \in 1..Len(log) : log'[i] = log[i]
          /\ OperationOnce' /\ ReceiptHasCommits'
      BY <1>2, <1>6, <2>2, OneMore
    <2>5. DOMAIN log' = 1..(Len(log) + 1)
      BY <2>4
    <2>6. StreamGrows
      BY <1>1, <1>4, <2>4 DEF StreamGrows
    <2>7. \A i \in DOMAIN log' : i > Len(log) => log'[i] = e
      BY <1>4, <2>4, <2>5
    <2>8. e.batch \in (0..batches) \ (refused \ {0})
      BY <1>2, <2>3
    <2>9. TypeInv' /\ DelayedInv' /\ RefusedIsAbsent'
      BY <1>3, <2>6, <2>7, <2>8, StreamKeeps
    <2>10. \A w \in Writers : WriterInv(w)'
      BY <1>1, <2>6, <2>7, BystanderKeeps
    <2> QED  BY <1>3, <2>4, <2>9, <2>10 DEF AppendInv
  <1> QED  BY <1>5, <1>6 DEF Arrives

\* Transaction: its commits precede their receipt, one for each aggregate it writes.
LEMMA TransactionStep ==
    ASSUME AppendAssumption, AppendInv, NEW op \in Ops, NEW wrote \in SUBSET Aggregates, Transaction(op, wrote)
    PROVE  AppendInv'
  <1> DEFINE Commit(a) == [agg |-> a, op |-> op, content |-> "transaction", tx |-> TRUE, writes |-> {},
                           ver |-> Versions(History(a)) + 1, batch |-> 0, from |-> epoch]
             receipt == [agg |-> Receipt, op |-> op, content |-> "transaction", tx |-> TRUE, writes |-> wrote,
                         ver |-> 0, batch |-> 0, from |-> epoch]
             n == Cardinality(wrote)
             L == Len(log)
  <1>1. TypeInv /\ log \in Seq(Entry) /\ L \in Nat /\ DOMAIN log = 1..L /\ epoch \in Nat
    BY DEF AppendInv, TypeInv
  <1>2. n \in Nat
    BY FS_Subset, FS_CardinalityType DEF AppendAssumption
  <1>3. /\ UNCHANGED <<epoch, delayed, batches, refused, writer>>
        /\ \A i \in DOMAIN log : log[i].op = op => log[i].agg \notin wrote \cup {Receipt}
    BY DEF Transaction
  <1>4. PICK order \in Bijection(1..n, wrote) :
            log' = log \o Append([i \in DOMAIN order |-> Commit(order[i])], receipt)
    BY DEF Transaction
  <1>5. /\ order \in [1..n -> wrote] /\ (\A i, j \in 1..n : order[i] = order[j] => i = j)
        /\ \A a \in wrote : \E i \in 1..n : order[i] = a
    BY <1>4 DEF Bijection, Injection, Surjection, IsInjective
  <1>6. \A a \in Aggregates : Commit(a) \in Entry
    <2> SUFFICES ASSUME NEW a \in Aggregates PROVE Commit(a) \in Entry
      OBVIOUS
    <2>1. DOMAIN History(a) \subseteq 1..Len(log)
      BY <1>1, LoadedIsPast
    <2>2. Versions(History(a)) \in Nat
      BY <1>1, <2>1, VersionsType
    <2>3. Versions(History(a)) + 1 \in Nat
      BY <2>2
    <2> QED  BY <1>1, <2>3 DEF Entry
  <1>7. receipt \in Entry
    BY <1>1 DEF Entry
  <1> DEFINE commits == [i \in 1..n |-> Commit(order[i])]
             tail == Append(commits, receipt)
  <1>8. /\ \A a : Commit(a).agg = a /\ Commit(a).op = op /\ Commit(a).tx /\ Commit(a).batch = 0
        /\ receipt.agg = Receipt /\ receipt.op = op /\ receipt.batch = 0 /\ receipt.writes = wrote
    OBVIOUS
  <1> HIDE DEF Commit, receipt, n
  <1>9. commits \in Seq(Entry) /\ Len(commits) = n /\ \A i \in 1..n : commits[i] = Commit(order[i])
    <2>1. \A i \in 1..n : Commit(order[i]) \in Entry
      BY <1>5, <1>6
    <2> QED  BY <1>2, <2>1
  <1>10. log' = log \o tail
    BY <1>4, <1>5
  <1> HIDE DEF commits
  <1>11. /\ tail \in Seq(Entry) /\ Len(tail) = n + 1 /\ tail[n + 1] = receipt
         /\ \A i \in 1..n : tail[i] = Commit(order[i])
    BY <1>2, <1>7, <1>9
  <1> HIDE DEF tail, L
  <1>12. /\ log' \in Seq(Entry) /\ Len(log') = L + n + 1 /\ DOMAIN log' = 1..(L + n + 1)
         /\ \A i \in 1..L : log'[i] = log[i]
         /\ log'[L + n + 1] = receipt
         /\ \A i \in 1..n : log'[L + i] = Commit(order[i])
    <2>1. L = Len(log)
      BY DEF L
    <2>2. log' \in Seq(Entry) /\ Len(log') = L + (n + 1)
      <3>1. log' \in Seq(Entry)
        BY <1>1, <1>10, <1>11
      <3>2. Len(log') = Len(log) + Len(tail)
        BY <1>1, <1>10, <1>11, ConcatProperties
      <3> QED  BY <1>11, <2>1, <3>1, <3>2
    <2>3. \A i \in 1..L : log'[i] = log[i]
      BY <1>1, <1>2, <1>10, <1>11, <2>1
    <2>4. \A i \in 1..(n + 1) : log'[L + i] = tail[i]
      BY <1>1, <1>2, <1>10, <1>11, <2>1
    <2> QED  BY <1>1, <1>2, <1>11, <2>2, <2>3, <2>4
  <1>13. ASSUME NEW i \in DOMAIN log'
         PROVE  \/ i \in 1..L /\ log'[i] = log[i]
                \/ \E k \in 1..n : i = L + k /\ log'[i] = Commit(order[k])
                \/ i = L + n + 1 /\ log'[i] = receipt
    <2>1. i \in 1..(L + n + 1)
      BY <1>12
    <2>2. CASE i \in 1..L
      BY <1>12, <2>2
    <2>3. CASE i = L + n + 1
      BY <1>12, <2>3
    <2>4. CASE i > L /\ i # L + n + 1
      <3>1. i - L \in 1..n /\ i = L + (i - L)
        BY <1>1, <1>2, <2>1, <2>4
      <3> QED  BY <1>12, <3>1
    <2> QED  BY <1>1, <1>2, <2>1, <2>2, <2>3, <2>4
  <1>14. StreamGrows
    BY <1>1, <1>2, <1>3, <1>12 DEF StreamGrows, L
  <1>15. \A i \in DOMAIN log' : i > Len(log) => log'[i].batch = 0
    BY <1>1, <1>8, <1>13 DEF L
  <1>16. OwnBatches' /\ writer' \in [Writers -> Appending] /\ batches \in Nat
    BY <1>3 DEF AppendInv, OwnBatches, TypeInv
  <1>17. TypeInv' /\ DelayedInv' /\ RefusedIsAbsent'
    <2>1. 0 \in (0..batches) \ (refused \ {0})
      BY <1>16
    <2> QED  BY <1>14, <1>15, <1>16, <2>1, StreamKeeps
  <1>18. \A w \in Writers : WriterInv(w)'
    BY <1>3, <1>14, <1>15, BystanderKeeps
  <1>19. OperationOnce'
    <2> SUFFICES ASSUME NEW i \in DOMAIN log', NEW j \in DOMAIN log', log'[i].agg \in Aggregates,
                        log'[i].agg = log'[j].agg, log'[i].op = log'[j].op
                 PROVE  i = j
      BY DEF OperationOnce
    <2>1. log'[i] # receipt /\ log'[j] # receipt
      BY <1>8 DEF AppendAssumption
    <2>2. CASE i \in 1..L /\ log'[i] = log[i] /\ j \in 1..L /\ log'[j] = log[j]
      BY <1>1, <2>2 DEF AppendInv, OperationOnce
    <2>3. ASSUME NEW k \in 1..n, i = L + k, log'[i] = Commit(order[k]), j \in 1..L, log'[j] = log[j]
          PROVE  FALSE
      BY <1>1, <1>3, <1>5, <1>8, <2>3
    <2>4. ASSUME NEW k \in 1..n, j = L + k, log'[j] = Commit(order[k]), i \in 1..L, log'[i] = log[i]
          PROVE  FALSE
      BY <1>1, <1>3, <1>5, <1>8, <2>4
    <2>5. ASSUME NEW k \in 1..n, i = L + k, log'[i] = Commit(order[k]),
                 NEW m \in 1..n, j = L + m, log'[j] = Commit(order[m])
          PROVE  i = j
      BY <1>5, <1>8, <2>5
    <2> QED  BY <1>13, <2>1, <2>2, <2>3, <2>4, <2>5
  <1>20. ReceiptHasCommits'
    <2> SUFFICES ASSUME NEW a \in Aggregates, NEW o \in Ops, ReceiptWrites(o, a)'
                 PROVE  \E i \in Positions(a)' : log'[i].op = o /\ log'[i].tx
      BY DEF ReceiptHasCommits
    <2>1. PICK r \in DOMAIN log' : log'[r].agg = Receipt /\ log'[r].op = o /\ a \in log'[r].writes
      BY DEF ReceiptWrites
    <2>2. CASE r \in 1..L /\ log'[r] = log[r]
      <3>1. ReceiptWrites(o, a)
        BY <1>1, <2>1, <2>2 DEF ReceiptWrites
      <3>2. PICK i \in Positions(a) : log[i].op = o /\ log[i].tx
        BY <3>1 DEF AppendInv, ReceiptHasCommits
      <3>3. i \in 1..L /\ i \in DOMAIN log' /\ log[i].agg = a
        BY <1>1, <1>2, <1>12 DEF Positions
      <3>4. log'[i] = log[i]
        BY <1>12, <3>3
      <3> QED  BY <3>2, <3>3, <3>4 DEF Positions
    <2>3. ASSUME NEW k \in 1..n, log'[r] = Commit(order[k]) PROVE FALSE
      BY <1>5, <1>8, <2>1, <2>3 DEF AppendAssumption
    <2>4. CASE log'[r] = receipt
      <3>1. PICK k \in 1..n : order[k] = a
        BY <1>5, <1>8, <2>1, <2>4
      <3>2. L + k \in DOMAIN log' /\ log'[L + k] = Commit(a)
        BY <1>1, <1>2, <1>12, <3>1
      <3> QED  BY <1>8, <2>1, <2>4, <3>2 DEF Positions
    <2> QED  BY <1>13, <2>1, <2>2, <2>3, <2>4
  <1> QED  BY <1>16, <1>17, <1>18, <1>19, <1>20 DEF AppendInv

\* Recreate: a session that read the old stream has its fence still before it.
LEMMA RecreateStep ==
    ASSUME AppendInv, Recreate
    PROVE  AppendInv'
  <1>1. log' = <<>> /\ epoch' = epoch + 1 /\ delayed = {} /\ UNCHANGED <<delayed, batches, refused, writer>>
    BY DEF Recreate
  <1>2. TypeInv /\ epoch \in Nat
    BY DEF AppendInv, TypeInv
  <1>3. log' \in Seq(Entry) /\ DOMAIN log' = {} /\ Len(log') = 0
    BY <1>1
  <1>4. TypeInv'
    BY <1>1, <1>2, <1>3 DEF TypeInv
  <1>5. OwnBatches' /\ OperationOnce' /\ ReceiptHasCommits' /\ DelayedInv' /\ RefusedIsAbsent'
    BY <1>1, <1>3 DEF AppendInv, OwnBatches, OperationOnce, ReceiptHasCommits, ReceiptWrites, DelayedInv, RefusedIsAbsent
  <1>6. ASSUME NEW w \in Writers PROVE WriterInv(w)'
    <2> DEFINE x == writer[w]
    <2>1. WriterInv(w) /\ x \in Appending /\ x.pc \in {"idle", "done", "load", "loaded", "fence"}
      BY <1>2 DEF AppendInv, TypeInv, Recreate
    <2>2. /\ x.batch = 0 /\ x.ack = 0 /\ x.pc \notin Publishing /\ x.incarnation \in Nat /\ x.from \in Nat
          /\ x.pc = "load" => x.incarnation <= epoch
          /\ x.pc \in {"loaded", "fence"} => x.incarnation <= x.from /\ x.from <= epoch
      BY <2>1 DEF WriterInv, Publishing, Appending
    <2>3. /\ x.pc = "load" => x.incarnation <= epoch'
          /\ x.pc \in {"loaded", "fence"} => x.incarnation <= x.from /\ x.from <= epoch' /\ x.from # epoch'
      BY <1>1, <1>2, <2>2
    <2>4. x.pc \notin {"idle", "done"} => x.agg \in Aggregates /\ x.op \in Ops /\ x.content \in Contents
      BY <2>1 DEF WriterInv
    <2>5. writer'[w] = x
      BY <1>1
    <2> HIDE DEF x
    <2> QED  BY <1>1, <1>3, <2>1, <2>2, <2>3, <2>4, <2>5 DEF WriterInv, Publishing
  <1> QED  BY <1>4, <1>5, <1>6 DEF AppendInv

-----------------------------------------------------------------------------
(* The invariant and the theorem. *)

\* The invariant holds at first.
LEMMA AppendInit == Init => AppendInv
  <1> SUFFICES ASSUME Init PROVE AppendInv
    OBVIOUS
  <1>1. log = <<>> /\ epoch = 1 /\ delayed = {} /\ batches = 0 /\ refused = {} /\ writer = [w \in Writers |-> Unstarted]
    BY DEF Init
  <1>2. log \in Seq(Entry) /\ DOMAIN log = {}
    BY <1>1
  <1>3. /\ Unstarted \in Appending /\ Unstarted.pc = "idle" /\ Unstarted.batch = 0 /\ Unstarted.ack = 0
    BY EmptyHistory DEF Unstarted, Appending, Pcs, Results
  <1>4. TypeInv
    BY <1>1, <1>2, <1>3 DEF TypeInv
  <1>5. OwnBatches
    BY <1>1, <1>3 DEF OwnBatches
  <1>6. OperationOnce /\ ReceiptHasCommits /\ DelayedInv /\ RefusedIsAbsent
    BY <1>1, <1>2 DEF OperationOnce, ReceiptHasCommits, ReceiptWrites, DelayedInv, RefusedIsAbsent
  <1>7. \A w \in Writers : WriterInv(w)
    BY <1>1, <1>2, <1>3 DEF WriterInv, Publishing
  <1> QED  BY <1>4, <1>5, <1>6, <1>7 DEF AppendInv

\* Every step preserves it.
LEMMA AppendStep ==
    ASSUME AppendAssumption, AppendInv, [Next]_vars
    PROVE  AppendInv'
  <1>1. CASE UNCHANGED vars
    <2>1. UNCHANGED <<log, epoch, delayed, batches, refused, writer>>
      BY <1>1 DEF vars
    <2>2. /\ \A a, hist : Past(a, hist)' <=> Past(a, hist)
          /\ \A a, op, n : Fresh(a, op, n)' <=> Fresh(a, op, n)
          /\ \A k : Nowhere(k)' <=> Nowhere(k)
          /\ \A b : Outrun(b)' <=> Outrun(b)
      BY <2>1 DEF Past, Fresh, Nowhere, Outrun, Positions
    <2>3. TypeInv' /\ OwnBatches' /\ RefusedIsAbsent' /\ OperationOnce'
      BY <2>1 DEF AppendInv, TypeInv, OwnBatches, OperationOnce, RefusedIsAbsent
    <2>4. ReceiptHasCommits'
      BY <2>1 DEF AppendInv, ReceiptHasCommits, ReceiptWrites, Positions
    <2>5. DelayedInv'
      BY <2>1, <2>2 DEF AppendInv, DelayedInv
    <2>6. \A w \in Writers : WriterInv(w)'
      BY <2>1, <2>2 DEF AppendInv, WriterInv
    <2> QED  BY <2>3, <2>4, <2>5, <2>6 DEF AppendInv
  <1>2. CASE Next
    BY <1>2, BeginStep, ReadFailsStep, LoadStep, ValidateStep, CheckAppendStep, PublishAcceptedStep,
       PublishUnansweredStep, PublishRejectedStep, PublishExhaustedStep, LoadRaceStep, ResolveRaceStep,
       VerifyStep, TransactionStep, ArrivesStep, RecreateStep DEF Next
  <1> QED  BY <1>1, <1>2

\* A batch whose writer was told of a conflict, of a reused identity, of exhausted
\* capacity or of a recreated stream is not in the stream and never gets there,
\* however late a request of it arrives (append_with_history and
\* resolve_expectation_race).
THEOREM RefusedStaysAbsent ==
    ASSUME AppendAssumption
    PROVE  Spec => []RefusedIsAbsent
  <1>1. Init => AppendInv
    BY AppendInit
  <1>2. AppendInv /\ [Next]_vars => AppendInv'
    BY AppendStep
  <1>3. AppendInv => RefusedIsAbsent
    BY DEF AppendInv
  <1> QED  BY <1>1, <1>2, <1>3, PTL DEF Spec

\* An aggregate holds an operation at most once, whoever appends it: directly, through
\* a session, in a transaction, or by a request that arrives late.
THEOREM OperationsStoredOnce ==
    ASSUME AppendAssumption
    PROVE  Spec => []OperationOnce
  <1>1. Init => AppendInv
    BY AppendInit
  <1>2. AppendInv /\ [Next]_vars => AppendInv'
    BY AppendStep
  <1>3. AppendInv => OperationOnce
    BY DEF AppendInv
  <1> QED  BY <1>1, <1>2, <1>3, PTL DEF Spec

-----------------------------------------------------------------------------
(* Namespaces: the inductive invariant. *)

SpaceLabels ==
    {Space!None, "1", "2", "full", "outcome"} \cup {c.epoch : c \in Configs}
        \cup UNION {{s.epoch, s.version, s.subjects} : s \in Found}
SpacePolicies == [epoch : SpaceLabels, version : SpaceLabels, subjects : SpaceLabels, size : Nat, bind : Nat]
SpaceExisting == [epoch : SpaceLabels, version : SpaceLabels, subjects : SpaceLabels, size : Nat, bind : Nat, inc : Nat \ {0}]
SpaceHandles == [config : Configs, journal : Nat, state : Nat]
SpaceKinds == {"events", "outcome", "import"}

SpaceProvisioning == {"find", "create", "reconcile", "find-journal", "find-state", "create-state", "create-journal", "bind"}
SpaceWriting == {"check", "check-state", "publish"}
SpaceLooking == {"verify", "read", "recheck", "recheck-state"}

SpaceDoing ==
    {Space!Idle}
    \cup [pc : SpaceProvisioning, config : Configs, state : Nat, journal : Nat]
    \cup [pc : {"look", "connect"}, config : Configs]
    \cup [pc : {"update"}, config : Configs, policy : SpacePolicies]
    \cup [pc : {"open-state"}, config : Configs, journal : SpaceExisting]
    \cup [pc : SpaceWriting, kind : SpaceKinds, op : Operations, found : SpaceExisting \cup {Space!Absent}]
    \cup [pc : SpaceLooking, op : Operations, found : SpaceExisting \cup {Space!Absent}, decided : BOOLEAN]

SpaceEntries == [op : Operations, kind : SpaceKinds, inc : Nat, epoch : SpaceLabels, by : Configs, journal : Nat, state : Nat]

SpaceTypeInv ==
    /\ names \in [Space!Names -> {Space!Absent} \cup SpaceExisting]
    /\ clock \in Nat
    /\ actor \in [Actors -> SpaceDoing]
    /\ handle \in [Actors -> {Space!Disconnected} \cup SpaceHandles]
    /\ written \subseteq SpaceEntries

\* No two streams that exist were created at the same time.
SpaceStreamInv ==
    /\ \A n \in Space!Names : names[n].inc <= clock
    /\ \A n, m \in Space!Names : Space!Exists(n) /\ Space!Exists(m) /\ names[n].inc = names[m].inc => n = m
    /\ \A n \in Space!Names : Space!Exists(n) /\ n[1] = "journal" => names[n].epoch = n[2]

\* Journals and the state streams they were created for, as far as anybody knows.
SpaceKnown(j, s) ==
    \/ \E n \in Space!Names : n[1] = "journal" /\ Space!Exists(n) /\ names[n].inc = j /\ names[n].bind = s
    \/ \E a \in Actors : actor[a].pc = "open-state" /\ actor[a].journal.inc = j /\ actor[a].journal.bind = s
    \/ \E a \in Actors : handle[a] # Space!Disconnected /\ handle[a].config.split /\ handle[a].journal = j /\ handle[a].state = s
    \/ \E w \in written : w.by.split /\ w.journal = j /\ w.state = s

SpacePairInv ==
    \A j, s \in Nat : SpaceKnown(j, s) =>
        /\ j <= clock /\ s <= clock
        /\ \A i, r \in Nat : SpaceKnown(i, r) => (i = j <=> r = s)

\* A state stream that a journal was created for still has that journal.
SpaceUnpaired(c) ==
    LET s == names[Space!StateName(c)].inc
    IN s # 0 /\ (\E j \in Nat : SpaceKnown(j, s)) => Space!Exists(Space!Name(c)) /\ names[Space!Name(c)].bind = s

SpaceLocal(a, x) ==
    /\ x.pc \in SpaceWriting \cup SpaceLooking => handle[a] \in SpaceHandles
    /\ x.pc \in SpaceLooking => handle[a].config.split
    /\ x.pc \in {"find-journal", "find-state", "create-state", "create-journal", "bind", "open-state"} => x.config.split
    /\ x.pc \in {"find", "create", "reconcile", "look", "update"} => ~x.config.split
    /\ x.pc \in {"create-state", "create-journal"} => SpaceUnpaired(x.config)
    /\ x.pc = "create-journal" => x.state # 0 /\ names[Space!StateName(x.config)].inc = x.state
    /\ x.pc = "update" => Space!Exists(Space!Name(x.config)) /\ names[Space!Name(x.config)].epoch = x.policy.epoch
    /\ x.pc = "check-state" =>
          /\ handle[a].config.split /\ x.kind # "import"
          /\ Space!Exists(Space!Name(handle[a].config)) /\ names[Space!Name(handle[a].config)].inc = handle[a].journal
    /\ x.pc = "publish" =>
          LET c == handle[a].config
              s == names[Space!Name(c)]
          IN /\ Space!Exists(Space!Name(c)) /\ s.epoch = c.epoch
             /\ x.kind = "outcome" => c.epoch # Space!None
             /\ x.kind = "import" => c.epoch = Space!None
             /\ c.split => s.inc = handle[a].journal
    /\ x.pc = "recheck" /\ x.decided => names[Space!Name(handle[a].config)].inc # handle[a].journal
    /\ x.pc = "recheck-state" => ~x.decided

SpaceActorInv == \A a \in Actors : SpaceLocal(a, actor[a])
SpaceHandleInv == \A a \in Actors : handle[a] # Space!Disconnected => handle[a].journal <= clock /\ handle[a].journal # 0

SpaceWriteInv ==
    /\ \A w \in written :
          /\ w.epoch = w.by.epoch
          /\ w.kind = "outcome" => w.epoch # Space!None
          /\ w.kind = "import" => w.epoch = Space!None
          /\ w.by.split => w.inc = w.journal
    /\ \A m \in misses : ~m.decided

SpaceInv == SpaceTypeInv /\ SpaceStreamInv /\ SpacePairInv /\ SpaceActorInv /\ SpaceHandleInv /\ SpaceWriteInv

LEMMA SpaceConfigFacts ==
    ASSUME NEW c \in Configs
    PROVE  /\ c.epoch \in SpaceLabels /\ c.split \in BOOLEAN /\ c.size \in Nat /\ (c.split => c.epoch # Space!None)
           /\ Space!Name(c) \in Space!Names /\ (c.split => Space!StateName(c) \in Space!Names)
           /\ Space!Version(c) \in SpaceLabels
           /\ Space!Policy(c) \in SpacePolicies /\ Space!StatePolicy(c) \in SpacePolicies
           /\ Space!Policy(c).epoch = c.epoch /\ Space!Policy(c).bind = 0 /\ Space!StatePolicy(c).bind = 0
<1>1. c.epoch \in SpaceLabels /\ c.split \in BOOLEAN /\ c.size \in Nat /\ (c.split => c.epoch # Space!None)
  BY SpaceAssumption DEF Space!ConfigsAssumption, SpaceLabels
<1>2. Space!Name(c) \in Space!Names /\ (c.split => Space!StateName(c) \in Space!Names)
  BY <1>1 DEF Space!Names
<1>3. Space!Version(c) \in SpaceLabels
  BY DEF Space!Version, SpaceLabels
<1>4. Space!Policy(c) \in SpacePolicies /\ Space!Policy(c).epoch = c.epoch /\ Space!Policy(c).bind = 0
  <2>1. "full" \in SpaceLabels BY DEF SpaceLabels
  <2> QED BY <1>1, <1>3, <2>1 DEF Space!Policy, SpacePolicies
<1>5. Space!StatePolicy(c) \in SpacePolicies /\ Space!StatePolicy(c).bind = 0
  <2>1. "outcome" \in SpaceLabels BY DEF SpaceLabels
  <2> QED BY <1>4, <2>1 DEF Space!StatePolicy, SpacePolicies
<1> QED BY <1>1, <1>2, <1>3, <1>4, <1>5

LEMMA SpaceNameFacts ==
    ASSUME NEW c \in Configs, NEW d \in Configs
    PROVE  /\ c.split => Space!Name(c)[1] = "journal" /\ Space!Name(c)[2] = c.epoch /\ Space!StateName(c)[1] = "state"
           /\ ~c.split => Space!Name(c)[1] = "events" /\ Space!Name(c) = <<"events", Space!None>>
           /\ c.split /\ d.split /\ Space!StateName(c) = Space!StateName(d) => Space!Name(c) = Space!Name(d)
           /\ c.split /\ d.split => Space!StateName(c) # Space!Name(d)
           /\ c.split # d.split => Space!Name(c) # Space!Name(d)
           /\ c.split /\ ~d.split => Space!StateName(c) # Space!Name(d)
BY SpaceConfigFacts DEF Space!Name, Space!StateName

LEMMA SpaceStreamFacts ==
    ASSUME NEW p \in SpacePolicies, NEW i \in Nat \ {0}
    PROVE  /\ Space!Stream(p, i) \in SpaceExisting /\ Space!Stream(p, i).inc = i
           /\ Space!Stream(p, i).epoch = p.epoch /\ Space!Stream(p, i).bind = p.bind
BY DEF Space!Stream, SpacePolicies, SpaceExisting

\* What was true of a task stays true while its handle and the streams stay.
LEMMA SpaceLocalFrame ==
    ASSUME NEW b \in Actors, NEW x \in SpaceDoing, SpaceLocal(b, x), handle'[b] = handle[b], names' = names,
           \A j, s \in Nat : SpaceKnown(j, s)' => SpaceKnown(j, s), SpaceTypeInv
    PROVE  SpaceLocal(b, x)'
<1>1. x.pc \in {"create-state", "create-journal"} => x.config \in Configs
  BY DEF SpaceDoing, Space!Idle, SpaceProvisioning, SpaceWriting, SpaceLooking
<1>2. \A c \in Configs : names[Space!StateName(c)].inc # 0 /\ c.split => names[Space!StateName(c)].inc \in Nat
  BY SpaceConfigFacts DEF SpaceTypeInv, SpaceExisting, Space!Absent
<1>3. ASSUME x.pc \in {"create-state", "create-journal"} PROVE SpaceUnpaired(x.config)'
  BY <1>1, <1>2, <1>3 DEF SpaceLocal, SpaceUnpaired, Space!Exists
<1> QED BY <1>3 DEF SpaceLocal, Space!Exists

LEMMA SpaceActorStep ==
    ASSUME SpaceInv, NEW a \in Actors, NEW x \in SpaceDoing, actor' = [actor EXCEPT ![a] = x],
           names' = names, clock' = clock, handle' = handle, written' = written,
           \A m \in misses' : m \in misses \/ ~m.decided,
           SpaceLocal(a, x), x.pc = "open-state" => SpaceKnown(x.journal.inc, x.journal.bind)
    PROVE  SpaceInv'
<1>1. SpaceTypeInv' BY DEF SpaceInv, SpaceTypeInv
<1>2. \A b \in Actors : actor'[b] = IF b = a THEN x ELSE actor[b]
  BY DEF SpaceInv, SpaceTypeInv
<1>3. ASSUME NEW j \in Nat, NEW s \in Nat, SpaceKnown(j, s)' PROVE SpaceKnown(j, s)
  BY <1>2, <1>3 DEF SpaceKnown, Space!Exists
<1>4. SpaceStreamInv' BY DEF SpaceInv, SpaceStreamInv, Space!Exists
<1>5. SpacePairInv' BY <1>3 DEF SpaceInv, SpacePairInv
<1>6. SpaceActorInv'
  <2> SUFFICES ASSUME NEW b \in Actors PROVE SpaceLocal(b, actor[b])' BY DEF SpaceActorInv
  <2>1. PICK y \in SpaceDoing : y = actor'[b] BY <1>1 DEF SpaceTypeInv
  <2>2. SpaceLocal(b, y) BY <1>2, <2>1 DEF SpaceInv, SpaceActorInv
  <2>3. SpaceLocal(b, y)' BY <1>3, <2>2, SpaceLocalFrame DEF SpaceInv
  <2> QED BY <2>1, <2>3
<1>7. SpaceHandleInv' BY DEF SpaceInv, SpaceHandleInv
<1>8. SpaceWriteInv' BY DEF SpaceInv, SpaceWriteInv
<1> QED BY <1>1, <1>4, <1>5, <1>6, <1>7, <1>8 DEF SpaceInv

LEMMA SpaceEndStep ==
    ASSUME SpaceInv, NEW a \in Actors, Space!End(a), names' = names, clock' = clock, handle' = handle, written' = written,
           \A m \in misses' : m \in misses \/ ~m.decided
    PROVE  SpaceInv'
<1>1. Space!Idle \in SpaceDoing /\ Space!Idle.pc = "idle" BY DEF SpaceDoing, Space!Idle
<1>2. SpaceLocal(a, Space!Idle) BY <1>1 DEF SpaceLocal, SpaceWriting, SpaceLooking
<1> QED BY <1>1, <1>2, SpaceActorStep DEF Space!End

LEMMA SpaceBeginStep ==
    ASSUME SpaceInv, NEW a \in Actors, NEW x \in SpaceDoing, Space!Begin(a, x), SpaceLocal(a, x), x.pc # "open-state"
    PROVE  SpaceInv'
BY SpaceActorStep DEF Space!Begin, Space!Broker, Space!History

LEMMA SpaceBeginSteps ==
    ASSUME SpaceInv, NEW a \in Actors,
           \/ \E c \in Configs : Space!Provision(a, c) \/ Space!Update(a, c) \/ Space!Connect(a, c)
           \/ \E op \in Operations : Space!Lookup(a, op) \/ \E k \in SpaceKinds : Space!Write(a, k, op)
    PROVE  SpaceInv'
<1>1. ASSUME NEW c \in Configs, Space!Provision(a, c) PROVE SpaceInv'
  <2>1. PICK x : x = [pc |-> IF c.split THEN "find-journal" ELSE "find", config |-> c, state |-> 0, journal |-> 0] OBVIOUS
  <2>2. x \in SpaceDoing /\ x.pc \in {"find", "find-journal"} /\ x.config = c /\ (x.pc = "find" <=> ~c.split)
    BY <2>1 DEF SpaceDoing, SpaceProvisioning
  <2>3. SpaceLocal(a, x) BY <2>2 DEF SpaceLocal, SpaceWriting, SpaceLooking
  <2> QED BY <1>1, <2>1, <2>2, <2>3, SpaceBeginStep DEF Space!Provision
<1>2. ASSUME NEW c \in Configs, Space!Update(a, c) \/ Space!Connect(a, c) PROVE SpaceInv'
  <2>1. PICK x : x = [pc |-> IF Space!Update(a, c) THEN "look" ELSE "connect", config |-> c] OBVIOUS
  <2>2. x \in SpaceDoing /\ x.pc \in {"look", "connect"} /\ x.config = c /\ (x.pc = "look" => ~c.split)
    BY <2>1 DEF SpaceDoing, Space!Update
  <2>3. SpaceLocal(a, x) BY <2>2 DEF SpaceLocal, SpaceWriting, SpaceLooking
  <2>4. Space!Begin(a, x) BY <1>2, <2>1 DEF Space!Update, Space!Connect
  <2> QED BY <2>2, <2>3, <2>4, SpaceBeginStep
<1>3. ASSUME NEW op \in Operations, Space!Lookup(a, op) PROVE SpaceInv'
  <2>1. PICK x : x = [pc |-> "verify", op |-> op, found |-> Space!Absent, decided |-> FALSE] OBVIOUS
  <2>2. x \in SpaceDoing /\ x.pc = "verify" BY <2>1 DEF SpaceDoing, SpaceLooking
  <2>3. handle[a] \in SpaceHandles /\ handle[a].config.split BY <1>3 DEF Space!Lookup, SpaceInv, SpaceTypeInv
  <2>4. SpaceLocal(a, x) BY <2>2, <2>3 DEF SpaceLocal
  <2> QED BY <1>3, <2>1, <2>2, <2>4, SpaceBeginStep DEF Space!Lookup
<1>4. ASSUME NEW op \in Operations, NEW k \in SpaceKinds, Space!Write(a, k, op) PROVE SpaceInv'
  <2>1. PICK x : x = [pc |-> "check", kind |-> k, op |-> op, found |-> Space!Absent] OBVIOUS
  <2>2. x \in SpaceDoing /\ x.pc = "check" BY <2>1 DEF SpaceDoing, SpaceWriting
  <2>3. handle[a] \in SpaceHandles BY <1>4 DEF Space!Write, SpaceInv, SpaceTypeInv
  <2>4. SpaceLocal(a, x) BY <2>2, <2>3 DEF SpaceLocal, SpaceLooking
  <2> QED BY <1>4, <2>1, <2>2, <2>4, SpaceBeginStep DEF Space!Write
<1> QED BY <1>1, <1>2, <1>3, <1>4

\* Which record a task is, by where it stands.
LEMMA SpaceTaskShapes ==
    ASSUME NEW x \in SpaceDoing
    PROVE  /\ x.pc \in SpaceProvisioning => x \in [pc : SpaceProvisioning, config : Configs, state : Nat, journal : Nat]
           /\ x.pc \in {"look", "connect"} => x \in [pc : {"look", "connect"}, config : Configs]
           /\ x.pc = "update" => x \in [pc : {"update"}, config : Configs, policy : SpacePolicies]
           /\ x.pc = "open-state" => x \in [pc : {"open-state"}, config : Configs, journal : SpaceExisting]
           /\ x.pc \in SpaceWriting => x \in [pc : SpaceWriting, kind : SpaceKinds, op : Operations, found : SpaceExisting \cup {Space!Absent}]
           /\ x.pc \in SpaceLooking =>
                 x \in [pc : SpaceLooking, op : Operations, found : SpaceExisting \cup {Space!Absent}, decided : BOOLEAN]
BY DEF SpaceDoing, Space!Idle, SpaceProvisioning, SpaceWriting, SpaceLooking

LEMMA SpaceFindSteps ==
    ASSUME SpaceInv, NEW a \in Actors, Space!Find(a) \/ Space!Reconcile(a) \/ Space!FindJournal(a) \/ Space!FindState(a)
    PROVE  SpaceInv'
<1>1. UNCHANGED <<names, clock, handle, written, misses>>
  BY DEF Space!Find, Space!Reconcile, Space!FindJournal, Space!FindState, Space!Broker, Space!History
<1>2. CASE Space!End(a) BY <1>1, <1>2, SpaceEndStep
<1>3. CASE ~Space!End(a)
  <2>0. PICK y \in SpaceDoing : y = actor[a] BY DEF SpaceInv, SpaceTypeInv
  <2>1. PICK l : /\ Space!Goto(a, l)
                 /\ \/ y.pc = "find" /\ l = "create"
                    \/ y.pc = "find-journal" /\ l = "find-state"
                    \/ y.pc = "find-state" /\ l = "create-state" /\ names[Space!StateName(y.config)].inc = 0
    BY <1>3, <2>0 DEF Space!Find, Space!Reconcile, Space!FindJournal, Space!FindState, Space!Exists
  <2>2. y \in [pc : SpaceProvisioning, config : Configs, state : Nat, journal : Nat]
    BY <2>1, SpaceTaskShapes DEF SpaceProvisioning
  <2>3. PICK x : x = [y EXCEPT !.pc = l] OBVIOUS
  <2>4. x \in SpaceDoing /\ x.pc = l /\ x.config = y.config
    BY <2>1, <2>2, <2>3 DEF SpaceDoing, SpaceProvisioning
  <2>5. SpaceLocal(a, y) BY <2>0 DEF SpaceInv, SpaceActorInv
  <2>6. SpaceLocal(a, x)
    <3>1. x.config.split <=> l # "create" BY <2>1, <2>4, <2>5, SpaceConfigFacts, <2>2 DEF SpaceLocal
    <3>2. l = "create-state" => SpaceUnpaired(x.config) BY <2>1, <2>4 DEF SpaceUnpaired
    <3> QED BY <2>1, <2>4, <3>1, <3>2 DEF SpaceLocal, SpaceWriting, SpaceLooking
  <2>7. actor' = [actor EXCEPT ![a] = x] BY <2>0, <2>1, <2>3 DEF Space!Goto
  <2> QED BY <1>1, <2>1, <2>4, <2>6, <2>7, SpaceActorStep
<1> QED BY <1>2, <1>3

LEMMA SpaceLookStep == ASSUME SpaceInv, NEW a \in Actors, Space!Look(a) PROVE SpaceInv'
<1>1. UNCHANGED <<names, clock, handle, written, misses>>
  BY DEF Space!Look, Space!Broker, Space!History
<1>2. CASE Space!End(a) BY <1>1, <1>2, SpaceEndStep
<1>3. CASE ~Space!End(a)
  <2>0. PICK y \in SpaceDoing : y = actor[a] BY DEF SpaceInv, SpaceTypeInv
  <2>1. PICK c : c = y.config OBVIOUS
  <2>2. PICK s : s = names[Space!Name(c)] OBVIOUS
  <2>3. y.pc = "look" /\ Space!Exists(Space!Name(c)) /\ s.epoch = c.epoch
    BY <1>3, <2>0, <2>1, <2>2 DEF Space!Look, Space!EpochKept
  <2>4. PICK p : p = [Space!Policy(c) EXCEPT !.size = IF s.size > @ THEN s.size ELSE @] OBVIOUS
  <2>5. PICK x : x = [pc |-> "update", config |-> c, policy |-> p] OBVIOUS
  <2>6. actor' = [actor EXCEPT ![a] = x]
    BY <1>3, <2>0, <2>1, <2>2, <2>4, <2>5 DEF Space!Look
  <2>7. c \in Configs /\ ~c.split
    BY <2>0, <2>1, <2>3, SpaceTaskShapes DEF SpaceInv, SpaceActorInv, SpaceLocal
  <2>8. s \in SpaceExisting
    BY <2>2, <2>3, <2>7, SpaceConfigFacts DEF SpaceInv, SpaceTypeInv, Space!Exists, Space!Absent
  <2>9. p \in SpacePolicies /\ p.epoch = c.epoch
    BY <2>4, <2>7, <2>8, SpaceConfigFacts DEF SpacePolicies, SpaceExisting
  <2>10. x \in SpaceDoing /\ x.pc = "update" /\ x.config = c /\ x.policy = p
    BY <2>5, <2>7, <2>9 DEF SpaceDoing
  <2>11. SpaceLocal(a, x)
    BY <2>2, <2>3, <2>7, <2>9, <2>10 DEF SpaceLocal, SpaceWriting, SpaceLooking
  <2> QED BY <1>1, <2>6, <2>10, <2>11, SpaceActorStep
<1> QED BY <1>2, <1>3

\* A handle is looked at before a write ...
LEMMA SpaceCheckStep == ASSUME SpaceInv, NEW a \in Actors, Space!Check(a) PROVE SpaceInv'
<1>1. UNCHANGED <<names, clock, handle, written, misses>>
  BY DEF Space!Check, Space!Broker, Space!History
<1>2. CASE Space!End(a) BY <1>1, <1>2, SpaceEndStep
<1>3. CASE ~Space!End(a)
  <2>0. PICK y \in SpaceDoing : y = actor[a] BY DEF SpaceInv, SpaceTypeInv
  <2>1. PICK h : h = handle[a] OBVIOUS
  <2>2. PICK s : s = names[Space!Name(h.config)] OBVIOUS
  <2>3. y.pc = "check" /\ Space!Exists(Space!Name(h.config)) BY <1>3, <2>0, <2>1 DEF Space!Check
  <2>4. SpaceLocal(a, y) BY <2>0 DEF SpaceInv, SpaceActorInv
  <2>5. h \in SpaceHandles BY <2>1, <2>3, <2>4 DEF SpaceLocal, SpaceWriting
  <2>6. h.config \in Configs BY <2>5 DEF SpaceHandles
  <2>7. s \in SpaceExisting
    BY <2>2, <2>3, <2>6, SpaceConfigFacts DEF SpaceInv, SpaceTypeInv, Space!Exists, Space!Absent
  <2>8. y \in [pc : SpaceWriting, kind : SpaceKinds, op : Operations, found : SpaceExisting \cup {Space!Absent}]
    BY <2>3, SpaceTaskShapes DEF SpaceWriting
  <2>9. CASE ~h.config.split
    <3>1. Space!Goto(a, "publish") /\ Space!Writer(h, y.kind, s) BY <1>3, <2>0, <2>1, <2>2, <2>9 DEF Space!Check
    <3>2. PICK x : x = [y EXCEPT !.pc = "publish"] OBVIOUS
    <3>3. x \in SpaceDoing /\ x.pc = "publish" /\ x.kind = y.kind BY <2>8, <3>2 DEF SpaceDoing, SpaceWriting
    <3>4. /\ s.epoch = h.config.epoch
          /\ y.kind = "outcome" => h.config.epoch # Space!None
          /\ y.kind = "import" => h.config.epoch = Space!None
      <4>1. y.kind \in {"events", "outcome", "import"} BY <2>8 DEF SpaceKinds
      <4> QED BY <3>1, <4>1 DEF Space!Writer
    <3>5. SpaceLocal(a, x) BY <2>1, <2>2, <2>3, <2>5, <2>9, <3>3, <3>4 DEF SpaceLocal, SpaceLooking
    <3>6. actor' = [actor EXCEPT ![a] = x] BY <2>0, <3>1, <3>2 DEF Space!Goto
    <3> QED BY <1>1, <3>3, <3>5, <3>6, SpaceActorStep
  <2>10. CASE h.config.split
    <3>1. /\ actor' = [actor EXCEPT ![a].pc = "check-state", ![a].found = s]
          /\ y.kind # "import" /\ Space!SameJournal(h, s)
      BY <1>3, <2>0, <2>1, <2>2, <2>10 DEF Space!Check
    <3>2. PICK x : x = [y EXCEPT !.pc = "check-state", !.found = s] OBVIOUS
    <3>3. x \in SpaceDoing /\ x.pc = "check-state" /\ x.kind = y.kind
      BY <2>7, <2>8, <3>2 DEF SpaceDoing, SpaceWriting
    <3>4. SpaceLocal(a, x)
      BY <2>1, <2>2, <2>3, <2>5, <2>10, <3>1, <3>3 DEF SpaceLocal, SpaceLooking, Space!SameJournal
    <3>5. actor' = [actor EXCEPT ![a] = x] BY <2>0, <3>1, <3>2
    <3> QED BY <1>1, <3>3, <3>4, <3>5, SpaceActorStep
  <2> QED BY <2>9, <2>10
<1> QED BY <1>2, <1>3

\* ... and, if it is split, its state stream; a lookup ends with the same look.
LEMMA SpaceCheckStateStep == ASSUME SpaceInv, NEW a \in Actors, Space!CheckState(a) PROVE SpaceInv'
<1>1. UNCHANGED <<names, clock, handle, written>>
  BY DEF Space!CheckState, Space!Broker
<1>2. PICK y \in SpaceDoing : y = actor[a] BY DEF SpaceInv, SpaceTypeInv
<1>3. SpaceLocal(a, y) BY <1>2 DEF SpaceInv, SpaceActorInv
<1>4. CASE Space!End(a)
  <2>1. \A m \in misses' : m \in misses \/ ~m.decided
    <3>1. misses' = misses \/ (y.pc = "recheck-state" /\
             misses' = misses \cup {[op |-> y.op, journal |-> handle[a].journal, decided |-> y.decided]})
      BY <1>2 DEF Space!CheckState
    <3>2. y.pc = "recheck-state" => ~y.decided BY <1>3 DEF SpaceLocal
    <3> QED BY <3>1, <3>2
  <2> QED BY <1>1, <1>4, <2>1, SpaceEndStep
<1>5. CASE ~Space!End(a)
  <2>1. y.pc = "check-state" /\ Space!Goto(a, "publish") /\ misses' = misses
    BY <1>2, <1>5 DEF Space!CheckState
  <2>2. y \in [pc : SpaceWriting, kind : SpaceKinds, op : Operations, found : SpaceExisting \cup {Space!Absent}]
    BY <2>1, SpaceTaskShapes DEF SpaceWriting
  <2>3. PICK x : x = [y EXCEPT !.pc = "publish"] OBVIOUS
  <2>4. x \in SpaceDoing /\ x.pc = "publish" /\ x.kind = y.kind BY <2>2, <2>3 DEF SpaceDoing, SpaceWriting
  <2>5. PICK h : h = handle[a] OBVIOUS
  <2>6. h \in SpaceHandles /\ h.config.split /\ y.kind # "import" /\ Space!Exists(Space!Name(h.config)) /\ names[Space!Name(h.config)].inc = h.journal
    BY <1>3, <2>1, <2>5 DEF SpaceLocal, SpaceWriting
  <2>7. h.config \in Configs BY <2>6 DEF SpaceHandles
  <2>8. h.config.epoch # Space!None /\ names[Space!Name(h.config)].epoch = h.config.epoch
    BY <2>6, <2>7, SpaceConfigFacts, SpaceNameFacts DEF SpaceInv, SpaceStreamInv
  <2>9. SpaceLocal(a, x) BY <2>4, <2>5, <2>6, <2>8 DEF SpaceLocal, SpaceLooking
  <2>10. actor' = [actor EXCEPT ![a] = x] BY <1>2, <2>1, <2>3 DEF Space!Goto
  <2> QED BY <1>1, <2>1, <2>4, <2>9, <2>10, SpaceActorStep
<1> QED BY <1>4, <1>5

LEMMA SpaceLookupSteps == ASSUME SpaceInv, NEW a \in Actors, Space!Verify(a) \/ Space!Read(a) \/ Space!Recheck(a) PROVE SpaceInv'
<1>1. UNCHANGED <<names, clock, handle, written, misses>>
  BY DEF Space!Verify, Space!Read, Space!Recheck, Space!Broker, Space!History
<1>2. CASE Space!End(a) BY <1>1, <1>2, SpaceEndStep
<1>3. CASE ~Space!End(a)
  <2>0. PICK y \in SpaceDoing : y = actor[a] BY DEF SpaceInv, SpaceTypeInv
  <2>1. PICK h : h = handle[a] OBVIOUS
  <2>2. PICK s : s = names[Space!Name(h.config)] OBVIOUS
  <2>3. y.pc \in SpaceLooking BY <2>0 DEF Space!Verify, Space!Read, Space!Recheck, SpaceLooking
  <2>4. SpaceLocal(a, y) BY <2>0 DEF SpaceInv, SpaceActorInv
  <2>5. h \in SpaceHandles /\ h.config.split BY <2>1, <2>3, <2>4 DEF SpaceLocal
  <2>6. y \in [pc : SpaceLooking, op : Operations, found : SpaceExisting \cup {Space!Absent}, decided : BOOLEAN]
    BY <2>3, SpaceTaskShapes
  <2>7. CASE Space!Verify(a)
    <3>1. PICK x : x = [y EXCEPT !.pc = "read"] OBVIOUS
    <3>2. x \in SpaceDoing /\ x.pc = "read" BY <2>6, <3>1 DEF SpaceDoing, SpaceLooking
    <3>3. SpaceLocal(a, x) BY <2>1, <2>5, <3>2 DEF SpaceLocal
    <3>4. actor' = [actor EXCEPT ![a] = x] BY <1>3, <2>0, <2>7, <3>1 DEF Space!Verify, Space!Goto
    <3> QED BY <1>1, <3>2, <3>3, <3>4, SpaceActorStep
  <2>8. CASE Space!Read(a)
    <3>1. PICK d : d = Space!Decided(y.op, h.journal) OBVIOUS
    <3>2. PICK x : x = [y EXCEPT !.pc = "recheck", !.decided = d] OBVIOUS
    <3>3. d \in BOOLEAN BY <3>1 DEF Space!Decided
    <3>4. x \in SpaceDoing /\ x.pc = "recheck" /\ x.decided = d BY <2>6, <3>2, <3>3 DEF SpaceDoing, SpaceLooking
    <3>5. actor' = [actor EXCEPT ![a] = x] /\ ~Space!Decided(y.op, s.inc)
      BY <1>3, <2>0, <2>1, <2>2, <2>8, <3>1, <3>2 DEF Space!Read
    <3>6. d => s.inc # h.journal BY <3>1, <3>5
    <3>7. SpaceLocal(a, x) BY <2>1, <2>2, <2>5, <3>4, <3>6 DEF SpaceLocal
    <3> QED BY <1>1, <3>4, <3>5, <3>7, SpaceActorStep
  <2>9. CASE Space!Recheck(a)
    <3>1. Space!Exists(Space!Name(h.config)) /\ s.inc = h.journal /\ y.pc = "recheck"
      BY <1>3, <2>0, <2>1, <2>2, <2>9 DEF Space!Recheck, Space!SameJournal
    <3>2. PICK x : x = [y EXCEPT !.pc = "recheck-state", !.found = s] OBVIOUS
    <3>3. h.config \in Configs BY <2>5 DEF SpaceHandles
    <3>4. s \in SpaceExisting
      BY <2>2, <3>1, <3>3, SpaceConfigFacts DEF SpaceInv, SpaceTypeInv, Space!Exists, Space!Absent
    <3>5. x \in SpaceDoing /\ x.pc = "recheck-state" /\ x.decided = y.decided
      BY <2>6, <3>2, <3>4 DEF SpaceDoing, SpaceLooking
    <3>6. ~y.decided BY <2>1, <2>2, <2>4, <3>1 DEF SpaceLocal
    <3>7. SpaceLocal(a, x) BY <2>1, <2>5, <3>5, <3>6 DEF SpaceLocal
    <3>8. actor' = [actor EXCEPT ![a] = x] BY <1>3, <2>0, <2>1, <2>2, <2>9, <3>2 DEF Space!Recheck
    <3> QED BY <1>1, <3>5, <3>7, <3>8, SpaceActorStep
  <2> QED BY <2>7, <2>8, <2>9
<1> QED BY <1>2, <1>3

\* A task ends; its handle is another one, and it wrote what the handle may write.
LEMMA SpaceHandleStep ==
    ASSUME SpaceInv, NEW a \in Actors, Space!End(a), names' = names, clock' = clock, misses' = misses,
           NEW h \in {Space!Disconnected} \cup SpaceHandles, handle' = [handle EXCEPT ![a] = h],
           h # Space!Disconnected => h.journal <= clock /\ h.journal # 0,
           h # Space!Disconnected /\ h.config.split => SpaceKnown(h.journal, h.state),
           \A w \in written' \ written :
              /\ w \in SpaceEntries /\ w.epoch = w.by.epoch
              /\ w.kind = "outcome" => w.epoch # Space!None
              /\ w.kind = "import" => w.epoch = Space!None
              /\ w.by.split => w.inc = w.journal /\ SpaceKnown(w.journal, w.state)
    PROVE  SpaceInv'
<1>1. Space!Idle \in SpaceDoing /\ Space!Idle.pc = "idle" BY DEF SpaceDoing, Space!Idle
<1>2. SpaceTypeInv' BY <1>1 DEF SpaceInv, SpaceTypeInv, Space!End
<1>3. \A b \in Actors : /\ actor'[b] = IF b = a THEN Space!Idle ELSE actor[b]
                        /\ handle'[b] = IF b = a THEN h ELSE handle[b]
  BY DEF SpaceInv, SpaceTypeInv, Space!End
<1>4. ASSUME NEW j \in Nat, NEW s \in Nat, SpaceKnown(j, s)' PROVE SpaceKnown(j, s)
  <2>1. CASE \E n \in Space!Names : n[1] = "journal" /\ Space!Exists(n)' /\ names'[n].inc = j /\ names'[n].bind = s
    BY <2>1 DEF SpaceKnown, Space!Exists
  <2>2. CASE \E b \in Actors : actor'[b].pc = "open-state" /\ actor'[b].journal.inc = j /\ actor'[b].journal.bind = s
    BY <2>2, <1>1, <1>3 DEF SpaceKnown
  <2>3. CASE \E b \in Actors : handle'[b] # Space!Disconnected /\ handle'[b].config.split /\ handle'[b].journal = j /\ handle'[b].state = s
    BY <2>3, <1>3 DEF SpaceKnown
  <2>4. CASE \E w \in written' : w.by.split /\ w.journal = j /\ w.state = s
    BY <2>4 DEF SpaceKnown
  <2> QED BY <1>4, <2>1, <2>2, <2>3, <2>4 DEF SpaceKnown
<1>5. SpaceStreamInv' BY DEF SpaceInv, SpaceStreamInv, Space!Exists
<1>6. SpacePairInv' BY <1>4 DEF SpaceInv, SpacePairInv
<1>7. SpaceActorInv'
  <2> SUFFICES ASSUME NEW b \in Actors PROVE SpaceLocal(b, actor[b])' BY DEF SpaceActorInv
  <2>1. PICK y \in SpaceDoing : y = actor'[b] BY <1>2 DEF SpaceTypeInv
  <2>2. CASE b = a
    BY <1>1, <1>3, <2>2 DEF SpaceLocal, SpaceWriting, SpaceLooking
  <2>3. CASE b # a
    <3>1. SpaceLocal(b, y) BY <1>3, <2>1, <2>3 DEF SpaceInv, SpaceActorInv
    <3>2. SpaceLocal(b, y)' BY <1>3, <1>4, <2>3, <3>1, SpaceLocalFrame DEF SpaceInv
    <3> QED BY <2>1, <3>2
  <2> QED BY <2>2, <2>3
<1>8. SpaceHandleInv' BY <1>3 DEF SpaceInv, SpaceHandleInv
<1>9. SpaceWriteInv' BY DEF SpaceInv, SpaceWriteInv
<1> QED BY <1>2, <1>5, <1>6, <1>7, <1>8, <1>9 DEF SpaceInv

LEMMA SpaceOpenSteps == ASSUME SpaceInv, NEW a \in Actors, Space!OpenJournal(a) \/ Space!OpenState(a) PROVE SpaceInv'
<1>1. UNCHANGED <<names, clock, written, misses>>
  BY DEF Space!OpenJournal, Space!OpenState, Space!Broker, Space!History
<1>2. PICK y \in SpaceDoing : y = actor[a] BY DEF SpaceInv, SpaceTypeInv
<1>3. PICK c : c = y.config OBVIOUS
<1>4. c \in Configs BY <1>2, <1>3, SpaceTaskShapes DEF Space!OpenJournal, Space!OpenState
<1>5. CASE Space!End(a) /\ handle' = handle BY <1>1, <1>5, SpaceEndStep
<1>6. CASE Space!OpenJournal(a) /\ ~(Space!End(a) /\ handle' = handle)
  <2>1. PICK j : j = names[Space!Name(c)] OBVIOUS
  <2>2. Space!Exists(Space!Name(c)) BY <1>2, <1>3, <1>6 DEF Space!OpenJournal
  <2>3. j \in SpaceExisting /\ j.inc <= clock
    BY <1>4, <2>1, <2>2, SpaceConfigFacts DEF SpaceInv, SpaceTypeInv, SpaceStreamInv, Space!Exists, Space!Absent
  <2>4. CASE c.split
    <3>1. PICK x : x = [pc |-> "open-state", config |-> c, journal |-> j] OBVIOUS
    <3>2. x \in SpaceDoing /\ x.pc = "open-state" /\ x.config = c /\ x.journal = j
      BY <1>4, <2>3, <3>1 DEF SpaceDoing
    <3>3. actor' = [actor EXCEPT ![a] = x] /\ handle' = handle
      BY <1>2, <1>3, <1>6, <2>1, <2>4, <3>1 DEF Space!OpenJournal
    <3>4. SpaceLocal(a, x) BY <2>4, <3>2 DEF SpaceLocal, SpaceWriting, SpaceLooking
    <3>5. SpaceKnown(j.inc, j.bind) BY <1>4, <2>1, <2>2, <2>4, SpaceConfigFacts, SpaceNameFacts DEF SpaceKnown
    <3> QED BY <1>1, <3>2, <3>3, <3>4, <3>5, SpaceActorStep
  <2>5. CASE ~c.split
    <3>1. PICK h : h = [config |-> c, journal |-> j.inc, state |-> 0] OBVIOUS
    <3>2. h \in SpaceHandles /\ h.config = c /\ h.journal = j.inc
      BY <1>4, <2>3, <3>1 DEF SpaceHandles, SpaceExisting
    <3>3. Space!End(a) /\ handle' = [handle EXCEPT ![a] = h]
      BY <1>2, <1>3, <1>6, <2>1, <2>5, <3>1 DEF Space!OpenJournal
    <3>4. j.inc # 0 BY <2>3 DEF SpaceExisting
    <3> QED BY <1>1, <2>3, <2>5, <3>2, <3>3, <3>4, SpaceHandleStep
  <2> QED BY <2>4, <2>5
<1>7. CASE Space!OpenState(a) /\ handle' # handle
  <2>1. PICK s : s = names[Space!StateName(c)] OBVIOUS
  <2>2. PICK h : h = [config |-> c, journal |-> y.journal.inc, state |-> s.inc] OBVIOUS
  <2>3. y.pc = "open-state" /\ Space!End(a) BY <1>2, <1>7 DEF Space!OpenState
  <2>4. Space!Exists(Space!StateName(c)) /\ y.journal.bind = s.inc /\ handle' = [handle EXCEPT ![a] = h]
    BY <1>2, <1>3, <1>7, <2>1, <2>2 DEF Space!OpenState, Space!Bound, SpaceInv, SpaceTypeInv
  <2>5. y.journal \in SpaceExisting /\ c.split
    BY <1>2, <1>3, <2>3, SpaceTaskShapes DEF SpaceInv, SpaceActorInv, SpaceLocal
  <2>6. h \in SpaceHandles /\ h.config = c /\ h.journal = y.journal.inc /\ h.state = y.journal.bind
    BY <1>4, <2>2, <2>4, <2>5 DEF SpaceHandles, SpaceExisting
  <2>7. SpaceKnown(h.journal, h.state) BY <1>2, <2>3, <2>6 DEF SpaceKnown
  <2>8. h.journal \in Nat \ {0} /\ h.state \in Nat BY <2>5, <2>6 DEF SpaceExisting
  <2>9. h.journal <= clock BY <2>7, <2>8 DEF SpaceInv, SpacePairInv
  <2> QED BY <1>1, <2>3, <2>4, <2>6, <2>7, <2>8, <2>9, SpaceHandleStep
<1>8. Space!OpenState(a) => Space!End(a) BY DEF Space!OpenState
<1> QED BY <1>5, <1>6, <1>7, <1>8

LEMMA SpaceLeaveSteps == ASSUME SpaceInv, NEW a \in Actors, Space!Disconnect(a) \/ Space!Crash(a) PROVE SpaceInv'
<1>1. UNCHANGED <<names, clock, written, misses>> /\ handle' = [handle EXCEPT ![a] = Space!Disconnected]
  BY DEF Space!Disconnect, Space!Crash, Space!Broker, Space!History
<1>2. Space!End(a)
  <2>1. Space!Disconnect(a) => actor[a] = Space!Idle
    BY DEF Space!Disconnect, SpaceInv, SpaceTypeInv, SpaceDoing, Space!Idle, SpaceProvisioning, SpaceWriting,
        SpaceLooking
  <2> QED BY <2>1 DEF Space!Disconnect, Space!Crash, Space!End, SpaceInv, SpaceTypeInv
<1> QED BY <1>1, <1>2, SpaceHandleStep

LEMMA SpacePublishStep == ASSUME SpaceInv, NEW a \in Actors, Space!Publish(a) PROVE SpaceInv'
<1>1. UNCHANGED <<names, clock, handle, misses>> /\ Space!End(a)
  BY DEF Space!Publish, Space!Broker
<1>2. PICK y \in SpaceDoing : y = actor[a] BY DEF SpaceInv, SpaceTypeInv
<1>3. y.pc = "publish" BY <1>2 DEF Space!Publish
<1>4. SpaceLocal(a, y) BY <1>2 DEF SpaceInv, SpaceActorInv
<1>5. PICK h : h = handle[a] OBVIOUS
<1>6. PICK s : s = names[Space!Name(h.config)] OBVIOUS
<1>7. /\ h \in SpaceHandles /\ Space!Exists(Space!Name(h.config)) /\ s.epoch = h.config.epoch
      /\ y.kind = "outcome" => h.config.epoch # Space!None
      /\ y.kind = "import" => h.config.epoch = Space!None
      /\ h.config.split => s.inc = h.journal
  BY <1>3, <1>4, <1>5, <1>6 DEF SpaceLocal, SpaceWriting
<1>8. PICK e : e = [op |-> y.op, kind |-> y.kind, inc |-> s.inc, epoch |-> s.epoch, by |-> h.config,
                    journal |-> h.journal, state |-> h.state]
  OBVIOUS
<1>9. written' = written \cup {e} BY <1>2, <1>5, <1>6, <1>7, <1>8 DEF Space!Publish
<1>10. h.config \in Configs /\ h # Space!Disconnected BY <1>7 DEF SpaceHandles, Space!Disconnected
<1>11. s \in SpaceExisting
  BY <1>6, <1>7, <1>10, SpaceConfigFacts DEF SpaceInv, SpaceTypeInv, Space!Exists, Space!Absent
<1>12. y.op \in Operations /\ y.kind \in SpaceKinds BY <1>3, SpaceTaskShapes DEF SpaceWriting
<1>13. e \in SpaceEntries /\ e.epoch = s.epoch /\ e.by = h.config /\ e.kind = y.kind /\ e.inc = s.inc /\ e.journal = h.journal /\ e.state = h.state
  BY <1>7, <1>8, <1>10, <1>11, <1>12 DEF SpaceEntries, SpaceExisting, SpaceHandles
<1>14. h.config.split => SpaceKnown(h.journal, h.state) BY <1>5, <1>10 DEF SpaceKnown
<1>15. handle' = [handle EXCEPT ![a] = h] BY <1>1, <1>5 DEF SpaceInv, SpaceTypeInv
<1>16. h.journal <= clock /\ h.journal # 0 BY <1>5, <1>10 DEF SpaceInv, SpaceHandleInv
<1>17. \A w \in written' \ written :
          /\ w \in SpaceEntries /\ w.epoch = w.by.epoch
          /\ w.kind = "outcome" => w.epoch # Space!None
          /\ w.kind = "import" => w.epoch = Space!None
          /\ w.by.split => w.inc = w.journal /\ SpaceKnown(w.journal, w.state)
  BY <1>7, <1>9, <1>13, <1>14
<1> QED BY <1>1, <1>7, <1>14, <1>15, <1>16, <1>17, SpaceHandleStep

\* How the streams change while policies are changed or writes are under way: a
\* stream keeps its creation time, its epoch and, if it is a journal, the state
\* stream it was created for; at most one is created, and a journal only for a
\* state stream of its own configuration that no journal was ever created for.
SpaceGrows ==
    /\ names' \in [Space!Names -> {Space!Absent} \cup SpaceExisting]
    /\ clock' \in Nat /\ clock <= clock'
    /\ \A n \in Space!Names : Space!Exists(n) =>
          /\ names'[n].inc = names[n].inc /\ names'[n].epoch = names[n].epoch
          /\ n[1] = "journal" => names'[n].bind = names[n].bind
    /\ \A n \in Space!Names : ~Space!Exists(n) /\ names'[n].inc # 0 =>
          /\ clock' = clock + 1 /\ names'[n].inc = clock + 1
          /\ \A m \in Space!Names : ~Space!Exists(m) /\ names'[m].inc # 0 => m = n
          /\ n[1] = "journal" =>
                /\ names'[n].epoch = n[2]
                /\ \E d \in Configs :
                      /\ d.split /\ n = Space!Name(d)
                      /\ names'[n].bind = names[Space!StateName(d)].inc /\ names'[n].bind # 0
                      /\ ~\E j \in Nat : SpaceKnown(j, names'[n].bind)

\* A pair that is known afterwards was known before, or is the new journal's.
LEMMA SpaceGrowKnown ==
    ASSUME SpaceInv, SpaceGrows, NEW a \in Actors, NEW x \in SpaceDoing, actor' = [actor EXCEPT ![a] = x], x.pc # "open-state",
           handle' = handle, written' = written, NEW j \in Nat, NEW s \in Nat, SpaceKnown(j, s)', ~SpaceKnown(j, s)
    PROVE  \E d \in Configs :
              /\ d.split /\ ~Space!Exists(Space!Name(d)) /\ Space!Exists(Space!Name(d))' /\ names'[Space!Name(d)].bind = s
              /\ s = names[Space!StateName(d)].inc /\ s # 0 /\ ~\E i \in Nat : SpaceKnown(i, s)
              /\ j = clock + 1 /\ clock' = clock + 1
<1>1. \A b \in Actors : actor'[b] = IF b = a THEN x ELSE actor[b]
  BY DEF SpaceInv, SpaceTypeInv
<1>2. PICK n \in Space!Names : n[1] = "journal" /\ Space!Exists(n)' /\ names'[n].inc = j /\ names'[n].bind = s
  BY <1>1 DEF SpaceKnown
<1>3. ~Space!Exists(n) BY <1>2 DEF SpaceKnown, SpaceGrows
<1>4. names'[n].inc # 0 BY <1>2 DEF Space!Exists
<1> QED BY <1>2, <1>3, <1>4 DEF SpaceGrows

LEMMA SpaceGrowLocal ==
    ASSUME SpaceInv, SpaceGrows, NEW a \in Actors, NEW x \in SpaceDoing, actor' = [actor EXCEPT ![a] = x], x.pc # "open-state",
           handle' = handle, written' = written, NEW b \in Actors, NEW y \in SpaceDoing, y = actor[b]
    PROVE  SpaceLocal(b, y)'
<1>1. SpaceLocal(b, y) BY DEF SpaceInv, SpaceActorInv
<1>2. handle'[b] = handle[b] OBVIOUS
<1>3. \A n \in Space!Names : Space!Exists(n) =>
         Space!Exists(n)' /\ names'[n].inc = names[n].inc /\ names'[n].epoch = names[n].epoch
  BY DEF SpaceGrows, Space!Exists
<1>4. ASSUME y.pc \in {"create-state", "create-journal"} PROVE SpaceUnpaired(y.config)'
  <2>1. PICK c : c = y.config OBVIOUS
  <2>2. c \in Configs BY <1>4, <2>1, SpaceTaskShapes DEF SpaceProvisioning
  <2>3. c.split /\ SpaceUnpaired(c) BY <1>1, <1>4, <2>1 DEF SpaceLocal
  <2>4. PICK s : s = names'[Space!StateName(c)].inc OBVIOUS
  <2>5. Space!Name(c) \in Space!Names /\ Space!StateName(c) \in Space!Names BY <2>2, <2>3, SpaceConfigFacts
  <2>6. SUFFICES ASSUME s # 0, NEW j \in Nat, SpaceKnown(j, s)' PROVE Space!Exists(Space!Name(c))' /\ names'[Space!Name(c)].bind = s
    BY <2>1, <2>4 DEF SpaceUnpaired
  <2>7. s \in Nat BY <2>4, <2>5, <2>6 DEF SpaceGrows, SpaceExisting, Space!Absent
  <2>8. CASE SpaceKnown(j, s)
    <3>1. s <= clock /\ clock \in Nat BY <2>7, <2>8 DEF SpaceInv, SpacePairInv, SpaceTypeInv
    <3>2. names[Space!StateName(c)].inc = s
      BY <2>4, <2>5, <2>6, <3>1 DEF SpaceGrows, Space!Exists
    <3>3. Space!Exists(Space!Name(c)) /\ names[Space!Name(c)].bind = s BY <2>3, <2>6, <2>8, <3>2 DEF SpaceUnpaired
    <3>4. Space!Name(c)[1] = "journal" BY <2>2, <2>3, SpaceNameFacts
    <3> QED BY <1>3, <2>5, <3>3, <3>4 DEF SpaceGrows
  <2>9. CASE ~SpaceKnown(j, s)
    <3>1. PICK d \in Configs : d.split /\ Space!Exists(Space!Name(d))' /\ names'[Space!Name(d)].bind = s /\ s = names[Space!StateName(d)].inc
      BY <2>6, <2>7, <2>9, SpaceGrowKnown
    <3>2. Space!StateName(d) \in Space!Names BY <3>1, SpaceConfigFacts
    <3>3. s <= clock /\ clock \in Nat BY <3>1, <3>2 DEF SpaceInv, SpaceStreamInv, SpaceTypeInv
    <3>4. names[Space!StateName(c)].inc = s
      BY <2>4, <2>5, <2>6, <3>3, <2>7 DEF SpaceGrows, Space!Exists
    <3>5. Space!StateName(c) = Space!StateName(d)
      BY <2>5, <2>6, <3>1, <3>2, <3>4 DEF SpaceInv, SpaceStreamInv, Space!Exists
    <3>6. Space!Name(c) = Space!Name(d) BY <2>2, <2>3, <3>1, <3>5, SpaceNameFacts
    <3> QED BY <3>1, <3>6
  <2> QED BY <2>8, <2>9
<1>5. ASSUME y.pc = "create-journal" PROVE y.state # 0 /\ names'[Space!StateName(y.config)].inc = y.state
  <2>1. y.config \in Configs /\ y.config.split BY <1>1, <1>5, SpaceTaskShapes DEF SpaceProvisioning, SpaceLocal
  <2> QED BY <1>1, <1>3, <1>5, <2>1, SpaceConfigFacts DEF SpaceLocal, Space!Exists
<1>6. ASSUME y.pc = "update" PROVE Space!Exists(Space!Name(y.config))' /\ names'[Space!Name(y.config)].epoch = y.policy.epoch
  BY <1>1, <1>3, <1>6, SpaceTaskShapes, SpaceConfigFacts DEF SpaceLocal
<1>7. ASSUME y.pc \in SpaceWriting \cup SpaceLooking
      PROVE  handle[b] \in SpaceHandles /\ handle[b].config \in Configs /\ Space!Name(handle[b].config) \in Space!Names
  BY <1>1, <1>7, SpaceConfigFacts DEF SpaceLocal, SpaceHandles
<1>8. ASSUME y.pc \in {"check-state", "publish"}
      PROVE  /\ Space!Exists(Space!Name(handle[b].config)) /\ Space!Exists(Space!Name(handle[b].config))'
             /\ names'[Space!Name(handle[b].config)].inc = names[Space!Name(handle[b].config)].inc
             /\ names'[Space!Name(handle[b].config)].epoch = names[Space!Name(handle[b].config)].epoch
  BY <1>1, <1>3, <1>7, <1>8 DEF SpaceLocal, SpaceWriting
<1>9. ASSUME y.pc = "recheck", y.decided PROVE names'[Space!Name(handle[b].config)].inc # handle[b].journal
  <2>1. handle[b].journal <= clock /\ handle[b].journal \in Nat \ {0}
    BY <1>7, <1>9 DEF SpaceLooking, SpaceInv, SpaceHandleInv, SpaceHandles, Space!Disconnected
  <2>2. PICK n \in Space!Names : n = Space!Name(handle[b].config) BY <1>7, <1>9 DEF SpaceLooking
  <2>3. clock \in Nat BY DEF SpaceInv, SpaceTypeInv
  <2>4. CASE Space!Exists(n) BY <1>1, <1>3, <1>9, <2>2, <2>4 DEF SpaceLocal
  <2>5. CASE ~Space!Exists(n) BY <2>1, <2>2, <2>3, <2>5 DEF SpaceGrows
  <2> QED BY <2>4, <2>5
<1>10. (y.pc \in SpaceWriting \cup SpaceLooking => handle'[b] \in SpaceHandles) /\ (y.pc \in SpaceLooking => handle'[b].config.split)
  BY <1>1, <1>2 DEF SpaceLocal
<1>11. PICK h : h = handle[b] /\ h = handle'[b] BY <1>2
<1>12. ASSUME y.pc = "publish"
       PROVE  /\ Space!Exists(Space!Name(h.config))' /\ names'[Space!Name(h.config)].epoch = h.config.epoch
              /\ y.kind = "outcome" => h.config.epoch # Space!None
              /\ y.kind = "import" => h.config.epoch = Space!None
              /\ h.config.split => names'[Space!Name(h.config)].inc = h.journal
  <2>1. /\ names[Space!Name(h.config)].epoch = h.config.epoch
        /\ y.kind = "outcome" => h.config.epoch # Space!None
        /\ y.kind = "import" => h.config.epoch = Space!None
        /\ h.config.split => names[Space!Name(h.config)].inc = h.journal
    BY <1>1, <1>11, <1>12 DEF SpaceLocal
  <2> QED BY <1>8, <1>11, <1>12, <2>1
<1>13. ASSUME y.pc = "check-state"
       PROVE  /\ h.config.split /\ y.kind # "import"
              /\ Space!Exists(Space!Name(h.config))' /\ names'[Space!Name(h.config)].inc = h.journal
  <2>1. h.config.split /\ y.kind # "import" /\ names[Space!Name(h.config)].inc = h.journal
    BY <1>1, <1>11, <1>13 DEF SpaceLocal
  <2> QED BY <1>8, <1>11, <1>13, <2>1
<1>14. y.pc = "recheck-state" => ~y.decided BY <1>1 DEF SpaceLocal
<1>15. /\ y.pc \in {"find-journal", "find-state", "create-state", "create-journal", "bind", "open-state"} => y.config.split
       /\ y.pc \in {"find", "create", "reconcile", "look", "update"} => ~y.config.split
  BY <1>1 DEF SpaceLocal
<1> QED BY <1>4, <1>5, <1>6, <1>9, <1>10, <1>11, <1>12, <1>13, <1>14, <1>15 DEF SpaceLocal

LEMMA SpaceGrowStep ==
    ASSUME SpaceInv, SpaceGrows, NEW a \in Actors, NEW x \in SpaceDoing, actor' = [actor EXCEPT ![a] = x], x.pc # "open-state",
           handle' = handle, written' = written, misses' = misses,
           NEW y \in SpaceDoing, y = actor[a], SpaceLocal(a, y)' => SpaceLocal(a, x)'
    PROVE  SpaceInv'
<1>1. SpaceTypeInv' BY DEF SpaceInv, SpaceTypeInv, SpaceGrows
<1>2. \A b \in Actors : actor'[b] = IF b = a THEN x ELSE actor[b]
  BY DEF SpaceInv, SpaceTypeInv
<1>3. clock \in Nat /\ clock' \in Nat /\ clock <= clock' BY DEF SpaceGrows, SpaceInv, SpaceTypeInv
<1>4. SpaceStreamInv'
  <2>1. \A n \in Space!Names : /\ names[n].inc \in Nat /\ names'[n].inc \in Nat /\ names[n].inc <= clock
                               /\ Space!Exists(n)' /\ ~Space!Exists(n) => clock' = clock + 1 /\ names'[n].inc = clock + 1
                               /\ Space!Exists(n) => names'[n].inc = names[n].inc
    BY DEF SpaceInv, SpaceTypeInv, SpaceStreamInv, SpaceGrows, Space!Exists, SpaceExisting, Space!Absent
  <2>2. \A n \in Space!Names : names'[n].inc <= clock'
    BY <1>3, <2>1 DEF Space!Exists
  <2>3. ASSUME NEW n \in Space!Names, NEW m \in Space!Names, Space!Exists(n)', Space!Exists(m)', names'[n].inc = names'[m].inc PROVE n = m
    <3>1. CASE Space!Exists(n) /\ Space!Exists(m) BY <2>1, <2>3, <3>1 DEF SpaceInv, SpaceStreamInv
    <3>2. CASE ~Space!Exists(n) /\ ~Space!Exists(m)
      <4>1. names'[n].inc # 0 /\ names'[m].inc # 0 BY <2>3 DEF Space!Exists
      <4> QED BY <3>2, <4>1 DEF SpaceGrows
    <3>3. CASE Space!Exists(n) /\ ~Space!Exists(m) BY <1>3, <2>1, <2>3, <3>3
    <3>4. CASE ~Space!Exists(n) /\ Space!Exists(m) BY <1>3, <2>1, <2>3, <3>4
    <3> QED BY <3>1, <3>2, <3>3, <3>4
  <2>4. ASSUME NEW n \in Space!Names, Space!Exists(n)', n[1] = "journal" PROVE names'[n].epoch = n[2]
    BY <2>4 DEF SpaceInv, SpaceStreamInv, SpaceGrows, Space!Exists
  <2> QED BY <2>2, <2>3, <2>4 DEF SpaceStreamInv
<1>5. SpacePairInv'
  <2> SUFFICES ASSUME NEW j \in Nat, NEW s \in Nat, SpaceKnown(j, s)'
               PROVE  /\ j <= clock' /\ s <= clock'
                      /\ \A i, r \in Nat : SpaceKnown(i, r)' => (i = j <=> r = s)
    BY DEF SpacePairInv
  <2>1. ASSUME NEW i \in Nat, NEW r \in Nat, SpaceKnown(i, r)', ~SpaceKnown(i, r)
        PROVE  i = clock + 1 /\ clock' = clock + 1 /\ r <= clock /\ ~\E k \in Nat : SpaceKnown(k, r)
    <3>1. PICK d \in Configs : /\ d.split /\ r = names[Space!StateName(d)].inc
                               /\ i = clock + 1 /\ clock' = clock + 1 /\ ~\E k \in Nat : SpaceKnown(k, r)
      BY <2>1, SpaceGrowKnown
    <3> QED BY <3>1, SpaceConfigFacts DEF SpaceInv, SpaceStreamInv
  <2>2. ASSUME NEW i \in Nat, NEW r \in Nat, SpaceKnown(i, r)
        PROVE  i <= clock /\ r <= clock
    BY <2>2 DEF SpaceInv, SpacePairInv
  <2>3. j <= clock' /\ s <= clock' BY <1>3, <2>1, <2>2
  <2>4. ASSUME NEW i \in Nat, NEW r \in Nat, SpaceKnown(i, r)' PROVE i = j <=> r = s
    <3>1. CASE SpaceKnown(i, r) /\ SpaceKnown(j, s) BY <3>1 DEF SpaceInv, SpacePairInv
    <3>2. CASE SpaceKnown(i, r) /\ ~SpaceKnown(j, s)
      <4>1. i # j BY <1>3, <2>1, <2>2, <3>2
      <4>2. r # s BY <2>1, <3>2
      <4> QED BY <4>1, <4>2
    <3>3. CASE ~SpaceKnown(i, r) /\ SpaceKnown(j, s)
      <4>1. i # j BY <1>3, <2>1, <2>2, <2>4, <3>3
      <4>2. r # s BY <2>1, <2>4, <3>3
      <4> QED BY <4>1, <4>2
    <3>4. CASE ~SpaceKnown(i, r) /\ ~SpaceKnown(j, s)
      <4>1. i = j BY <2>1, <2>4, <3>4
      <4>2. PICK d \in Configs : ~Space!Exists(Space!Name(d)) /\ Space!Exists(Space!Name(d))' /\ names'[Space!Name(d)].bind = r
        BY <2>4, <3>4, SpaceGrowKnown
      <4>3. PICK e \in Configs : ~Space!Exists(Space!Name(e)) /\ Space!Exists(Space!Name(e))' /\ names'[Space!Name(e)].bind = s
        BY <3>4, SpaceGrowKnown
      <4>4. Space!Name(d) = Space!Name(e) BY <4>2, <4>3, SpaceConfigFacts DEF SpaceGrows, Space!Exists
      <4> QED BY <4>1, <4>2, <4>3, <4>4
    <3> QED BY <3>1, <3>2, <3>3, <3>4
  <2> QED BY <2>3, <2>4
<1>6. SpaceActorInv'
  <2> SUFFICES ASSUME NEW b \in Actors PROVE SpaceLocal(b, actor[b])' BY DEF SpaceActorInv
  <2>1. PICK z \in SpaceDoing : z = actor[b] BY DEF SpaceInv, SpaceTypeInv
  <2>2. SpaceLocal(b, z)' BY <2>1, SpaceGrowLocal
  <2>3. CASE b = a BY <1>2, <2>1, <2>2, <2>3
  <2>4. CASE b # a BY <1>2, <2>1, <2>2, <2>4
  <2> QED BY <2>3, <2>4
<1>7. SpaceHandleInv' BY <1>3 DEF SpaceInv, SpaceHandleInv, SpaceTypeInv, SpaceHandles
<1>8. SpaceWriteInv' BY DEF SpaceInv, SpaceWriteInv
<1> QED BY <1>1, <1>4, <1>5, <1>6, <1>7, <1>8 DEF SpaceInv

LEMMA SpaceCreateStreamStep == ASSUME SpaceInv, NEW a \in Actors, Space!CreateStream(a) PROVE SpaceInv'
<1>1. PICK y \in SpaceDoing : y = actor[a] BY DEF SpaceInv, SpaceTypeInv
<1>2. PICK c : c = y.config OBVIOUS
<1>3. PICK n : n = Space!Name(c) OBVIOUS
<1>4. y.pc = "create" /\ UNCHANGED <<handle, written, misses>> BY <1>1 DEF Space!CreateStream, Space!History
<1>5. y \in [pc : SpaceProvisioning, config : Configs, state : Nat, journal : Nat]
  BY <1>4, SpaceTaskShapes DEF SpaceProvisioning
<1>6. SpaceLocal(a, y) BY <1>1 DEF SpaceInv, SpaceActorInv
<1>7. c \in Configs /\ ~c.split BY <1>2, <1>4, <1>5, <1>6 DEF SpaceLocal
<1>8. n \in Space!Names /\ n[1] = "events" BY <1>3, <1>7, SpaceConfigFacts, SpaceNameFacts
<1>9. PICK z : z = [y EXCEPT !.pc = "reconcile"] OBVIOUS
<1>10. z \in SpaceDoing /\ z.pc = "reconcile" /\ z.config = c BY <1>2, <1>5, <1>9 DEF SpaceDoing, SpaceProvisioning
<1>11. Space!Idle \in SpaceDoing /\ Space!Idle.pc = "idle" BY DEF SpaceDoing, Space!Idle
<1>12. PICK x \in {Space!Idle, z} : actor' = [actor EXCEPT ![a] = x]
  BY <1>1, <1>9 DEF Space!CreateStream, Space!Creates, Space!End, Space!Goto
<1>13. SpaceLocal(a, x) BY <1>7, <1>10, <1>11, <1>12 DEF SpaceLocal, SpaceWriting, SpaceLooking
<1>14. SpaceLocal(a, x)' BY <1>7, <1>10, <1>11, <1>12 DEF SpaceLocal, SpaceWriting, SpaceLooking
<1>15. CASE UNCHANGED <<names, clock>>
  BY <1>4, <1>10, <1>11, <1>12, <1>13, <1>15, SpaceActorStep
<1>16. CASE ~UNCHANGED <<names, clock>>
  <2>1. ~Space!Exists(n) /\ clock' = clock + 1 /\ names' = [names EXCEPT ![n] = Space!Stream(Space!Policy(c), clock + 1)]
    BY <1>1, <1>2, <1>3, <1>16 DEF Space!CreateStream, Space!Creates, Space!Broker
  <2>2. clock + 1 \in Nat \ {0} /\ clock <= clock + 1 BY DEF SpaceInv, SpaceTypeInv
  <2>3. Space!Stream(Space!Policy(c), clock + 1) \in SpaceExisting /\ Space!Stream(Space!Policy(c), clock + 1).inc = clock + 1
    BY <1>7, <2>2, SpaceConfigFacts, SpaceStreamFacts
  <2>4. SpaceGrows
    BY <1>8, <2>1, <2>2, <2>3 DEF SpaceGrows, SpaceInv, SpaceTypeInv, Space!Exists
  <2> QED BY <1>1, <1>4, <1>10, <1>11, <1>12, <1>14, <2>4, SpaceGrowStep
<1> QED BY <1>15, <1>16

LEMMA SpaceCreateStateStep == ASSUME SpaceInv, NEW a \in Actors, Space!CreateState(a) PROVE SpaceInv'
<1>1. PICK y \in SpaceDoing : y = actor[a] BY DEF SpaceInv, SpaceTypeInv
<1>2. PICK c : c = y.config OBVIOUS
<1>3. PICK n : n = Space!StateName(c) OBVIOUS
<1>4. y.pc = "create-state" /\ UNCHANGED <<handle, written, misses>> BY <1>1 DEF Space!CreateState, Space!History
<1>5. y \in [pc : SpaceProvisioning, config : Configs, state : Nat, journal : Nat]
  BY <1>4, SpaceTaskShapes DEF SpaceProvisioning
<1>6. SpaceLocal(a, y) BY <1>1 DEF SpaceInv, SpaceActorInv
<1>7. c \in Configs /\ c.split /\ SpaceUnpaired(c) BY <1>2, <1>4, <1>5, <1>6 DEF SpaceLocal
<1>8. n \in Space!Names /\ n[1] = "state" BY <1>3, <1>7, SpaceConfigFacts, SpaceNameFacts
<1>9. CASE UNCHANGED <<names, clock>>
  <2>1. CASE Space!End(a) BY <1>4, <1>9, <2>1, SpaceEndStep
  <2>2. CASE ~Space!End(a)
    <3>1. PICK x : x = [y EXCEPT !.pc = "create-journal", !.state = names[n].inc] OBVIOUS
    <3>2. Space!Exists(n) /\ actor' = [actor EXCEPT ![a] = x]
      <4>1. clock \in Nat BY DEF SpaceInv, SpaceTypeInv
      <4>2. Space!Exists(n) BY <1>1, <1>2, <1>3, <1>9, <4>1 DEF Space!CreateState, Space!Creates
      <4>3. actor' = [actor EXCEPT ![a].pc = "create-journal", ![a].state = names[n].inc]
        BY <1>1, <1>2, <1>3, <2>2, <4>2 DEF Space!CreateState, Space!Creates
      <4> QED BY <1>1, <3>1, <4>2, <4>3
    <3>3. names[n].inc \in Nat \ {0}
      BY <1>8, <3>2 DEF Space!Exists, SpaceInv, SpaceTypeInv, SpaceExisting, Space!Absent
    <3>4. x \in SpaceDoing /\ x.pc = "create-journal" /\ x.config = c /\ x.state = names[n].inc
      BY <1>2, <1>5, <3>1, <3>3 DEF SpaceDoing, SpaceProvisioning
    <3>5. SpaceLocal(a, x) BY <1>3, <1>7, <3>3, <3>4 DEF SpaceLocal, SpaceWriting, SpaceLooking
    <3> QED BY <1>4, <1>9, <3>2, <3>4, <3>5, SpaceActorStep
  <2> QED BY <2>1, <2>2
<1>10. CASE ~UNCHANGED <<names, clock>>
  <2>1. ~Space!Exists(n) /\ clock' = clock + 1 /\ names' = [names EXCEPT ![n] = Space!Stream(Space!StatePolicy(c), clock + 1)]
    BY <1>1, <1>2, <1>3, <1>10 DEF Space!CreateState, Space!Creates, Space!Broker
  <2>2. clock + 1 \in Nat \ {0} /\ clock <= clock + 1 BY DEF SpaceInv, SpaceTypeInv
  <2>3. Space!Stream(Space!StatePolicy(c), clock + 1) \in SpaceExisting /\ Space!Stream(Space!StatePolicy(c), clock + 1).inc = clock + 1
    BY <1>7, <2>2, SpaceConfigFacts, SpaceStreamFacts
  <2>4. SpaceGrows
    BY <1>8, <2>1, <2>2, <2>3 DEF SpaceGrows, SpaceInv, SpaceTypeInv, Space!Exists
  <2>5. PICK x : x = [y EXCEPT !.pc = "create-journal", !.state = clock + 1] OBVIOUS
  <2>6. x \in SpaceDoing /\ x.pc = "create-journal" /\ x.config = c /\ x.state = clock + 1
    BY <1>2, <1>5, <2>2, <2>5 DEF SpaceDoing, SpaceProvisioning
  <2>7. Space!Idle \in SpaceDoing /\ Space!Idle.pc = "idle" BY DEF SpaceDoing, Space!Idle
  <2>8. CASE actor' = [actor EXCEPT ![a] = x]
    <3>1. SpaceLocal(a, y)' => SpaceUnpaired(c)' BY <1>2, <1>4 DEF SpaceLocal
    <3>2. names'[Space!StateName(c)].inc = clock + 1 BY <1>3, <1>8, <2>1, <2>3 DEF SpaceInv, SpaceTypeInv
    <3>3. PICK k : k = clock + 1 OBVIOUS
    <3>4. x.state = k /\ k # 0 /\ names'[Space!StateName(c)].inc = k BY <2>2, <2>6, <3>2, <3>3
    <3>5. SpaceLocal(a, y)' => SpaceLocal(a, x)'
      BY <1>7, <2>6, <3>1, <3>4 DEF SpaceLocal, SpaceWriting, SpaceLooking
    <3> QED BY <1>1, <1>4, <2>4, <2>6, <2>8, <3>5, SpaceGrowStep
  <2>9. CASE actor' = [actor EXCEPT ![a] = Space!Idle]
    <3>1. SpaceLocal(a, Space!Idle)' BY <2>7 DEF SpaceLocal, SpaceWriting, SpaceLooking
    <3> QED BY <1>1, <1>4, <2>4, <2>7, <2>9, <3>1, SpaceGrowStep
  <2> QED BY <1>1, <1>2, <1>3, <2>1, <2>5, <2>8, <2>9 DEF Space!CreateState, Space!Creates, Space!End
<1> QED BY <1>9, <1>10

LEMMA SpaceCreateJournalStep == ASSUME SpaceInv, NEW a \in Actors, Space!CreateJournal(a) PROVE SpaceInv'
<1>1. PICK y \in SpaceDoing : y = actor[a] BY DEF SpaceInv, SpaceTypeInv
<1>2. PICK c : c = y.config OBVIOUS
<1>3. PICK n : n = Space!Name(c) OBVIOUS
<1>4. y.pc = "create-journal" /\ UNCHANGED <<handle, written, misses>>
  BY <1>1 DEF Space!CreateJournal, Space!History
<1>5. y \in [pc : SpaceProvisioning, config : Configs, state : Nat, journal : Nat]
  BY <1>4, SpaceTaskShapes DEF SpaceProvisioning
<1>6. SpaceLocal(a, y) BY <1>1 DEF SpaceInv, SpaceActorInv
<1>7. c \in Configs /\ c.split /\ SpaceUnpaired(c) /\ y.state # 0 /\ names[Space!StateName(c)].inc = y.state
  BY <1>2, <1>4, <1>5, <1>6 DEF SpaceLocal
<1>8. n \in Space!Names /\ n[1] = "journal" /\ n[2] = c.epoch BY <1>3, <1>7, SpaceConfigFacts, SpaceNameFacts
<1>9. Space!Idle \in SpaceDoing /\ Space!Idle.pc = "idle" BY DEF SpaceDoing, Space!Idle
<1>10. PICK k \in Nat : \/ actor' = [actor EXCEPT ![a] = Space!Idle]
                        \/ actor' = [actor EXCEPT ![a].pc = "bind", ![a].journal = k]
  <2>1. clock + 1 \in Nat BY DEF SpaceInv, SpaceTypeInv
  <2>2. names[n].inc \in Nat BY <1>8 DEF SpaceInv, SpaceTypeInv, SpaceExisting, Space!Absent
  <2>3. CASE Space!Exists(n) BY <1>1, <1>2, <1>3, <2>2, <2>3 DEF Space!CreateJournal, Space!Creates, Space!End
  <2>4. CASE ~Space!Exists(n) BY <1>1, <1>2, <1>3, <2>1, <2>4 DEF Space!CreateJournal, Space!Creates, Space!End
  <2> QED BY <2>3, <2>4
<1>11. PICK z : z = [y EXCEPT !.pc = "bind", !.journal = k] OBVIOUS
<1>12. z \in SpaceDoing /\ z.pc = "bind" /\ z.config = c BY <1>2, <1>5, <1>11 DEF SpaceDoing, SpaceProvisioning
<1>13. PICK x \in {Space!Idle, z} : actor' = [actor EXCEPT ![a] = x] BY <1>1, <1>10, <1>11
<1>14. SpaceLocal(a, x) BY <1>7, <1>9, <1>12, <1>13 DEF SpaceLocal, SpaceWriting, SpaceLooking
<1>15. SpaceLocal(a, x)' BY <1>7, <1>9, <1>12, <1>13 DEF SpaceLocal, SpaceWriting, SpaceLooking
<1>16. CASE UNCHANGED <<names, clock>>
  BY <1>4, <1>9, <1>12, <1>13, <1>14, <1>16, SpaceActorStep
<1>17. CASE ~UNCHANGED <<names, clock>>
  <2>0. PICK p : p = [Space!Policy(c) EXCEPT !.bind = y.state] OBVIOUS
  <2>1. ~Space!Exists(n) /\ clock' = clock + 1 /\ names' = [names EXCEPT ![n] = Space!Stream(p, clock + 1)]
    BY <1>1, <1>2, <1>3, <1>17, <2>0 DEF Space!CreateJournal, Space!Creates, Space!Broker
  <2>2. clock + 1 \in Nat \ {0} /\ clock <= clock + 1 BY DEF SpaceInv, SpaceTypeInv
  <2>3. p \in SpacePolicies /\ p.epoch = c.epoch /\ p.bind = y.state
    BY <1>5, <1>7, <2>0, SpaceConfigFacts DEF SpacePolicies
  <2>4. PICK s : s = Space!Stream(p, clock + 1) OBVIOUS
  <2>5. s \in SpaceExisting /\ s.inc = clock + 1 /\ s.epoch = c.epoch /\ s.bind = y.state
    BY <2>2, <2>3, <2>4, SpaceStreamFacts
  <2>6. ~\E j \in Nat : SpaceKnown(j, y.state)
    BY <1>3, <1>7, <2>1 DEF SpaceUnpaired
  <2>7. \A m \in Space!Names : names'[m] = IF m = n THEN s ELSE names[m]
    BY <2>1, <2>4 DEF SpaceInv, SpaceTypeInv
  <2>8. names' \in [Space!Names -> {Space!Absent} \cup SpaceExisting]
    BY <2>1, <2>4, <2>5 DEF SpaceInv, SpaceTypeInv
  <2>9. \A m \in Space!Names : ~Space!Exists(m) /\ names'[m].inc # 0 => m = n
    BY <2>7 DEF Space!Exists
  <2>10. SpaceGrows
    <3>1. clock' \in Nat /\ clock <= clock' BY <2>1, <2>2
    <3>2. \A m \in Space!Names : Space!Exists(m) => names'[m] = names[m] BY <2>1, <2>7
    <3>3. names'[n].epoch = n[2] BY <1>8, <2>5, <2>7
    <3>4. names'[n].inc = clock + 1 BY <1>8, <2>5, <2>7
    <3>5. \E d \in Configs : /\ d.split /\ n = Space!Name(d)
                             /\ names'[n].bind = names[Space!StateName(d)].inc /\ names'[n].bind # 0
                             /\ ~\E j \in Nat : SpaceKnown(j, names'[n].bind)
      BY <1>3, <1>7, <1>8, <2>5, <2>6, <2>7
    <3> QED BY <2>1, <2>8, <2>9, <3>1, <3>2, <3>3, <3>4, <3>5 DEF SpaceGrows
  <2> QED BY <1>1, <1>4, <1>9, <1>12, <1>13, <1>15, <2>10, SpaceGrowStep
<1> QED BY <1>16, <1>17

LEMMA SpaceBindStep == ASSUME SpaceInv, NEW a \in Actors, Space!Bind(a) \/ Space!UpdateStream(a) PROVE SpaceInv'
<1>1. PICK y \in SpaceDoing : y = actor[a] BY DEF SpaceInv, SpaceTypeInv
<1>2. PICK c : c = y.config OBVIOUS
<1>3. UNCHANGED <<clock, handle, written, misses>> /\ Space!End(a)
  BY DEF Space!Bind, Space!UpdateStream, Space!History
<1>4. y.pc \in {"bind", "update"} BY <1>1 DEF Space!Bind, Space!UpdateStream
<1>5. SpaceLocal(a, y) BY <1>1 DEF SpaceInv, SpaceActorInv
<1>6. c \in Configs BY <1>2, <1>4, SpaceTaskShapes DEF SpaceProvisioning
<1>7. PICK n \in Space!Names : /\ \E t \in {Space!Absent} \cup SpaceExisting : names' = [names EXCEPT ![n] = t]
                               /\ names'[n].inc = names[n].inc
                               /\ Space!Exists(n) => names'[n].epoch = names[n].epoch
                               /\ n[1] # "journal"
  <2>1. CASE Space!Bind(a)
    <3>1. PICK n \in Space!Names : n = Space!StateName(c) /\ n[1] = "state"
      BY <1>1, <1>2, <1>4, <1>5, <1>6, <2>1, SpaceConfigFacts, SpaceNameFacts DEF Space!Bind, SpaceLocal
    <3>2. y.journal \in Nat BY <1>1, <2>1, SpaceTaskShapes DEF Space!Bind, SpaceProvisioning
    <3>3. PICK t : t = IF Space!Exists(n) THEN [names[n] EXCEPT !.bind = y.journal] ELSE names[n] OBVIOUS
    <3>4. names' = [names EXCEPT ![n] = t] BY <1>1, <1>2, <2>1, <3>1, <3>3 DEF Space!Bind
    <3>5. names[n] \in {Space!Absent} \cup SpaceExisting BY DEF SpaceInv, SpaceTypeInv
    <3>6. t \in {Space!Absent} \cup SpaceExisting /\ t.inc = names[n].inc /\ (Space!Exists(n) => t.epoch = names[n].epoch)
      BY <3>2, <3>3, <3>5 DEF SpaceExisting, Space!Absent, Space!Exists
    <3>7. names'[n] = t BY <3>4 DEF SpaceInv, SpaceTypeInv
    <3> QED BY <3>1, <3>4, <3>6, <3>7
  <2>2. CASE Space!UpdateStream(a)
    <3>1. y.pc = "update" /\ ~c.split /\ Space!Exists(Space!Name(c)) /\ names[Space!Name(c)].epoch = y.policy.epoch
      BY <1>1, <1>2, <1>5, <2>2 DEF Space!UpdateStream, SpaceLocal
    <3>2. PICK n \in Space!Names : n = Space!Name(c) /\ n[1] = "events"
      BY <1>6, <3>1, SpaceConfigFacts, SpaceNameFacts
    <3>3. PICK p \in SpacePolicies : p = y.policy BY <3>1, SpaceTaskShapes
    <3>4. PICK t : t = Space!Stream(p, names[n].inc) OBVIOUS
    <3>5. names' = [names EXCEPT ![n] = t] BY <1>1, <1>2, <2>2, <3>1, <3>2, <3>3, <3>4 DEF Space!UpdateStream
    <3>6. names[n].inc \in Nat \ {0}
      BY <3>1, <3>2 DEF SpaceInv, SpaceTypeInv, SpaceExisting, Space!Absent, Space!Exists
    <3>7. t \in SpaceExisting /\ t.inc = names[n].inc /\ t.epoch = names[n].epoch
      BY <3>1, <3>2, <3>3, <3>4, <3>6, SpaceStreamFacts
    <3>8. names'[n] = t BY <3>5 DEF SpaceInv, SpaceTypeInv
    <3> QED BY <3>2, <3>5, <3>7, <3>8
  <2> QED BY <2>1, <2>2
<1>8. \A m \in Space!Names : m # n => names'[m] = names[m] BY <1>7 DEF SpaceInv, SpaceTypeInv
<1>9. names' \in [Space!Names -> {Space!Absent} \cup SpaceExisting] BY <1>7 DEF SpaceInv, SpaceTypeInv
<1>10. clock' \in Nat /\ clock <= clock' BY <1>3 DEF SpaceInv, SpaceTypeInv
<1>11. SpaceGrows BY <1>7, <1>8, <1>9, <1>10 DEF SpaceGrows, Space!Exists
<1>12. Space!Idle \in SpaceDoing /\ Space!Idle.pc = "idle" BY DEF SpaceDoing, Space!Idle
<1>13. SpaceLocal(a, Space!Idle)' BY <1>12 DEF SpaceLocal, SpaceWriting, SpaceLooking
<1> QED BY <1>1, <1>3, <1>11, <1>12, <1>13, SpaceGrowStep DEF Space!End

\* Nobody who relies on a stream is interrupted by its deletion.
LEMMA SpaceDeleteStep == ASSUME SpaceInv, NEW n \in Space!Names, Space!Delete(n) PROVE SpaceInv'
<1>1. UNCHANGED <<clock, actor, handle, written, misses>> /\ names' = [names EXCEPT ![n] = Space!Absent]
  BY DEF Space!Delete, Space!History
<1>2. \A m \in Space!Names : names'[m] = IF m = n THEN Space!Absent ELSE names[m] BY <1>1 DEF SpaceInv, SpaceTypeInv
<1>3. SpaceTypeInv' BY <1>1 DEF SpaceInv, SpaceTypeInv
<1>4. Space!Absent.inc = 0 BY DEF Space!Absent
<1>5. SpaceStreamInv' BY <1>1, <1>2, <1>4 DEF SpaceInv, SpaceStreamInv, Space!Exists, SpaceTypeInv
<1>6. ASSUME NEW j \in Nat, NEW s \in Nat, SpaceKnown(j, s)' PROVE SpaceKnown(j, s)
  BY <1>1, <1>2, <1>4, <1>6 DEF SpaceKnown, Space!Exists
<1>7. SpacePairInv' BY <1>1, <1>6 DEF SpaceInv, SpacePairInv
<1>8. SpaceActorInv'
  <2> SUFFICES ASSUME NEW b \in Actors PROVE SpaceLocal(b, actor[b])' BY DEF SpaceActorInv
  <2>1. PICK y \in SpaceDoing : y = actor[b] BY DEF SpaceInv, SpaceTypeInv
  <2>2. SpaceLocal(b, y) BY <2>1 DEF SpaceInv, SpaceActorInv
  <2>3. y.pc \notin {"check-state", "publish", "update", "create-state", "create-journal", "bind"}
    BY <2>1 DEF Space!Delete, Space!InUse
  <2>4. ASSUME y.pc = "recheck", y.decided PROVE names'[Space!Name(handle[b].config)].inc # handle[b].journal
    <3>1. handle[b] \in SpaceHandles BY <2>2, <2>4 DEF SpaceLocal, SpaceLooking
    <3>2. handle[b] # Space!Disconnected /\ Space!Name(handle[b].config) \in Space!Names
      BY <3>1, SpaceConfigFacts DEF SpaceHandles, Space!Disconnected
    <3>3. handle[b].journal # 0 BY <3>2 DEF SpaceInv, SpaceHandleInv
    <3> QED BY <1>2, <1>4, <2>2, <2>4, <3>2, <3>3 DEF SpaceLocal
  <2>5. SpaceLocal(b, y)' BY <1>1, <2>2, <2>3, <2>4 DEF SpaceLocal
  <2> QED BY <1>1, <2>1, <2>5
<1>9. SpaceHandleInv' /\ SpaceWriteInv' BY <1>1 DEF SpaceInv, SpaceHandleInv, SpaceWriteInv
<1> QED BY <1>3, <1>5, <1>7, <1>8, <1>9 DEF SpaceInv

LEMMA SpaceRestStep ==
    ASSUME SpaceInv, UNCHANGED <<names, clock, actor, handle, written, misses>>
    PROVE  SpaceInv'
<1>1. ASSUME NEW j \in Nat, NEW s \in Nat, SpaceKnown(j, s)' PROVE SpaceKnown(j, s)
  BY <1>1 DEF SpaceKnown, Space!Exists
<1>2. SpaceTypeInv' /\ SpaceStreamInv' /\ SpaceHandleInv' /\ SpaceWriteInv'
  BY DEF SpaceInv, SpaceTypeInv, SpaceStreamInv, SpaceHandleInv, SpaceWriteInv, Space!Exists
<1>3. SpacePairInv' BY <1>1 DEF SpaceInv, SpacePairInv
<1>4. SpaceActorInv'
  <2> SUFFICES ASSUME NEW b \in Actors PROVE SpaceLocal(b, actor[b])' BY DEF SpaceActorInv
  <2>1. PICK y \in SpaceDoing : y = actor[b] BY DEF SpaceInv, SpaceTypeInv
  <2>2. SpaceLocal(b, y)' BY <1>1, <2>1, SpaceLocalFrame DEF SpaceInv, SpaceActorInv
  <2> QED BY <2>1, <2>2
<1> QED BY <1>2, <1>3, <1>4 DEF SpaceInv

LEMMA SpaceInit == Space!Init => SpaceInv
<1> SUFFICES ASSUME Space!Init PROVE SpaceInv OBVIOUS
<1>1. PICK s \in Found : /\ names = [n \in Space!Names |-> IF n = <<"events", Space!None>> THEN s ELSE Space!Absent]
                         /\ clock = s.inc
  BY DEF Space!Init
<1>2. s \in {Space!Absent} \cup SpaceExisting /\ s.inc \in Nat
  <2>1. CASE s = Space!Absent BY <2>1 DEF Space!Absent
  <2>2. CASE s # Space!Absent
    <3>1. s = Space!Stream(Space!PolicyOf(s), s.inc) /\ s.size \in Nat /\ s.bind \in Nat /\ s.inc \in Nat \ {0}
      BY <2>2, SpaceAssumption DEF Space!ConfigsAssumption
    <3>2. s.epoch \in SpaceLabels /\ s.version \in SpaceLabels /\ s.subjects \in SpaceLabels BY DEF SpaceLabels
    <3>3. s = [epoch |-> s.epoch, version |-> s.version, subjects |-> s.subjects, size |-> s.size, bind |-> s.bind, inc |-> s.inc]
      BY <3>1 DEF Space!Stream, Space!PolicyOf
    <3> QED BY <3>1, <3>2, <3>3 DEF SpaceExisting
  <2> QED BY <2>1, <2>2
<1>3. Space!Absent.inc = 0 BY DEF Space!Absent
<1>4. Space!Idle \in SpaceDoing /\ Space!Idle.pc = "idle" BY DEF SpaceDoing, Space!Idle
<1>5. SpaceTypeInv
  <2>1. \A n \in Space!Names : names[n] \in {Space!Absent} \cup SpaceExisting BY <1>1, <1>2
  <2> QED BY <1>1, <1>2, <1>4, <2>1 DEF Space!Init, SpaceTypeInv
<1>6. \A n \in Space!Names : Space!Exists(n) => n = <<"events", Space!None>> BY <1>1, <1>3 DEF Space!Exists
<1>7. SpaceStreamInv
  <2>1. \A n \in Space!Names : names[n].inc <= clock BY <1>1, <1>2, <1>3
  <2> QED BY <1>6, <2>1 DEF SpaceStreamInv
<1>8. \A j, s1 \in Nat : ~SpaceKnown(j, s1) BY <1>4, <1>6 DEF SpaceKnown, Space!Init
<1>9. SpacePairInv BY <1>8 DEF SpacePairInv
<1>10. SpaceActorInv BY <1>4 DEF Space!Init, SpaceActorInv, SpaceLocal, SpaceWriting, SpaceLooking
<1>11. SpaceHandleInv /\ SpaceWriteInv BY DEF Space!Init, SpaceHandleInv, SpaceWriteInv
<1> QED BY <1>5, <1>7, <1>9, <1>10, <1>11 DEF SpaceInv

LEMMA SpaceApart == SpaceInv => Space!NamespacesStayApart
<1> SUFFICES ASSUME SpaceInv PROVE Space!NamespacesStayApart OBVIOUS
<1>1. ASSUME NEW w \in written, w.by.split, NEW v \in written, v.by.split PROVE v.journal = w.journal <=> v.state = w.state
  <2>1. w \in SpaceEntries /\ v \in SpaceEntries BY DEF SpaceInv, SpaceTypeInv
  <2>2. w.journal \in Nat /\ w.state \in Nat /\ v.journal \in Nat /\ v.state \in Nat BY <2>1 DEF SpaceEntries
  <2>3. SpaceKnown(w.journal, w.state) /\ SpaceKnown(v.journal, v.state) BY <1>1 DEF SpaceKnown
  <2> QED BY <2>2, <2>3 DEF SpaceInv, SpacePairInv
<1> QED BY <1>1 DEF SpaceInv, SpaceWriteInv, Space!NamespacesStayApart

\* However provisioning is repeated, cut off and raced, every handle stays within its
\* namespace, for any configurations, any streams found at the start, any actors and
\* any operations.
THEOREM NamespacesApart == Space!Spec => []NamespacesStayApart
<1>1. SpaceInv /\ [Space!Next]_(Space!vars) => SpaceInv'
  <2> SUFFICES ASSUME SpaceInv, [Space!Next]_(Space!vars) PROVE SpaceInv'
    OBVIOUS
  <2>1. CASE UNCHANGED Space!vars
    BY <2>1, SpaceRestStep DEF Space!vars
  <2>2. ASSUME NEW a \in Actors,
               \/ \E c \in Configs : Space!Provision(a, c) \/ Space!Update(a, c) \/ Space!Connect(a, c)
               \/ \E op \in Operations : Space!Lookup(a, op) \/ \E k \in {"events", "outcome", "import"} : Space!Write(a, k, op)
        PROVE  SpaceInv'
    BY <2>2, SpaceBeginSteps DEF SpaceKinds
  <2>3. ASSUME NEW a \in Actors, Space!Step(a) PROVE SpaceInv'
    BY <2>3, SpaceFindSteps, SpaceCreateStreamStep, SpaceCreateStateStep, SpaceCreateJournalStep, SpaceBindStep,
        SpaceLookStep, SpaceOpenSteps,
       SpaceCheckStep, SpaceCheckStateStep, SpacePublishStep, SpaceLookupSteps DEF Space!Step
  <2>4. ASSUME NEW a \in Actors, Space!Disconnect(a) \/ Space!Crash(a) PROVE SpaceInv'
    BY <2>4, SpaceLeaveSteps
  <2>5. ASSUME NEW n \in Space!Names, Space!Delete(n) PROVE SpaceInv'
    BY <2>5, SpaceDeleteStep
  <2> QED BY <2>1, <2>2, <2>3, <2>4, <2>5 DEF Space!Next
<1>2. SpaceInv => NamespacesStayApart BY SpaceApart DEF NamespacesStayApart
<1> QED BY SpaceInit, <1>1, <1>2, PTL DEF Space!Spec

-----------------------------------------------------------------------------
(* The observer: the inductive invariant. *)

WatchMessages == [stream : Streams, gen : Nat, number : Nat]
WatchTasks ==
    {Watch!Off} \cup [pc : {"select"}, aborted : BOOLEAN]
          \cup [pc : {"check", "handle"}, aborted : BOOLEAN, message : WatchMessages]

WatchTypeInv ==
    /\ stored \in [Streams -> Seq(Nat)]
    /\ task \in WatchTasks
    /\ cons \in [Streams -> [gen : Nat, next : Nat]]
    /\ held \in BOOLEAN
    /\ since \in [Streams -> Nat]
    /\ \A f \in Streams : Watch!Gen(f) # 0 /\ since[f] <= Watch!Gen(f) /\ cons[f].gen <= Watch!Gen(f)

WatchInHand == task.pc \in {"check", "handle"}

\* While streams are replaced nothing is collected, the task that watched them is
\* gone or nobody holds it, and the one that follows watches the new streams only.
WatchResetInv ==
    /\ reset # "idle" => collecting # "collecting"
    /\ reset = "provision" => Watch!Stopped
    /\ reset = "finish" =>
          /\ \A f \in Streams : cons[f].gen = Watch!Gen(f)
          /\ WatchInHand => task.message.gen = Watch!Gen(task.message.stream)

\* While messages are collected the task watches nothing older than the last reset left.
WatchCollectInv ==
    collecting = "collecting" =>
        /\ \A f \in Streams : since[f] <= cons[f].gen
        /\ WatchInHand => since[task.message.stream] <= task.message.gen

WatchInv == WatchTypeInv /\ WatchResetInv /\ WatchCollectInv /\ late \subseteq loose /\ Watch!NothingFromBefore

LEMMA WatchInit == Watch!Init => WatchInv
<1> SUFFICES ASSUME Watch!Init PROVE WatchInv OBVIOUS
<1>1. \A f \in Streams : stored[f] = <<0>> /\ Watch!Gen(f) = 1 BY DEF Watch!Init, Watch!Gen
<1>2. WatchTypeInv
  <2>1. stored \in [Streams -> Seq(Nat)] BY DEF Watch!Init
  <2>2. task \in WatchTasks /\ cons \in [Streams -> [gen : Nat, next : Nat]] /\ since \in [Streams -> Nat]
    BY DEF Watch!Init, WatchTasks
  <2>3. \A f \in Streams : since[f] = 1 /\ cons[f].gen = 1 BY DEF Watch!Init
  <2>4. held \in BOOLEAN BY DEF Watch!Init
  <2>5. \A f \in Streams : Watch!Gen(f) # 0 /\ since[f] <= Watch!Gen(f) /\ cons[f].gen <= Watch!Gen(f) BY <1>1, <2>3
  <2> QED BY <2>1, <2>2, <2>4, <2>5 DEF WatchTypeInv
<1> QED BY <1>1, <1>2 DEF Watch!Init, WatchInv, WatchResetInv, WatchCollectInv, WatchInHand, Watch!Off,
    Watch!NothingFromBefore

\* Steps that only stop, or leave alone, what the task does.
LEMMA WatchQuietStep ==
    ASSUME WatchInv, stored' = stored, cons' = cons, since' = since, held' \in BOOLEAN, late' \subseteq late, loose' = loose,
           task' \in WatchTasks, task' = task \/ task'.pc \in {"off", "select"} \/ (task'.pc = task.pc /\ task'.message = task.message),
           \/ reset' = reset /\ collecting' = collecting /\ (held' => held) /\ (task = Watch!Off => task' = Watch!Off)
           \/ reset' \in {"idle", "stop", "wait"} /\ collecting' # "collecting",
           \A m \in window' : m \in window \/ collecting # "collecting" \/ m \in late \/ (WatchInHand /\ m = task.message)
    PROVE  WatchInv'
<1>1. WatchTypeInv' BY DEF WatchInv, WatchTypeInv, Watch!Gen
<1>2. WatchInHand' => WatchInHand /\ task'.message = task.message
  BY DEF WatchInHand
<1>3. WatchResetInv' BY <1>2 DEF WatchInv, WatchResetInv, Watch!Stopped, Watch!Gen
<1>4. WatchCollectInv' BY <1>2 DEF WatchInv, WatchCollectInv
<1>5. Watch!NothingFromBefore' BY DEF WatchInv, WatchCollectInv, Watch!NothingFromBefore
<1> QED BY <1>1, <1>3, <1>4, <1>5 DEF WatchInv

\* The streams grow, or are recreated.
LEMMA WatchStreamsStep ==
    ASSUME WatchInv, stored' \in [Streams -> Seq(Nat)], \A f \in Streams : Watch!Gen(f) <= Watch!Gen(f)',
           reset = "finish" => \A f \in Streams : Watch!Gen(f)' = Watch!Gen(f),
           UNCHANGED <<task, cons, since, held, late, loose, collecting, window>>,
           reset' = reset \/ (reset' = "provision" /\ Watch!Stopped /\ reset # "idle")
    PROVE  WatchInv'
<1>1. \A f \in Streams : Watch!Gen(f) \in Nat /\ Watch!Gen(f)' \in Nat BY DEF WatchInv, WatchTypeInv, Watch!Gen
<1>2. WatchTypeInv'
  <2>1. \A f \in Streams : Watch!Gen(f)' # 0 /\ since[f] <= Watch!Gen(f)' /\ cons[f].gen <= Watch!Gen(f)'
    BY <1>1 DEF WatchInv, WatchTypeInv
  <2> QED BY <2>1 DEF WatchInv, WatchTypeInv
<1>3. WatchResetInv'
  <2>1. reset' = "finish" /\ WatchInHand => task.message.stream \in Streams
    BY DEF WatchInv, WatchTypeInv, WatchTasks, WatchInHand, Watch!Off, WatchMessages
  <2>2. reset' = "finish" => reset = "finish" OBVIOUS
  <2>3. reset' = "finish" /\ WatchInHand => Watch!Gen(task.message.stream)' = Watch!Gen(task.message.stream)
    BY <2>1, <2>2
  <2> QED BY <2>2, <2>3 DEF WatchInv, WatchResetInv, Watch!Stopped, WatchInHand, Watch!Gen
<1>4. WatchCollectInv' /\ Watch!NothingFromBefore'
  BY DEF WatchInv, WatchCollectInv, Watch!NothingFromBefore, WatchInHand
<1> QED BY <1>2, <1>3, <1>4 DEF WatchInv

LEMMA WatchCreateFacts ==
    ASSUME WatchInv, NEW f \in Streams, Watch!Create(f)
    PROVE  stored' \in [Streams -> Seq(Nat)] /\ \A k \in Streams : Watch!Gen(k) <= Watch!Gen(k)'
<1>1. stored[f] \in Seq(Nat) BY DEF WatchInv, WatchTypeInv
<1>2. Append(stored[f], 0) \in Seq(Nat) /\ Len(Append(stored[f], 0)) = Len(stored[f]) + 1 BY <1>1
<1>3. stored' = [stored EXCEPT ![f] = Append(stored[f], 0)] BY DEF Watch!Create
<1>4. stored' \in [Streams -> Seq(Nat)] BY <1>2, <1>3 DEF WatchInv, WatchTypeInv
<1>5. \A k \in Streams : Len(stored[k]) <= Len(stored'[k])
  <2> SUFFICES ASSUME NEW k \in Streams PROVE Len(stored[k]) <= Len(stored'[k]) OBVIOUS
  <2>1. Len(stored[k]) \in Nat BY DEF WatchInv, WatchTypeInv
  <2> QED BY <1>1, <1>2, <1>3, <2>1 DEF WatchInv, WatchTypeInv
<1> QED BY <1>4, <1>5 DEF Watch!Gen

LEMMA WatchBrokerSteps ==
    ASSUME WatchInv, NEW f \in Streams,
           Watch!Publish(f) \/ Watch!Outside(f) \/ Watch!ResetDeletes(f) \/ Watch!ResetProvisions(f)
    PROVE  WatchInv'
<1>1. CASE Watch!Publish(f)
  <2>1. PICK n \in 1..Len(stored[f]) : n = Watch!Gen(f)
    <3>1. Len(stored[f]) \in Nat /\ Len(stored[f]) # 0 BY DEF WatchInv, WatchTypeInv, Watch!Gen
    <3> QED BY <3>1 DEF Watch!Gen
  <2>2. stored[f] \in Seq(Nat) /\ stored[f][n] \in Nat BY DEF WatchInv, WatchTypeInv
  <2>3. PICK q : q = [stored[f] EXCEPT ![n] = stored[f][n] + 1] OBVIOUS
  <2>4. q \in Seq(Nat) /\ Len(q) = Len(stored[f])
    <3>1. stored[f][n] + 1 \in Nat BY <2>2
    <3> QED BY <2>2, <2>3, <3>1, ExceptSeq
  <2>5. stored' = [stored EXCEPT ![f] = q] BY <1>1, <2>1, <2>3 DEF Watch!Publish, WatchInv, WatchTypeInv
  <2>6. stored' \in [Streams -> Seq(Nat)] BY <2>4, <2>5 DEF WatchInv, WatchTypeInv
  <2>7. \A k \in Streams : Len(stored'[k]) = Len(stored[k]) /\ Len(stored[k]) \in Nat
    BY <2>4, <2>5 DEF WatchInv, WatchTypeInv
  <2> QED BY <1>1, <2>6, <2>7, WatchStreamsStep DEF Watch!Publish, Watch!observer, Watch!feed, Watch!Gen
<1>2. CASE Watch!Outside(f) /\ Watch!Delete(f)
  BY <1>2, WatchQuietStep DEF Watch!Outside, Watch!Delete, Watch!observer, Watch!feed, WatchInv, WatchTypeInv
<1>3. CASE Watch!Outside(f) /\ Watch!Create(f)
  BY <1>3, WatchCreateFacts, WatchStreamsStep DEF Watch!Outside, Watch!observer, Watch!feed
<1>4. CASE Watch!ResetDeletes(f)
  BY <1>4, WatchQuietStep DEF Watch!ResetDeletes, Watch!Delete, Watch!observer, Watch!feed, WatchInv, WatchTypeInv
<1>5. CASE Watch!ResetProvisions(f)
  BY <1>5, WatchCreateFacts, WatchStreamsStep DEF Watch!ResetProvisions, Watch!observer, Watch!feed
<1> QED BY <1>1, <1>2, <1>3, <1>4, <1>5 DEF Watch!Outside

\* The task watches what there is now.
LEMMA WatchSubscribedFacts ==
    ASSUME WatchInv, Watch!Subscribed
    PROVE  /\ task' \in WatchTasks /\ ~WatchInHand' /\ task' # Watch!Off /\ held' = TRUE
           /\ cons' \in [Streams -> [gen : Nat, next : Nat]]
           /\ \A f \in Streams : cons'[f].gen = Watch!Gen(f)
<1>1. task' = [pc |-> "select", aborted |-> FALSE] BY DEF Watch!Subscribed
<1>2. task' \in WatchTasks /\ ~WatchInHand' /\ task' # Watch!Off BY <1>1 DEF WatchTasks, WatchInHand, Watch!Off
<1>3. \A f \in Streams : Watch!Gen(f) \in Nat /\ Watch!Length(f) + 1 \in Nat
  <2> SUFFICES ASSUME NEW f \in Streams PROVE Watch!Gen(f) \in Nat /\ Watch!Length(f) + 1 \in Nat OBVIOUS
  <2>1. stored[f] \in Seq(Nat) /\ Len(stored[f]) # 0 BY DEF WatchInv, WatchTypeInv, Watch!Gen
  <2>2. stored[f][Len(stored[f])] \in Nat BY <2>1
  <2> QED BY <2>1, <2>2 DEF Watch!Gen, Watch!Length
<1>4. cons' = [f \in Streams |-> [gen |-> Watch!Gen(f), next |-> Watch!Length(f) + 1]] BY DEF Watch!Subscribed
<1> QED BY <1>2, <1>3, <1>4 DEF Watch!Subscribed

LEMMA WatchSubscribeSteps == ASSUME WatchInv, Watch!Start \/ Watch!ResetObserves PROVE WatchInv'
<1>1. UNCHANGED <<stored, since, collecting, window>> /\ Watch!Subscribed
  BY DEF Watch!Start, Watch!ResetObserves, Watch!broker, Watch!feed
<1>2. \A f \in Streams : Watch!Gen(f)' = Watch!Gen(f) /\ Watch!Gen(f) \in Nat
  BY <1>1 DEF Watch!Gen, WatchInv, WatchTypeInv
<1>3. WatchTypeInv'
  <2>1. \A f \in Streams : Watch!Gen(f) # 0 /\ since[f] <= Watch!Gen(f) BY DEF WatchInv, WatchTypeInv
  <2>2. \A f \in Streams : cons'[f].gen = Watch!Gen(f) BY <1>1, WatchSubscribedFacts
  <2>3. \A f \in Streams : Watch!Gen(f)' # 0 /\ since'[f] <= Watch!Gen(f)' /\ cons'[f].gen <= Watch!Gen(f)'
    <3> SUFFICES ASSUME NEW f \in Streams
                 PROVE  Watch!Gen(f)' # 0 /\ since'[f] <= Watch!Gen(f)' /\ cons'[f].gen <= Watch!Gen(f)'
      OBVIOUS
    <3>1. Watch!Gen(f)' = Watch!Gen(f) /\ since' = since /\ Watch!Gen(f) \in Nat /\ cons'[f].gen = Watch!Gen(f)
      BY <1>1, <1>2, <2>2
    <3>2. Watch!Gen(f) # 0 /\ since[f] <= Watch!Gen(f) /\ Watch!Gen(f) <= Watch!Gen(f) BY <2>1, <3>1
    <3> QED BY <3>1, <3>2
  <2>4. stored' = stored /\ since' = since /\ task' \in WatchTasks /\ held' \in BOOLEAN
        /\ cons' \in [Streams -> [gen : Nat, next : Nat]]
    BY <1>1, WatchSubscribedFacts
  <2> QED BY <2>3, <2>4 DEF WatchInv, WatchTypeInv
<1>4. late' \subseteq loose'
  <2>1. CASE Watch!Start BY <2>1 DEF Watch!Start, WatchInv
  <2>2. CASE Watch!ResetObserves
    <3>1. held => task.pc # "handle"
      BY <2>2 DEF Watch!ResetObserves, WatchInv, WatchResetInv, Watch!Stopped, Watch!Off
    <3> QED BY <2>2, <3>1 DEF Watch!ResetObserves, WatchInv
  <2> QED BY <2>1, <2>2
<1>5. WatchResetInv'
  <2>1. CASE Watch!Start BY <1>1, <2>1 DEF Watch!Start, WatchResetInv
  <2>2. CASE Watch!ResetObserves
    BY <1>1, <1>2, <2>2, WatchSubscribedFacts DEF Watch!ResetObserves, WatchInv, WatchResetInv
  <2> QED BY <2>1, <2>2
<1>6. WatchCollectInv' BY <1>1, WatchSubscribedFacts DEF WatchInv, WatchTypeInv, WatchCollectInv
<1>7. Watch!NothingFromBefore'
  <2>1. loose \subseteq loose' BY DEF Watch!Start, Watch!ResetObserves
  <2> QED BY <1>1, <2>1 DEF WatchInv, Watch!NothingFromBefore
<1> QED BY <1>3, <1>4, <1>5, <1>6, <1>7 DEF WatchInv

\* The consumers move on within what there is, and the task has a message of theirs or none.
LEMMA WatchConsumerStep ==
    ASSUME WatchInv, UNCHANGED <<stored, since, held, late, loose, reset, collecting, window>>,
           cons' \in [Streams -> [gen : Nat, next : Nat]],
           \A f \in Streams : cons[f].gen <= cons'[f].gen /\ cons'[f].gen <= Watch!Gen(f),
           task' \in WatchTasks, task # Watch!Off,
           WatchInHand' => \/ WatchInHand /\ task'.message = task.message
                           \/ cons[task'.message.stream].gen <= task'.message.gen
                              /\ task'.message.gen <= Watch!Gen(task'.message.stream)
    PROVE  WatchInv'
<1>1. \A f \in Streams : Watch!Gen(f)' = Watch!Gen(f) /\ Watch!Gen(f) \in Nat /\ cons[f].gen \in Nat /\ cons'[f].gen \in Nat /\ since[f] \in Nat
  BY DEF Watch!Gen, WatchInv, WatchTypeInv
<1>2. WatchTypeInv' BY <1>1 DEF WatchInv, WatchTypeInv
<1>3. WatchInHand' => task'.message.stream \in Streams /\ task'.message.gen \in Nat
  BY DEF WatchTasks, WatchInHand, Watch!Off, WatchMessages
<1>4. WatchResetInv'
  <2>1. reset = "provision" => Watch!Stopped' BY DEF WatchInv, WatchResetInv, Watch!Stopped
  <2>2. ASSUME reset = "finish" PROVE \A f \in Streams : cons'[f].gen = Watch!Gen(f)
    BY <1>1, <2>2 DEF WatchInv, WatchResetInv
  <2>3. ASSUME reset = "finish", WatchInHand' PROVE task'.message.gen = Watch!Gen(task'.message.stream)
    BY <1>1, <1>3, <2>3 DEF WatchInv, WatchResetInv
  <2>4. ASSUME reset = "finish", WatchInHand' PROVE Watch!Gen(task.message.stream)' = Watch!Gen(task'.message.stream)
    BY DEF Watch!Gen
  <2> QED BY <1>1, <2>1, <2>2, <2>3, <2>4 DEF WatchInv, WatchResetInv
<1>5. WatchCollectInv'
  <2>1. ASSUME collecting = "collecting" PROVE \A f \in Streams : since[f] <= cons'[f].gen
    BY <1>1, <2>1 DEF WatchInv, WatchCollectInv
  <2>2. ASSUME collecting = "collecting", WatchInHand' PROVE since[task'.message.stream] <= task'.message.gen
    <3>1. \A f \in Streams : since[f] <= cons[f].gen BY <2>2 DEF WatchInv, WatchCollectInv
    <3>2. WatchInHand => since[task.message.stream] <= task.message.gen BY <2>2 DEF WatchInv, WatchCollectInv
    <3>3. PICK m \in WatchMessages : m = task'.message BY <2>2 DEF WatchInHand, WatchTasks, Watch!Off
    <3>4. m.stream \in Streams /\ m.gen \in Nat BY <3>3 DEF WatchMessages
    <3>5. CASE m = task.message /\ WatchInHand BY <3>2, <3>3, <3>5
    <3>6. CASE cons[m.stream].gen <= m.gen BY <1>1, <3>1, <3>3, <3>4, <3>6
    <3> QED BY <2>2, <3>3, <3>5, <3>6
  <2> QED BY <2>1, <2>2 DEF WatchCollectInv
<1>6. Watch!NothingFromBefore' BY DEF WatchInv, Watch!NothingFromBefore
<1> QED BY <1>2, <1>4, <1>5, <1>6 DEF WatchInv

LEMMA WatchTakeStep == ASSUME WatchInv, NEW f \in Streams, Watch!Take(f) PROVE WatchInv'
<1>1. UNCHANGED <<stored, since, held, late, loose, reset, collecting, window>>
  BY DEF Watch!Take, Watch!broker, Watch!tasks, Watch!feed
<1>2. PICK m \in Watch!Yields(f) : /\ task' = [pc |-> "check", aborted |-> FALSE, message |-> m]
                                   /\ cons' = IF m.gen = cons[f].gen THEN [cons EXCEPT ![f].next = @ + 1] ELSE cons
  BY DEF Watch!Take
<1>3. /\ stored[f] \in Seq(Nat) /\ Watch!Gen(f) \in Nat /\ Watch!Gen(f) # 0 /\ cons[f] \in [gen : Nat, next : Nat]
      /\ cons[f].gen <= Watch!Gen(f)
  BY DEF WatchInv, WatchTypeInv, Watch!Gen
<1>4. Watch!Length(f) \in Nat BY <1>3 DEF Watch!Length, Watch!Gen
<1>5. m \in WatchMessages /\ m.stream = f /\ cons[f].gen <= m.gen /\ m.gen <= Watch!Gen(f)
  <2>1. CASE m = Watch!Message(f, cons[f].gen, cons[f].next)
    BY <1>3, <2>1 DEF Watch!Message, WatchMessages
  <2>2. ASSUME NEW n \in cons[f].next..Watch!Length(f), m = Watch!Message(f, Watch!Gen(f), n) PROVE m \in WatchMessages /\ m.stream = f /\ m.gen = Watch!Gen(f)
    <3>1. n \in Nat BY <1>3, <1>4
    <3> QED BY <1>3, <2>2, <3>1 DEF Watch!Message, WatchMessages
  <2> QED BY <1>2, <1>3, <2>1, <2>2 DEF Watch!Yields
<1>6. task' \in WatchTasks /\ task'.message = m BY <1>2, <1>5 DEF WatchTasks
<1>7. task # Watch!Off BY DEF Watch!Take, Watch!Off
<1>8. cons' \in [Streams -> [gen : Nat, next : Nat]] /\ \A k \in Streams : cons'[k].gen = cons[k].gen
  BY <1>2, <1>3 DEF WatchInv, WatchTypeInv
<1>9. \A k \in Streams : cons[k].gen \in Nat /\ cons[k].gen <= Watch!Gen(k) BY DEF WatchInv, WatchTypeInv
<1> QED BY <1>1, <1>5, <1>6, <1>7, <1>8, <1>9, WatchConsumerStep

LEMMA WatchRefreshedFacts ==
    ASSUME WatchInv, NEW f \in Streams
    PROVE  Watch!Refreshed(f) \in [gen : Nat, next : Nat] /\ cons[f].gen <= Watch!Refreshed(f).gen /\ Watch!Refreshed(f).gen <= Watch!Gen(f)
<1>1. Watch!Gen(f) \in Nat /\ cons[f] \in [gen : Nat, next : Nat] /\ cons[f].gen <= Watch!Gen(f)
  BY DEF WatchInv, WatchTypeInv, Watch!Gen
<1> QED BY <1>1 DEF Watch!Refreshed

LEMMA WatchWatchSteps == ASSUME WatchInv, Watch!Check \/ Watch!Poll PROVE WatchInv'
<1>1. UNCHANGED <<stored, since, held, late, loose, reset, collecting, window>>
  BY DEF Watch!Check, Watch!Poll, Watch!broker, Watch!tasks, Watch!feed
<1>2. task # Watch!Off BY DEF Watch!Check, Watch!Poll, Watch!Off
<1>3. cons' \in [Streams -> [gen : Nat, next : Nat]] /\ \A f \in Streams : cons'[f] \in {cons[f], Watch!Refreshed(f)}
  <2>1. CASE Watch!Check
    <3>1. PICK f : f = task.message.stream OBVIOUS
    <3>2. f \in Streams BY <2>1, <3>1 DEF Watch!Check, WatchInv, WatchTypeInv, WatchTasks, Watch!Off, WatchMessages
    <3>3. cons' = cons \/ cons' = [cons EXCEPT ![f] = Watch!Refreshed(f)] BY <2>1, <3>1 DEF Watch!Check
    <3> QED BY <3>2, <3>3, WatchRefreshedFacts DEF WatchInv, WatchTypeInv
  <2>2. CASE Watch!Poll
    <3>1. cons' = [f \in Streams |-> IF Watch!Reached(f) THEN Watch!Refreshed(f) ELSE cons[f]]
      BY <2>2 DEF Watch!Poll
    <3> QED BY <3>1, WatchRefreshedFacts DEF WatchInv, WatchTypeInv
  <2> QED BY <2>1, <2>2
<1>4. \A f \in Streams : cons[f].gen <= cons'[f].gen /\ cons'[f].gen <= Watch!Gen(f)
  <2>1. \A f \in Streams : cons[f].gen \in Nat /\ cons[f].gen <= Watch!Gen(f) BY DEF WatchInv, WatchTypeInv
  <2> QED BY <1>3, <2>1, WatchRefreshedFacts
<1>5. task' \in WatchTasks /\ (WatchInHand' => WatchInHand /\ task'.message = task.message)
  <2>1. CASE Watch!Poll BY <2>1 DEF Watch!Poll, WatchInv, WatchTypeInv, WatchInHand
  <2>2. CASE Watch!Check
    <3>1. task \in [pc : {"check", "handle"}, aborted : BOOLEAN, message : WatchMessages] /\ task.pc = "check"
      BY <2>2 DEF Watch!Check, WatchInv, WatchTypeInv, WatchTasks, Watch!Off
    <3>2. CASE task' = task BY <3>1, <3>2 DEF WatchTasks, WatchInHand
    <3>3. CASE task' = [task EXCEPT !.pc = "handle"]
      <4>1. task' \in [pc : {"check", "handle"}, aborted : BOOLEAN, message : WatchMessages] BY <3>1, <3>3
      <4>2. task'.message = task.message BY <3>1, <3>3
      <4> QED BY <3>1, <4>1, <4>2 DEF WatchTasks, WatchInHand
    <3>4. CASE task' = [pc |-> "select", aborted |-> FALSE] BY <3>4 DEF WatchTasks, WatchInHand
    <3> QED BY <2>2, <3>2, <3>3, <3>4 DEF Watch!Check
  <2> QED BY <2>1, <2>2
<1> QED BY <1>1, <1>2, <1>3, <1>4, <1>5, WatchConsumerStep

LEMMA WatchTaskSteps ==
    ASSUME WatchInv, (\E f \in Streams : Watch!TakeFails(f)) \/ Watch!Handle \/ Watch!TaskEnds \/ Watch!LateHandle \/ Watch!Outage \/ Watch!Recover
    PROVE  WatchInv'
<1>1. CASE \E f \in Streams : Watch!TakeFails(f)
  BY <1>1, WatchQuietStep DEF Watch!TakeFails, Watch!broker, Watch!tasks, Watch!feed, WatchInv, WatchTypeInv
<1>2. CASE Watch!Handle
  <2>1. task \in [pc : {"check", "handle"}, aborted : BOOLEAN, message : WatchMessages] /\ task.pc = "handle"
    BY <1>2 DEF Watch!Handle, WatchInv, WatchTypeInv, WatchTasks, Watch!Off
  <2>2. task' \in WatchTasks /\ task'.pc = "select" /\ WatchInHand /\ task # Watch!Off
    BY <1>2, <2>1 DEF Watch!Handle, WatchTasks, WatchInHand, Watch!Off
  <2> QED BY <1>2, <2>2, WatchQuietStep DEF Watch!Handle, Watch!broker, Watch!tasks, WatchInv, WatchTypeInv
<1>3. CASE Watch!TaskEnds
  <2>1. task' \in WatchTasks /\ task'.pc = "off" BY <1>3 DEF Watch!TaskEnds, WatchTasks, Watch!Off
  <2> QED BY <1>3, <2>1, WatchQuietStep DEF Watch!TaskEnds, Watch!broker, Watch!tasks, Watch!feed, WatchInv,
      WatchTypeInv
<1>4. CASE Watch!LateHandle
  BY <1>4, WatchQuietStep DEF Watch!LateHandle, Watch!broker, WatchInv, WatchTypeInv
<1>5. CASE Watch!Outage \/ Watch!Recover
  BY <1>5, WatchQuietStep DEF Watch!Outage, Watch!Recover, Watch!observer, Watch!feed, WatchInv, WatchTypeInv
<1> QED BY <1>1, <1>2, <1>3, <1>4, <1>5

LEMMA WatchResetSteps ==
    ASSUME WatchInv, Watch!ResetStarts \/ Watch!ResetAborts \/ Watch!ResetSucceeds \/ Watch!ResetFails
    PROVE  WatchInv'
<1>1. CASE Watch!ResetStarts
  BY <1>1, WatchQuietStep DEF Watch!ResetStarts, Watch!broker, Watch!observer, WatchInv, WatchTypeInv
<1>2. CASE Watch!ResetAborts
  <2>1. task' \in WatchTasks /\ (task' = task \/ task'.pc = "select" \/ (task'.pc = task.pc /\ task'.message = task.message))
    BY <1>2 DEF Watch!ResetAborts, WatchInv, WatchTypeInv, WatchTasks, Watch!Off
  <2>2. collecting' # "collecting" BY <1>2 DEF Watch!ResetAborts, Watch!feed, WatchInv, WatchResetInv
  <2> QED BY <1>2, <2>1, <2>2, WatchQuietStep DEF Watch!ResetAborts, Watch!broker, Watch!tasks, Watch!feed,
      WatchInv, WatchTypeInv
<1>3. CASE Watch!ResetFails
  BY <1>3, WatchQuietStep DEF Watch!ResetFails, Watch!broker, WatchInv, WatchTypeInv
<1>4. CASE Watch!ResetSucceeds
  <2>1. UNCHANGED <<stored, task, cons, held, late, loose>> /\ reset = "finish" /\ reset' = "idle" /\ window' = {}
    BY <1>4 DEF Watch!ResetSucceeds, Watch!broker, Watch!observer
  <2>2. since' = [f \in Streams |-> Watch!Gen(f)] BY <1>4 DEF Watch!ResetSucceeds
  <2>3. \A f \in Streams : Watch!Gen(f)' = Watch!Gen(f) /\ Watch!Gen(f) \in Nat /\ cons[f].gen = Watch!Gen(f)
    BY <2>1 DEF Watch!Gen, WatchInv, WatchTypeInv, WatchResetInv
  <2>4. WatchTypeInv' BY <2>1, <2>2, <2>3 DEF WatchInv, WatchTypeInv
  <2>5. WatchInHand => task.message.stream \in Streams
    BY DEF WatchInv, WatchTypeInv, WatchTasks, WatchInHand, Watch!Off, WatchMessages
  <2>6. WatchCollectInv' BY <2>1, <2>2, <2>3, <2>5 DEF WatchInv, WatchResetInv, WatchCollectInv, WatchInHand
  <2>7. WatchResetInv' BY <2>1 DEF WatchResetInv
  <2>8. Watch!NothingFromBefore' BY <2>1 DEF Watch!NothingFromBefore
  <2> QED BY <2>1, <2>4, <2>6, <2>7, <2>8 DEF WatchInv
<1> QED BY <1>1, <1>2, <1>3, <1>4

\* After a reset the window holds nothing of the streams that were deleted, except what
\* an aborted task had in hand, for any streams and any interleaving of the collecting
\* task, subscriptions, resets and the broker.
THEOREM NothingOlder == Watch!Spec => []NothingFromBefore
<1>1. WatchInv /\ [Watch!Next]_(Watch!vars) => WatchInv'
  <2> SUFFICES ASSUME WatchInv, [Watch!Next]_(Watch!vars) PROVE WatchInv'
    OBVIOUS
  <2>1. CASE UNCHANGED Watch!vars
    BY <2>1, WatchQuietStep DEF Watch!vars, WatchInv, WatchTypeInv
  <2>2. CASE Watch!Next
    BY <2>2, WatchBrokerSteps, WatchSubscribeSteps, WatchTakeStep, WatchWatchSteps, WatchTaskSteps,
        WatchResetSteps DEF Watch!Next
  <2> QED BY <2>1, <2>2
<1>2. WatchInv => NothingFromBefore BY DEF WatchInv, NothingFromBefore
<1> QED BY WatchInit, <1>1, <1>2, PTL DEF Watch!Spec

-----------------------------------------------------------------------------
(* The quarantine: the inductive invariant. *)

InspectIds == [gen : Nat, number : Nat]
InspectEntries == {Inspect!Entry(id, r) : id \in InspectIds, r \in Records}
InspectShows == {[entry |-> e, summary |-> Inspect!Summary(e)] : e \in InspectEntries}
InspectCursors == [gen : Nat, next : Nat, last : Nat, filter : Filters]

\* The fields a request has.
InspectResting(x) == x = [pc |-> "idle", answer |-> x.answer, cursor |-> x.cursor, details |-> x.details]
InspectListing(x) == x = [pc |-> x.pc, op |-> "list", filter |-> x.filter, cursor |-> x.cursor, details |-> x.details]
InspectGetting(x) == x = [pc |-> x.pc, op |-> "get", id |-> x.id, cursor |-> x.cursor, details |-> x.details]
InspectReads(x) ==
    x = [pc |-> x.pc, op |-> "list", filter |-> x.filter, cursor |-> x.cursor, items |-> x.items, bytes |-> x.bytes,
         finished |-> x.finished, details |-> x.details]
InspectFetched(x) ==
    x = [pc |-> x.pc, op |-> "get", id |-> x.id, cursor |-> x.cursor, details |-> x.details, items |-> x.items]

InspectForm(x) ==
    \/ x.pc = "idle" /\ InspectResting(x)
    \/ x.pc \in {"gate", "open"} /\ x.op = "list" /\ InspectListing(x) /\ x.filter \in Filters
    \/ x.pc \in {"gate", "open", "fetch", "failing"} /\ x.op = "get" /\ InspectGetting(x)
    \/ x.pc \in {"read", "verify", "failing"} /\ x.op = "list" /\ InspectReads(x) /\ x.items \in Seq(InspectEntries) /\ x.cursor # Inspect!None
    \/ x.pc = "verify" /\ x.op = "get" /\ InspectFetched(x)

InspectTypeInv ==
    /\ records \in Seq(Seq(Records)) /\ Inspect!Gen # 0
    /\ DOMAIN req = Clients /\ \A c \in Clients : InspectForm(req[c]) /\ req[c].cursor \in InspectCursors \cup {Inspect!None}
    /\ viewed \in [Clients -> Seq(InspectShows)]
    /\ start \in [Clients -> [gen : Nat, retained : SUBSET Nat, last : Nat, filter : Filters \cup {"all"}]]

\* The snapshot of a traversal: what it held and is not among the retained was gone.
InspectSnapshot(s) ==
    /\ s.gen \in 1..Inspect!Gen /\ s.last <= Len(records[s.gen]) /\ s.retained \subseteq 1..s.last
    /\ \A n \in 1..s.last : n \in s.retained \/ Inspect!Id(s.gen, n) \in gone

InspectWanted(s) == {n \in s.retained : Inspect!Matches(s.filter, records[s.gen][n])}

\* What was shown is wanted, in order.
InspectOrdered(s, q) ==
    /\ \A i, j \in 1..Len(q) : i < j => q[i].entry.id.number < q[j].entry.id.number
    /\ \A i \in 1..Len(q) : q[i].entry.id.gen = s.gen /\ q[i].entry.id.number \in InspectWanted(s)

InspectHas(s, q, n) == Inspect!Id(s.gen, n) \in gone \/ \E i \in 1..Len(q) : q[i].entry.id = Inspect!Id(s.gen, n)

InspectInList(x) == x.pc \in {"read", "verify"} /\ x.op = "list"

\* The link goes on where the traversal is.
InspectLinked(s, q, x) ==
    x.cursor # Inspect!None =>
        /\ x.cursor.gen = s.gen /\ x.cursor.last = s.last /\ x.cursor.filter = s.filter
        /\ ~InspectInList(x) /\ ~(x.pc = "failing" /\ x.op = "list") =>
              /\ \A i \in 1..Len(q) : q[i].entry.id.number < x.cursor.next
              /\ \A n \in InspectWanted(s) : n < x.cursor.next => InspectHas(s, q, n)

\* A page, as long as its stream is there, goes on where the traversal was.
InspectPage(s, q, x) ==
    InspectInList(x) =>
        /\ x.filter = s.filter
        /\ Inspect!Gen = s.gen =>
              /\ InspectOrdered(s, q \o Inspect!Summaries(x.items))
              /\ \A i \in 1..Len(q \o Inspect!Summaries(x.items)) : (q \o Inspect!Summaries(x.items))[i].entry.id.number < x.cursor.next
              /\ \A n \in InspectWanted(s) : n < x.cursor.next \/ x.finished => InspectHas(s, q \o Inspect!Summaries(x.items), n)

InspectWhole(s, q, x) ==
    /\ x.pc = "idle" /\ x.answer = "complete" => \A n \in InspectWanted(s) : InspectHas(s, q, n)
    /\ x.pc \in {"gate", "open"} /\ x.op = "list" /\ x.cursor = Inspect!None => q = << >>

InspectClientInv(s, q, x) == InspectSnapshot(s) /\ InspectOrdered(s, q) /\ InspectLinked(s, q, x) /\ InspectPage(s, q, x) /\ InspectWhole(s, q, x)

InspectInv == InspectTypeInv /\ \A c \in Clients : InspectClientInv(start[c], viewed[c], req[c])

LEMMA InspectMinimum ==
    ASSUME NEW S, S \subseteq Nat, S # {}
    PROVE  \E n \in S : \A k \in S : n <= k
<1>1. IsWellFoundedOn(OpToRel(<, Nat), Nat) BY NatLessThanWellFounded
<1>2. PICK n \in S : \A k \in S : ~(<<k, n>> \in OpToRel(<, Nat)) BY <1>1, WFMin
<1>3. \A k \in S : ~(k < n) BY <1>2 DEF OpToRel
<1> QED BY <1>3

\* The first record of the stream that is there.
LEMMA InspectFirstIsLeast ==
    ASSUME records \in Seq(Seq(Records)), Inspect!Gen # 0
    PROVE  Inspect!First \in Nat /\ Inspect!Last \in Nat /\ Inspect!Retained \subseteq 1..Inspect!Last /\ \A n \in Inspect!Retained : Inspect!First <= n
<1>1. Inspect!Last \in Nat BY DEF Inspect!Last, Inspect!Gen
<1>2. Inspect!Retained \subseteq 1..Inspect!Last BY DEF Inspect!Retained
<1>3. CASE Inspect!Retained = {} BY <1>1, <1>2, <1>3 DEF Inspect!First
<1>4. CASE Inspect!Retained # {}
  <2>1. PICK S : S = Inspect!Retained OBVIOUS
  <2>2. S \subseteq Nat /\ S # {} BY <1>1, <1>2, <1>4, <2>1
  <2>3. \E n \in S : \A k \in S : n <= k BY <2>2, InspectMinimum
  <2>4. Inspect!First \in S /\ \A k \in S : Inspect!First <= k BY <1>4, <2>1, <2>3 DEF Inspect!First
  <2> QED BY <1>1, <1>2, <2>1, <2>2, <2>4
<1> QED BY <1>3, <1>4

LEMMA InspectInit == Inspect!Init => InspectInv
<1> SUFFICES ASSUME Inspect!Init PROVE InspectInv OBVIOUS
<1>1. records = << << >> >> /\ << >> \in Seq(Records) BY DEF Inspect!Init
<1>2. records \in Seq(Seq(Records)) /\ Len(records) = 1 /\ records[1] = << >> BY <1>1
<1>3. \A c \in Clients : req[c] = Inspect!Idle /\ viewed[c] = << >>
                         /\ start[c] = [gen |-> 1, retained |-> {}, last |-> 0, filter |-> "all"]
  BY DEF Inspect!Init
<1>4. InspectTypeInv
  <2>1. InspectForm(Inspect!Idle) /\ Inspect!Idle.cursor = Inspect!None
    BY DEF InspectForm, Inspect!Idle, InspectResting
  <2>2. DOMAIN req = Clients BY DEF Inspect!Init
  <2>3. viewed \in [Clients -> Seq(InspectShows)] BY DEF Inspect!Init
  <2>4. start \in [Clients -> [gen : Nat, retained : SUBSET Nat, last : Nat, filter : Filters \cup {"all"}]]
    BY DEF Inspect!Init
  <2> QED BY <1>2, <1>3, <2>1, <2>2, <2>3, <2>4 DEF InspectTypeInv, Inspect!Gen
<1>5. ASSUME NEW c \in Clients PROVE InspectClientInv(start[c], viewed[c], req[c])
  <2>1. InspectSnapshot(start[c])
    <3>1. Len(records[1]) = 0 BY <1>2
    <3> QED BY <1>2, <1>3, <3>1 DEF InspectSnapshot, Inspect!Gen
  <2>2. InspectOrdered(start[c], viewed[c]) BY <1>3 DEF InspectOrdered
  <2>3. req[c].pc = "idle" /\ req[c].cursor = Inspect!None /\ req[c].answer = "none" BY <1>3 DEF Inspect!Idle
  <2>4. InspectLinked(start[c], viewed[c], req[c]) /\ InspectPage(start[c], viewed[c], req[c]) /\ InspectWhole(start[c], viewed[c], req[c])
    BY <2>3 DEF InspectLinked, InspectPage, InspectWhole, InspectInList
  <2> QED BY <2>1, <2>2, <2>4 DEF InspectClientInv
<1> QED BY <1>4, <1>5 DEF InspectInv

\* What the stream does while the requests rest: records come, go, or a new stream begins.
InspectGrows ==
    /\ records' \in Seq(Seq(Records)) /\ gone \subseteq gone'
    /\ Inspect!Gen <= Inspect!Gen'
    /\ \A g \in 1..Inspect!Gen : /\ Len(records[g]) <= Len(records'[g])
                                 /\ \A n \in 1..Len(records[g]) : records'[g][n] = records[g][n]

\* The rest of a client's traversal depends on the stream only through this.
LEMMA InspectSameTraversal ==
    ASSUME NEW s, NEW q, NEW x, InspectClientInv(s, q, x), InspectSnapshot(s)', InspectWanted(s)' = InspectWanted(s), gone \subseteq gone',
           Inspect!Gen' = s.gen => Inspect!Gen = s.gen
    PROVE  InspectClientInv(s, q, x)'
<1>1. InspectOrdered(s, q)' BY DEF InspectClientInv, InspectOrdered
<1>2. \A p, n : InspectHas(s, p, n) => InspectHas(s, p, n)' BY DEF InspectHas
<1>3. InspectLinked(s, q, x)' BY <1>2 DEF InspectClientInv, InspectLinked, InspectInList
<1>4. InspectPage(s, q, x)' BY <1>2 DEF InspectClientInv, InspectPage, InspectInList, InspectOrdered
<1>5. InspectWhole(s, q, x)' BY <1>2 DEF InspectClientInv, InspectWhole
<1> QED BY <1>1, <1>3, <1>4, <1>5 DEF InspectClientInv

LEMMA InspectStreamStep ==
    ASSUME InspectInv, InspectGrows, UNCHANGED <<req, viewed, start>>
    PROVE  InspectInv'
<1>1. Inspect!Gen \in Nat /\ Inspect!Gen' \in Nat /\ Inspect!Gen # 0
  BY DEF InspectInv, InspectTypeInv, InspectGrows, Inspect!Gen
<1>2. InspectTypeInv' BY <1>1 DEF InspectInv, InspectTypeInv, InspectGrows
<1>3. ASSUME NEW c \in Clients PROVE InspectClientInv(start[c], viewed[c], req[c])'
  <2>1. PICK s : s = start[c] OBVIOUS
  <2>2. PICK q : q = viewed[c] OBVIOUS
  <2>3. PICK x : x = req[c] OBVIOUS
  <2>4. InspectClientInv(s, q, x) BY <2>1, <2>2, <2>3 DEF InspectInv
  <2>5. InspectSnapshot(s) BY <2>4 DEF InspectClientInv
  <2>6. s.gen \in 1..Inspect!Gen /\ s.gen \in 1..Inspect!Gen' /\ s.gen \in Nat
    BY <1>1, <2>5 DEF InspectSnapshot, InspectGrows
  <2>7. s.last \in Nat /\ Len(records[s.gen]) \in Nat /\ Len(records'[s.gen]) \in Nat
    <3>1. s \in [gen : Nat, retained : SUBSET Nat, last : Nat, filter : Filters \cup {"all"}]
      BY <2>1 DEF InspectInv, InspectTypeInv
    <3>2. records[s.gen] \in Seq(Records) /\ records'[s.gen] \in Seq(Records)
      BY <2>6, SMTT(30) DEF InspectInv, InspectTypeInv, InspectGrows, Inspect!Gen
    <3> QED BY <3>1, <3>2
  <2>8. s.last <= Len(records[s.gen]) /\ Len(records[s.gen]) <= Len(records'[s.gen]) /\ s.retained \subseteq 1..s.last
    BY <2>5, <2>6 DEF InspectSnapshot, InspectGrows
  <2>9. s.last <= Len(records'[s.gen]) BY <2>7, <2>8
  <2>10. InspectSnapshot(s)' BY <2>5, <2>6, <2>8, <2>9 DEF InspectSnapshot, InspectGrows
  <2>11. \A n \in s.retained : records'[s.gen][n] = records[s.gen][n]
    <3>1. \A n \in s.retained : n \in 1..Len(records[s.gen]) BY <2>7, <2>8
    <3> QED BY <2>6, <3>1 DEF InspectGrows
  <2>12. InspectWanted(s)' = InspectWanted(s) BY <2>11 DEF InspectWanted, Inspect!Matches
  <2>13. Inspect!Gen' = s.gen => Inspect!Gen = s.gen BY <1>1, <2>6 DEF InspectGrows
  <2>14. InspectClientInv(s, q, x)' BY <2>4, <2>10, <2>12, <2>13, InspectSameTraversal DEF InspectGrows
  <2> QED BY <2>1, <2>2, <2>3, <2>14
<1> QED BY <1>2, <1>3 DEF InspectInv

LEMMA InspectStreamSteps ==
    ASSUME InspectInv,
           \/ \E r \in Records : Inspect!Quarantine(r)
           \/ \E n \in 1..MaxRecords : Inspect!Remove(n)
           \/ Inspect!Recreation \/ Inspect!ResetStarts \/ Inspect!ResetEnds
           \/ UNCHANGED Inspect!vars
    PROVE  InspectInv'
<1>1. /\ records \in Seq(Seq(Records)) /\ Inspect!Gen \in Nat /\ Inspect!Gen # 0
      /\ \A g \in 1..Inspect!Gen : records[g] \in Seq(Records) /\ Len(records[g]) \in Nat
  BY DEF InspectInv, InspectTypeInv, Inspect!Gen
<1>2. CASE \E r \in Records : Inspect!Quarantine(r)
  <2>1. PICK r \in Records : Inspect!Quarantine(r) BY <1>2
  <2>2. PICK k \in 1..Len(records) : k = Inspect!Gen BY <1>1 DEF Inspect!Gen
  <2>3. PICK a : a = Append(records[k], r) OBVIOUS
  <2>4. /\ a \in Seq(Records) /\ Len(a) = Len(records[k]) + 1
        /\ \A n \in 1..Len(records[k]) : a[n] = records[k][n]
    BY <1>1, <2>2, <2>3
  <2>5. records' = [records EXCEPT ![k] = a] BY <2>1, <2>2, <2>3 DEF Inspect!Quarantine
  <2>6. records' \in Seq(Seq(Records)) /\ Len(records') = Len(records) BY <1>1, <2>2, <2>4, <2>5, ExceptSeq
  <2>7. \A g \in 1..Len(records) : records'[g] = IF g = k THEN a ELSE records[g] BY <1>1, <2>5
  <2>8. Len(records[k]) <= Len(a) BY <1>1, <2>2, <2>4 DEF Inspect!Gen
  <2>9. InspectGrows
    <3>1. ASSUME NEW g \in 1..Len(records)
          PROVE  /\ Len(records[g]) <= Len(records'[g])
                 /\ \A n \in 1..Len(records[g]) : records'[g][n] = records[g][n]
      <4>1. CASE g = k BY <2>4, <2>7, <2>8, <4>1
      <4>2. CASE g # k
        <5>1. records'[g] = records[g] /\ Len(records[g]) \in Nat BY <1>1, <2>7, <4>2 DEF Inspect!Gen
        <5> QED BY <5>1
      <4> QED BY <4>1, <4>2
    <3>2. gone' = gone BY <2>1 DEF Inspect!Quarantine
    <3>3. Len(records) <= Len(records') BY <1>1, <2>6
    <3> QED BY <2>6, <3>1, <3>2, <3>3 DEF InspectGrows, Inspect!Gen
  <2> QED BY <2>1, <2>9, InspectStreamStep DEF Inspect!Quarantine
<1>3. CASE records' = records /\ gone \subseteq gone' /\ UNCHANGED <<req, viewed, start>>
  <2>1. InspectGrows BY <1>1, <1>3 DEF InspectGrows, Inspect!Gen
  <2> QED BY <1>3, <2>1, InspectStreamStep
<1>4. CASE Inspect!Recreation /\ Inspect!Create
  <2>1. records' = Append(records, << >>) /\ gone' = gone BY <1>4 DEF Inspect!Create
  <2>2. << >> \in Seq(Records) OBVIOUS
  <2>3. /\ records' \in Seq(Seq(Records)) /\ Len(records') = Len(records) + 1
        /\ \A g \in 1..Len(records) : records'[g] = records[g]
    BY <1>1, <2>1, <2>2
  <2>4. InspectGrows BY <1>1, <2>1, <2>3 DEF InspectGrows, Inspect!Gen
  <2> QED BY <1>4, <2>4, InspectStreamStep DEF Inspect!Recreation
<1> QED BY <1>2, <1>3, <1>4 DEF Inspect!Remove, Inspect!Recreation, Inspect!Delete, Inspect!ResetStarts,
    Inspect!ResetEnds, Inspect!vars

\* A step of one client.
LEMMA InspectClientStep ==
    ASSUME InspectInv, NEW c \in Clients, NEW s, NEW q, NEW y, UNCHANGED <<records, gone>>,
           req' = [req EXCEPT ![c] = y], viewed' = [viewed EXCEPT ![c] = q], start' = [start EXCEPT ![c] = s],
           InspectForm(y), y.cursor \in InspectCursors \cup {Inspect!None}, q \in Seq(InspectShows),
           s \in [gen : Nat, retained : SUBSET Nat, last : Nat, filter : Filters \cup {"all"}],
           InspectClientInv(s, q, y)
    PROVE  InspectInv'
<1>1. DOMAIN req = Clients /\ DOMAIN viewed = Clients /\ DOMAIN start = Clients BY DEF InspectInv, InspectTypeInv
<1>2. /\ req'[c] = y /\ viewed'[c] = q /\ start'[c] = s /\ DOMAIN req' = Clients
      /\ \A d \in Clients \ {c} : req'[d] = req[d] /\ viewed'[d] = viewed[d] /\ start'[d] = start[d]
  BY <1>1
<1>3. Inspect!Gen' = Inspect!Gen BY DEF Inspect!Gen
<1>4. InspectTypeInv'
  <2>1. \A d \in Clients : InspectForm(req'[d]) /\ req'[d].cursor \in InspectCursors \cup {Inspect!None}
    BY <1>2 DEF InspectInv, InspectTypeInv
  <2>2. /\ viewed' \in [Clients -> Seq(InspectShows)]
        /\ start' \in [Clients -> [gen : Nat, retained : SUBSET Nat, last : Nat, filter : Filters \cup {"all"}]]
    BY DEF InspectInv, InspectTypeInv
  <2> QED BY <1>2, <1>3, <2>1, <2>2 DEF InspectInv, InspectTypeInv
<1>5. \A d \in Clients : InspectClientInv(start'[d], viewed'[d], req'[d]) BY <1>2 DEF InspectInv
<1>6. ASSUME NEW s2, NEW q2, NEW y2, InspectClientInv(s2, q2, y2) PROVE InspectClientInv(s2, q2, y2)'
  <2>1. InspectSnapshot(s2)' BY <1>3, <1>6 DEF InspectClientInv, InspectSnapshot
  <2>2. InspectWanted(s2)' = InspectWanted(s2) BY DEF InspectWanted
  <2> QED BY <1>3, <1>6, <2>1, <2>2, InspectSameTraversal
<1>7. ASSUME NEW d \in Clients PROVE InspectClientInv(start[d], viewed[d], req[d])'
  <2>1. PICK s2 : s2 = start'[d] OBVIOUS
  <2>2. PICK q2 : q2 = viewed'[d] OBVIOUS
  <2>3. PICK y2 : y2 = req'[d] OBVIOUS
  <2>4. InspectClientInv(s2, q2, y2)' BY <1>5, <1>6, <2>1, <2>2, <2>3
  <2> QED BY <2>1, <2>2, <2>3, <2>4
<1> QED BY <1>4, <1>7 DEF InspectInv

\* Whether a request is within a page of a traversal, or was when it failed.
InspectPaging(x) == InspectInList(x) \/ (x.pc = "failing" /\ x.op = "list")

LEMMA InspectKeepsPlace ==
    ASSUME NEW s, NEW q, NEW x, NEW y, InspectClientInv(s, q, x),
           \/ y.cursor = Inspect!None
           \/ y.cursor = x.cursor /\ ((y.pc = "failing" /\ y.op = "list") \/ ~InspectPaging(x)),
           ~InspectInList(y), y.pc = "idle" => y.answer # "complete",
           y.pc \in {"gate", "open"} /\ y.op = "list" /\ y.cursor = Inspect!None => q = << >>
    PROVE  InspectClientInv(s, q, y)
<1>1. InspectLinked(s, q, y) BY DEF InspectClientInv, InspectLinked, InspectPaging
<1>2. InspectPage(s, q, y) BY DEF InspectPage
<1>3. InspectWhole(s, q, y) BY DEF InspectClientInv, InspectWhole
<1> QED BY <1>1, <1>2, <1>3 DEF InspectClientInv

\* A request moves on, and its traversal stays where it is.
LEMMA InspectMoveStep ==
    ASSUME InspectInv, NEW c \in Clients, NEW y, UNCHANGED <<records, gone, viewed, start>>,
           req' = [req EXCEPT ![c] = y], InspectForm(y),
           \/ y.cursor = Inspect!None
           \/ y.cursor = req[c].cursor /\ ((y.pc = "failing" /\ y.op = "list") \/ ~InspectPaging(req[c])),
           ~InspectInList(y), y.pc = "idle" => y.answer # "complete",
           y.pc \in {"gate", "open"} /\ y.op = "list" /\ y.cursor = Inspect!None => viewed[c] = << >>
    PROVE  InspectInv'
<1>1. PICK x : x = req[c] OBVIOUS
<1>2. PICK s : s = start[c] OBVIOUS
<1>3. PICK q : q = viewed[c] OBVIOUS
<1>4. InspectClientInv(s, q, x) BY <1>1, <1>2, <1>3 DEF InspectInv
<1>5. InspectClientInv(s, q, y)
  <2>1. \/ y.cursor = Inspect!None
        \/ y.cursor = x.cursor /\ ((y.pc = "failing" /\ y.op = "list") \/ ~InspectPaging(x))
    BY <1>1
  <2>2. y.pc \in {"gate", "open"} /\ y.op = "list" /\ y.cursor = Inspect!None => q = << >> BY <1>3
  <2> QED BY <1>4, <2>1, <2>2, InspectKeepsPlace
<1>6. /\ s \in [gen : Nat, retained : SUBSET Nat, last : Nat, filter : Filters \cup {"all"}] /\ q \in Seq(InspectShows)
      /\ x.cursor \in InspectCursors \cup {Inspect!None}
  BY <1>1, <1>2, <1>3 DEF InspectInv, InspectTypeInv
<1>7. viewed' = [viewed EXCEPT ![c] = q] /\ start' = [start EXCEPT ![c] = s]
  BY <1>2, <1>3 DEF InspectInv, InspectTypeInv
<1> QED BY <1>1, <1>5, <1>6, <1>7, InspectClientStep

LEMMA InspectAnswerStep ==
    ASSUME InspectInv, NEW c \in Clients, NEW a, a # "complete", Inspect!Answer(c, a), UNCHANGED <<records, gone, viewed, start>>
    PROVE  InspectInv'
<1>1. PICK y : y = [pc |-> "idle", answer |-> a, cursor |-> Inspect!None, details |-> req[c].details] OBVIOUS
<1>2. req' = [req EXCEPT ![c] = y] BY <1>1 DEF Inspect!Answer
<1>3. y.pc = "idle" /\ y.answer = a /\ y.cursor = Inspect!None /\ InspectForm(y)
  BY <1>1 DEF InspectForm, InspectResting
<1>4. ~InspectInList(y) BY <1>3 DEF InspectInList
<1> QED BY <1>2, <1>3, <1>4, InspectMoveStep

LEMMA InspectAskSteps ==
    ASSUME InspectInv, NEW c \in Clients,
           \/ \E f \in Filters : Inspect!List(c, f) \/ Inspect!Follow(c, f)
           \/ \E i \in 1..Len(viewed[c]) : Inspect!Get(c, viewed[c][i].summary.id)
    PROVE  InspectInv'
<1>1. /\ DOMAIN req = Clients /\ InspectForm(req[c]) /\ req[c].cursor \in InspectCursors \cup {Inspect!None} /\ viewed \in [Clients -> Seq(InspectShows)]
      /\ start[c] \in [gen : Nat, retained : SUBSET Nat, last : Nat, filter : Filters \cup {"all"}]
      /\ start = [start EXCEPT ![c] = start[c]]
  BY DEF InspectInv, InspectTypeInv
<1>2. req[c].pc = "idle" /\ UNCHANGED <<records, gone, start>>
  BY DEF Inspect!List, Inspect!Follow, Inspect!Get, Inspect!Ask, Inspect!broker
<1>3. InspectResting(req[c]) /\ ~InspectPaging(req[c]) BY <1>1, <1>2 DEF InspectForm, InspectPaging, InspectInList
<1>4. CASE ~Inspect!Admitted
  <2>1. PICK y : y = [req[c] EXCEPT !.answer = "capacity"] OBVIOUS
  <2>2. y.pc = "idle" /\ y.answer = "capacity" /\ y.cursor = req[c].cursor /\ InspectForm(y)
    <3>1. y = [pc |-> "idle", answer |-> "capacity", cursor |-> req[c].cursor, details |-> req[c].details]
      BY <1>3, <2>1 DEF InspectResting
    <3> QED BY <3>1 DEF InspectForm, InspectResting
  <2>3. req' = [req EXCEPT ![c] = y] /\ viewed' = viewed
    BY <1>4, <2>1 DEF Inspect!List, Inspect!Follow, Inspect!Get, Inspect!Ask
  <2>4. ~InspectInList(y) BY <2>2 DEF InspectInList
  <2> QED BY <1>2, <1>3, <2>2, <2>3, <2>4, InspectMoveStep
<1>5. CASE Inspect!Admitted /\ \E f \in Filters : Inspect!List(c, f)
  <2>1. PICK f \in Filters : Inspect!List(c, f) BY <1>5
  <2>2. PICK y : y = [pc |-> "gate", op |-> "list", filter |-> f, cursor |-> Inspect!None, details |-> req[c].details] OBVIOUS
  <2>3. req' = [req EXCEPT ![c] = y] /\ viewed' = [viewed EXCEPT ![c] = << >>]
    BY <1>5, <2>1, <2>2 DEF Inspect!List, Inspect!Ask
  <2>4. y.pc = "gate" /\ y.op = "list" /\ y.cursor = Inspect!None /\ InspectForm(y)
    BY <2>2 DEF InspectForm, InspectListing
  <2>5. PICK s : s = start[c] OBVIOUS
  <2>6. InspectSnapshot(s) BY <2>5 DEF InspectInv, InspectClientInv
  <2>7. InspectClientInv(s, << >>, y)
    BY <2>4, <2>6 DEF InspectClientInv, InspectOrdered, InspectLinked, InspectPage, InspectWhole, InspectInList
  <2>8. << >> \in Seq(InspectShows) OBVIOUS
  <2> QED BY <1>1, <1>2, <2>3, <2>4, <2>5, <2>7, <2>8, InspectClientStep
<1>6. CASE Inspect!Admitted /\ \E f \in Filters : Inspect!Follow(c, f)
  <2>1. PICK f \in Filters : Inspect!Follow(c, f) BY <1>6
  <2>2. PICK y : y = [pc |-> "gate", op |-> "list", filter |-> f, cursor |-> req[c].cursor, details |-> req[c].details] OBVIOUS
  <2>3. req' = [req EXCEPT ![c] = y] /\ viewed' = viewed /\ req[c].cursor # Inspect!None
    BY <1>6, <2>1, <2>2 DEF Inspect!Follow, Inspect!Ask
  <2>4. y.pc = "gate" /\ y.cursor = req[c].cursor /\ InspectForm(y) BY <2>2 DEF InspectForm, InspectListing
  <2>5. ~InspectInList(y) BY <2>4 DEF InspectInList
  <2> QED BY <1>2, <1>3, <2>3, <2>4, <2>5, InspectMoveStep
<1>7. CASE Inspect!Admitted /\ \E i \in 1..Len(viewed[c]) : Inspect!Get(c, viewed[c][i].summary.id)
  <2>1. PICK id : Inspect!Get(c, id) BY <1>7
  <2>2. PICK y : y = [pc |-> "gate", op |-> "get", id |-> id, cursor |-> req[c].cursor, details |-> req[c].details] OBVIOUS
  <2>3. req' = [req EXCEPT ![c] = y] /\ viewed' = viewed BY <1>7, <2>1, <2>2 DEF Inspect!Get, Inspect!Ask
  <2>4. y.pc = "gate" /\ y.op = "get" /\ y.cursor = req[c].cursor /\ InspectForm(y)
    BY <2>2 DEF InspectForm, InspectGetting
  <2>5. ~InspectInList(y) BY <2>4 DEF InspectInList
  <2> QED BY <1>2, <1>3, <2>3, <2>4, <2>5, InspectMoveStep
<1> QED BY <1>4, <1>5, <1>6, <1>7

\* Every step of a request but those that begin, extend or end a page.
LEMMA InspectRequestSteps ==
    ASSUME InspectInv, NEW c \in Clients,
           Inspect!Pass(c) \/ Inspect!ReadFails(c) \/ Inspect!Failing(c) \/ Inspect!OpenGet(c) \/ Inspect!Fetch(c) \/ Inspect!Deadline(c)
    PROVE  InspectInv'
<1>1. UNCHANGED <<records, gone, viewed, start>>
  BY DEF Inspect!Pass, Inspect!ReadFails, Inspect!Failing, Inspect!OpenGet, Inspect!Fetch, Inspect!Deadline,
      Inspect!broker
<1>2. PICK x : x = req[c] OBVIOUS
<1>3. InspectForm(x) BY <1>2 DEF InspectInv, InspectTypeInv
<1>4. ASSUME NEW y, req' = [req EXCEPT ![c] = y], InspectForm(y), y.cursor = x.cursor, y.pc # "idle", ~InspectInList(y),
             (y.pc = "failing" /\ y.op = "list") \/ ~InspectPaging(x),
             y.pc \in {"gate", "open"} => x.pc \in {"gate", "open"} /\ y.op = x.op
      PROVE  InspectInv'
  <2>1. y.pc \in {"gate", "open"} /\ y.op = "list" /\ y.cursor = Inspect!None => viewed[c] = << >>
    BY <1>2, <1>4 DEF InspectInv, InspectClientInv, InspectWhole
  <2> QED BY <1>1, <1>2, <1>4, <2>1, InspectMoveStep
<1>5. CASE Inspect!Pass(c)
  <2>1. x.pc = "gate" BY <1>2, <1>5 DEF Inspect!Pass
  <2>2. PICK y : y = [x EXCEPT !.pc = "open"] OBVIOUS
  <2>3. req' = [req EXCEPT ![c] = y] BY <1>2, <1>5, <2>2 DEF Inspect!Pass, InspectInv, InspectTypeInv
  <2>4. y.pc = "open" /\ y.cursor = x.cursor /\ y.op = x.op /\ InspectForm(y)
    <3>1. CASE InspectListing(x) /\ x.filter \in Filters
      <4>1. y = [pc |-> "open", op |-> "list", filter |-> x.filter, cursor |-> x.cursor, details |-> x.details]
            /\ x.op = "list"
        BY <2>2, <3>1 DEF InspectListing
      <4> QED BY <3>1, <4>1 DEF InspectForm, InspectListing
    <3>2. CASE InspectGetting(x)
      <4>1. y = [pc |-> "open", op |-> "get", id |-> x.id, cursor |-> x.cursor, details |-> x.details] /\ x.op = "get"
        BY <2>2, <3>2 DEF InspectGetting
      <4> QED BY <4>1 DEF InspectForm, InspectGetting
    <3> QED BY <1>3, <2>1, <3>1, <3>2 DEF InspectForm
  <2>5. ~InspectInList(y) /\ ~InspectPaging(x) BY <2>1, <2>4 DEF InspectInList, InspectPaging
  <2> QED BY <1>4, <2>1, <2>3, <2>4, <2>5
<1>6. CASE Inspect!ReadFails(c)
  <2>1. x.pc \in {"read", "fetch"} BY <1>2, <1>6 DEF Inspect!ReadFails
  <2>2. PICK y : y = [x EXCEPT !.pc = "failing"] OBVIOUS
  <2>3. req' = [req EXCEPT ![c] = y] BY <1>2, <1>6, <2>2 DEF Inspect!ReadFails, InspectInv, InspectTypeInv
  <2>4. y.pc = "failing" /\ y.cursor = x.cursor /\ y.op = x.op /\ InspectForm(y) /\ (y.op = "list" \/ x.pc = "fetch")
    <3>1. CASE InspectReads(x) /\ x.items \in Seq(InspectEntries) /\ x.cursor # Inspect!None
      <4>1. y = [pc |-> "failing", op |-> "list", filter |-> x.filter, cursor |-> x.cursor, items |-> x.items,
                 bytes |-> x.bytes, finished |-> x.finished, details |-> x.details] /\ x.op = "list"
        BY <2>2, <3>1 DEF InspectReads
      <4> QED BY <3>1, <4>1 DEF InspectForm, InspectReads
    <3>2. CASE InspectGetting(x) /\ x.pc = "fetch"
      <4>1. y = [pc |-> "failing", op |-> "get", id |-> x.id, cursor |-> x.cursor, details |-> x.details] /\ x.op = "get"
        BY <2>2, <3>2 DEF InspectGetting
      <4> QED BY <3>2, <4>1 DEF InspectForm, InspectGetting
    <3> QED BY <1>3, <2>1, <3>1, <3>2 DEF InspectForm
  <2>5. ~InspectInList(y) /\ (x.pc = "fetch" => ~InspectPaging(x)) BY <2>4 DEF InspectInList, InspectPaging
  <2> QED BY <1>4, <2>3, <2>4, <2>5
<1>7. CASE Inspect!Failing(c) \/ Inspect!Deadline(c)
  <2>1. PICK a : a # "complete" /\ Inspect!Answer(c, a) BY <1>7 DEF Inspect!Failing, Inspect!Deadline
  <2> QED BY <1>1, <2>1, InspectAnswerStep
<1>8. CASE Inspect!OpenGet(c) /\ ~Inspect!Current(req[c].id.gen)
  BY <1>1, <1>8, InspectAnswerStep DEF Inspect!OpenGet
<1>9. CASE Inspect!OpenGet(c) /\ Inspect!Current(req[c].id.gen)
  <2>1. x.pc = "open" /\ x.op = "get" BY <1>2, <1>9 DEF Inspect!OpenGet
  <2>2. PICK y : y = [x EXCEPT !.pc = "fetch"] OBVIOUS
  <2>3. req' = [req EXCEPT ![c] = y] BY <1>2, <1>9, <2>2 DEF Inspect!OpenGet, InspectInv, InspectTypeInv
  <2>4. InspectGetting(x) BY <1>3, <2>1 DEF InspectForm
  <2>5. y = [pc |-> "fetch", op |-> "get", id |-> x.id, cursor |-> x.cursor, details |-> x.details]
    BY <2>2, <2>4 DEF InspectGetting
  <2>6. y.pc = "fetch" /\ y.op = "get" /\ y.cursor = x.cursor /\ InspectForm(y)
    BY <2>5 DEF InspectForm, InspectGetting
  <2>7. ~InspectInList(y) /\ ~InspectPaging(x) BY <2>1, <2>6 DEF InspectInList, InspectPaging
  <2> QED BY <1>4, <2>3, <2>6, <2>7
<1>10. CASE Inspect!Fetch(c)
  <2>1. x.pc = "fetch" BY <1>2, <1>10 DEF Inspect!Fetch
  <2>2. PICK i : req' = [req EXCEPT ![c] = [pc |-> "verify", op |-> "get", id |-> x.id, cursor |-> x.cursor,
                                            details |-> x.details, items |-> i]]
    BY <1>2, <1>10 DEF Inspect!Fetch
  <2>3. PICK y : y = [pc |-> "verify", op |-> "get", id |-> x.id, cursor |-> x.cursor, details |-> x.details, items |-> i]
    OBVIOUS
  <2>4. y.pc = "verify" /\ y.op = "get" /\ y.cursor = x.cursor /\ InspectForm(y)
    BY <2>3 DEF InspectForm, InspectFetched
  <2>5. ~InspectInList(y) /\ ~InspectPaging(x) BY <2>1, <2>4 DEF InspectInList, InspectPaging
  <2> QED BY <1>4, <2>2, <2>3, <2>4, <2>5
<1> QED BY <1>5, <1>6, <1>7, <1>8, <1>9, <1>10

\* What a page adds to the traversal.
LEMMA InspectSummaryFacts ==
    ASSUME NEW items \in Seq(InspectEntries), NEW q \in Seq(InspectShows)
    PROVE  /\ Inspect!Summaries(items) \in Seq(InspectShows)
           /\ q \o Inspect!Summaries(items) \in Seq(InspectShows) /\ Len(q \o Inspect!Summaries(items)) = Len(q) + Len(items)
           /\ \A i \in 1..Len(q) : (q \o Inspect!Summaries(items))[i] = q[i]
           /\ \A i \in 1..Len(items) : (q \o Inspect!Summaries(items))[Len(q) + i].entry = items[i]
<1>1. Len(items) \in Nat /\ Len(q) \in Nat OBVIOUS
<1>2. \A i \in 1..Len(items) : [entry |-> items[i], summary |-> Inspect!Summary(items[i])] \in InspectShows
  BY DEF InspectShows
<1>3. PICK p : p = Inspect!Summaries(items) OBVIOUS
<1>4. p = [i \in 1..Len(items) |-> [entry |-> items[i], summary |-> Inspect!Summary(items[i])]]
  BY <1>3 DEF Inspect!Summaries
<1>5. p \in Seq(InspectShows) /\ Len(p) = Len(items) BY <1>1, <1>2, <1>4
<1>6. \A i \in 1..Len(items) : p[i].entry = items[i] BY <1>4
<1>7. q \o p \in Seq(InspectShows) /\ Len(q \o p) = Len(q) + Len(p) BY <1>5
<1>8. \A i \in 1..Len(q) : (q \o p)[i] = q[i] BY <1>5
<1>9. \A i \in 1..Len(p) : (q \o p)[Len(q) + i] = p[i] BY <1>5
<1> QED BY <1>3, <1>5, <1>6, <1>7, <1>8, <1>9

LEMMA InspectNothingAdded ==
    ASSUME NEW q \in Seq(InspectShows)
    PROVE  q \o Inspect!Summaries(<< >>) = q
<1>1. << >> \in Seq(InspectEntries) OBVIOUS
<1>2. PICK p : p = q \o Inspect!Summaries(<< >>) OBVIOUS
<1>3. p \in Seq(InspectShows) /\ Len(p) = Len(q) + 0 /\ \A i \in 1..Len(q) : p[i] = q[i]
  BY <1>1, <1>2, InspectSummaryFacts
<1>4. Len(p) = Len(q) BY <1>3
<1> QED BY <1>2, <1>3, <1>4

InspectLonger(items, more, e) ==
    /\ more \in Seq(InspectEntries) /\ Len(more) = Len(items) + 1 /\ more[Len(items) + 1] = e
    /\ \A i \in 1..Len(items) : more[i] = items[i]
InspectLongerShown(p, p2, e) ==
    /\ p \in Seq(InspectShows) /\ p2 \in Seq(InspectShows) /\ Len(p2) = Len(p) + 1 /\ p2[Len(p) + 1].entry = e
    /\ \A i \in 1..Len(p) : p2[i].entry = p[i].entry

LEMMA InspectOneAdded ==
    ASSUME NEW q \in Seq(InspectShows), NEW items \in Seq(InspectEntries), NEW more \in Seq(InspectEntries), NEW e \in InspectEntries,
           InspectLonger(items, more, e)
    PROVE  InspectLongerShown(q \o Inspect!Summaries(items), q \o Inspect!Summaries(more), e)
<1>1. /\ Len(more) = Len(items) + 1 /\ more[Len(items) + 1] = e
      /\ \A i \in 1..Len(items) : more[i] = items[i]
  BY DEF InspectLonger
<1>2. PICK p, p2 : p = q \o Inspect!Summaries(items) /\ p2 = q \o Inspect!Summaries(more) OBVIOUS
<1>3. Len(q) \in Nat /\ Len(items) \in Nat OBVIOUS
<1>4. /\ p \in Seq(InspectShows) /\ Len(p) = Len(q) + Len(items)
      /\ \A i \in 1..Len(q) : p[i] = q[i]
      /\ \A i \in 1..Len(items) : p[Len(q) + i].entry = items[i]
  BY <1>2, InspectSummaryFacts
<1>5. /\ p2 \in Seq(InspectShows) /\ Len(p2) = Len(q) + Len(more)
      /\ \A i \in 1..Len(q) : p2[i] = q[i]
      /\ \A i \in 1..Len(more) : p2[Len(q) + i].entry = more[i]
  BY <1>2, InspectSummaryFacts
<1>6. ASSUME NEW i \in 1..Len(p) PROVE p2[i].entry = p[i].entry
  <2>1. CASE i \in 1..Len(q) BY <1>4, <1>5, <2>1
  <2>2. CASE i \notin 1..Len(q)
    <3>1. PICK k \in 1..Len(items) : i = Len(q) + k
      <4>1. i - Len(q) \in 1..Len(items) /\ i = Len(q) + (i - Len(q)) BY <1>1, <1>3, <1>4, <2>2
      <4> QED BY <4>1
    <3>2. k \in 1..Len(more) BY <1>1, <1>3
    <3> QED BY <1>1, <1>4, <1>5, <3>1, <3>2
  <2> QED BY <2>1, <2>2
<1>7. p2[Len(p) + 1].entry = e
  <2>1. Len(items) + 1 \in 1..Len(more) /\ Len(p) + 1 = Len(q) + (Len(items) + 1) BY <1>1, <1>3, <1>4
  <2> QED BY <1>1, <1>5, <2>1
<1>8. Len(p2) = Len(p) + 1 BY <1>1, <1>3, <1>4, <1>5
<1> QED BY <1>2, <1>4, <1>5, <1>6, <1>7, <1>8 DEF InspectLongerShown

LEMMA InspectOpenListStep == ASSUME InspectInv, NEW c \in Clients, Inspect!OpenList(c) PROVE InspectInv'
<1>1. UNCHANGED <<records, gone, viewed>> BY DEF Inspect!OpenList, Inspect!broker
<1>2. PICK x : x = req[c] OBVIOUS
<1>3. x.pc = "open" /\ x.op = "list" /\ InspectForm(x) /\ x.cursor \in InspectCursors \cup {Inspect!None}
  BY <1>2 DEF Inspect!OpenList, InspectInv, InspectTypeInv
<1>4. x.filter \in Filters BY <1>3 DEF InspectForm
<1>5. PICK s0 : s0 = start[c] OBVIOUS
<1>6. PICK q : q = viewed[c] OBVIOUS
<1>7. InspectClientInv(s0, q, x) BY <1>2, <1>5, <1>6 DEF InspectInv
<1>8. /\ s0 \in [gen : Nat, retained : SUBSET Nat, last : Nat, filter : Filters \cup {"all"}] /\ q \in Seq(InspectShows)
      /\ records \in Seq(Seq(Records)) /\ Inspect!Gen \in Nat /\ Inspect!Gen # 0
      /\ viewed = [viewed EXCEPT ![c] = q] /\ start = [start EXCEPT ![c] = s0]
  BY <1>5, <1>6 DEF InspectInv, InspectTypeInv, Inspect!Gen
<1>9. Inspect!First \in Nat /\ Inspect!Last \in Nat /\ Inspect!Retained \subseteq 1..Inspect!Last /\ \A n \in Inspect!Retained : Inspect!First <= n
  BY <1>8, InspectFirstIsLeast
<1>10. ASSUME NEW a, a # "complete", Inspect!Answer(c, a), start' = start PROVE InspectInv'
  BY <1>1, <1>10, InspectAnswerStep
<1>11. PICK k : k = IF x.cursor = Inspect!None THEN [gen |-> Inspect!Gen, next |-> Inspect!First, last |-> Inspect!Last, filter |-> x.filter] ELSE x.cursor
  OBVIOUS
<1>12. k \in InspectCursors /\ k # Inspect!None
  <2>1. CASE x.cursor = Inspect!None
    <3>1. k = [gen |-> Inspect!Gen, next |-> Inspect!First, last |-> Inspect!Last, filter |-> x.filter]
      BY <1>11, <2>1
    <3> QED BY <1>4, <1>8, <1>9, <3>1 DEF InspectCursors, Inspect!None
  <2>2. CASE x.cursor # Inspect!None BY <1>3, <1>11, <2>2
  <2> QED BY <2>1, <2>2
<1>13. PICK y : y = [pc |-> "read", op |-> "list", filter |-> x.filter, cursor |-> k, items |-> << >>, bytes |-> 0,
                     finished |-> k.next > k.last, details |-> x.details]
  OBVIOUS
<1>14. /\ y.pc = "read" /\ y.op = "list" /\ y.filter = x.filter /\ y.cursor = k /\ y.items = << >>
       /\ y.finished = (k.next > k.last) /\ InspectForm(y) /\ InspectInList(y)
  <2>1. << >> \in Seq(InspectEntries) OBVIOUS
  <2> QED BY <1>12, <1>13, <2>1 DEF InspectForm, InspectReads, InspectInList
<1>15. PICK s : s = IF x.cursor = Inspect!None THEN [gen |-> Inspect!Gen, retained |-> Inspect!Retained, last |-> Inspect!Last, filter |-> x.filter] ELSE s0
  OBVIOUS
<1>16. ASSUME k.gen = Inspect!Gen, k.filter = x.filter, req' = [req EXCEPT ![c] = y], start' = [start EXCEPT ![c] = s]
       PROVE  InspectInv'
  <2>1. /\ s \in [gen : Nat, retained : SUBSET Nat, last : Nat, filter : Filters \cup {"all"}] /\ InspectSnapshot(s)
        /\ s.gen = k.gen /\ s.last = k.last /\ s.filter = k.filter
        /\ InspectOrdered(s, q) /\ \A i \in 1..Len(q) : q[i].entry.id.number < k.next
        /\ \A n \in InspectWanted(s) : n < k.next => InspectHas(s, q, n)
    <3>1. CASE x.cursor = Inspect!None
      <4>1. s = [gen |-> Inspect!Gen, retained |-> Inspect!Retained, last |-> Inspect!Last, filter |-> x.filter]
        BY <1>15, <3>1
      <4>2. k = [gen |-> Inspect!Gen, next |-> Inspect!First, last |-> Inspect!Last, filter |-> x.filter]
        BY <1>11, <3>1
      <4>3. s.gen = Inspect!Gen /\ s.retained = Inspect!Retained /\ s.last = Inspect!Last /\ s.filter = x.filter
        BY <4>1
      <4>4. k.gen = Inspect!Gen /\ k.next = Inspect!First /\ k.last = Inspect!Last /\ k.filter = x.filter BY <4>2
      <4>5. s \in [gen : Nat, retained : SUBSET Nat, last : Nat, filter : Filters \cup {"all"}]
        BY <1>4, <1>8, <1>9, <4>1
      <4>6. InspectSnapshot(s) BY <1>8, <1>9, <4>3 DEF InspectSnapshot, Inspect!Retained, Inspect!Last
      <4>7. q = << >> BY <1>3, <1>7, <3>1 DEF InspectClientInv, InspectWhole
      <4>8. InspectOrdered(s, q) BY <4>7 DEF InspectOrdered
      <4>9. \A n \in InspectWanted(s) : ~(n < k.next)
        <5> SUFFICES ASSUME NEW n \in InspectWanted(s) PROVE ~(n < k.next) OBVIOUS
        <5>1. n \in Inspect!Retained BY <4>3 DEF InspectWanted
        <5>2. n \in 1..Inspect!Last /\ Inspect!First <= n BY <1>9, <5>1
        <5> QED BY <1>9, <4>4, <5>2
      <4> QED BY <4>3, <4>4, <4>5, <4>6, <4>7, <4>8, <4>9
    <3>2. CASE x.cursor # Inspect!None
      <4>1. s = s0 /\ k = x.cursor BY <1>11, <1>15, <3>2
      <4>2. ~InspectInList(x) /\ ~(x.pc = "failing" /\ x.op = "list") BY <1>3 DEF InspectInList
      <4>3. InspectLinked(s, q, x) /\ InspectSnapshot(s) /\ InspectOrdered(s, q) BY <1>7, <4>1 DEF InspectClientInv
      <4> QED BY <1>8, <3>2, <4>1, <4>2, <4>3 DEF InspectLinked
    <3> QED BY <3>1, <3>2
  <2>2. q \o Inspect!Summaries(y.items) = q BY <1>8, <1>14, InspectNothingAdded
  <2>3. \A n \in InspectWanted(s) : n < k.next \/ y.finished => InspectHas(s, q, n)
    <3>1. ASSUME NEW n \in InspectWanted(s), k.next > k.last PROVE n < k.next
      <4>1. n \in 1..s.last BY <2>1 DEF InspectWanted, InspectSnapshot
      <4> QED BY <1>12, <2>1, <3>1, <4>1 DEF InspectCursors
    <3> QED BY <1>14, <2>1, <3>1
  <2>4. InspectPage(s, q, y) BY <1>14, <1>16, <2>1, <2>2, <2>3 DEF InspectPage
  <2>5. InspectLinked(s, q, y) BY <1>14, <2>1 DEF InspectLinked
  <2>6. InspectWhole(s, q, y) BY <1>14 DEF InspectWhole
  <2>7. InspectClientInv(s, q, y) BY <2>1, <2>4, <2>5, <2>6 DEF InspectClientInv
  <2> QED BY <1>1, <1>8, <1>12, <1>14, <1>16, <2>1, <2>7, InspectClientStep
<1>17. CASE ~created BY <1>10, <1>17 DEF Inspect!OpenList
<1>18. CASE created /\ k.gen # Inspect!Gen BY <1>2, <1>10, <1>11, <1>18 DEF Inspect!OpenList
<1>19. CASE created /\ k.gen = Inspect!Gen /\ (k.filter # x.filter \/ k.last > Inspect!Last)
  BY <1>2, <1>10, <1>11, <1>19 DEF Inspect!OpenList
<1>20. CASE created /\ k.gen = Inspect!Gen /\ k.filter = x.filter /\ ~(k.last > Inspect!Last)
  <2>1. req' = [req EXCEPT ![c] = y] BY <1>2, <1>11, <1>13, <1>20 DEF Inspect!OpenList
  <2>2. start' = [start EXCEPT ![c] = s]
    <3>1. CASE x.cursor = Inspect!None BY <1>2, <1>11, <1>15, <1>20, <3>1 DEF Inspect!OpenList
    <3>2. CASE x.cursor # Inspect!None BY <1>2, <1>8, <1>11, <1>15, <1>20, <3>2 DEF Inspect!OpenList
    <3> QED BY <3>1, <3>2
  <2> QED BY <1>16, <1>20, <2>1, <2>2
<1> QED BY <1>17, <1>18, <1>19, <1>20

LEMMA InspectReadStep == ASSUME InspectInv, NEW c \in Clients, Inspect!Read(c) PROVE InspectInv'
<1>1. UNCHANGED <<records, gone, viewed, start>> BY DEF Inspect!Read, Inspect!broker
<1>2. PICK x : x = req[c] OBVIOUS
<1>3. x.pc = "read" /\ InspectForm(x) /\ x.cursor \in InspectCursors \cup {Inspect!None} /\ ~x.finished
  BY <1>2 DEF Inspect!Read, Inspect!More, InspectInv, InspectTypeInv
<1>4. x.op = "list" /\ InspectReads(x) /\ x.items \in Seq(InspectEntries) /\ x.cursor # Inspect!None /\ x.cursor \in InspectCursors
  BY <1>3 DEF InspectForm
<1>5. PICK s : s = start[c] OBVIOUS
<1>6. PICK q : q = viewed[c] OBVIOUS
<1>7. InspectClientInv(s, q, x) /\ InspectInList(x) BY <1>2, <1>3, <1>4, <1>5, <1>6 DEF InspectInv, InspectInList
<1>8. /\ s \in [gen : Nat, retained : SUBSET Nat, last : Nat, filter : Filters \cup {"all"}] /\ q \in Seq(InspectShows)
      /\ records \in Seq(Seq(Records)) /\ Inspect!Gen \in Nat /\ Inspect!Gen # 0
      /\ viewed = [viewed EXCEPT ![c] = q] /\ start = [start EXCEPT ![c] = s]
  BY <1>5, <1>6 DEF InspectInv, InspectTypeInv, Inspect!Gen
<1>9. x.filter = s.filter /\ x.cursor.gen = s.gen /\ x.cursor.last = s.last /\ x.cursor.filter = s.filter /\ InspectSnapshot(s)
  BY <1>4, <1>7 DEF InspectClientInv, InspectLinked, InspectPage
<1>10. PICK k : k = x.cursor OBVIOUS
<1>11. k.gen \in Nat /\ k.next \in Nat /\ k.last \in Nat BY <1>4, <1>10 DEF InspectCursors
<1>12. PICK found : found = Inspect!Candidates(x.filter, k.next) OBVIOUS
<1>13. /\ found \subseteq Inspect!Retained /\ Inspect!Last \in Nat /\ Inspect!Retained \subseteq 1..Inspect!Last
       /\ \A n \in found : n >= k.next /\ Inspect!Matches(x.filter, records[Inspect!Gen][n])
  BY <1>8, <1>12, InspectFirstIsLeast DEF Inspect!Candidates
<1>14. found \subseteq Nat BY <1>13
\* Nothing that is wanted and still there lies before the first one found.
<1>15. ASSUME NEW n \in InspectWanted(s), n >= k.next, n \notin found, Inspect!Gen = s.gen PROVE Inspect!Id(s.gen, n) \in gone
  <2>1. n \in s.retained /\ Inspect!Matches(s.filter, records[s.gen][n]) BY <1>15 DEF InspectWanted
  <2>2. n \in 1..s.last /\ s.last <= Len(records[s.gen]) BY <1>9, <2>1 DEF InspectSnapshot
  <2>3. n \in 1..Inspect!Last BY <1>8, <1>13, <1>15, <2>2 DEF Inspect!Last
  <2>4. n \notin Inspect!Retained BY <1>9, <1>12, <1>15, <2>1 DEF Inspect!Candidates
  <2> QED BY <1>15, <2>3, <2>4 DEF Inspect!Retained
<1>16. InspectWanted(s) \subseteq 1..s.last BY <1>9 DEF InspectWanted, InspectSnapshot
<1>17. PICK p : p = q \o Inspect!Summaries(x.items) OBVIOUS
<1>18. p \in Seq(InspectShows) BY <1>4, <1>8, <1>17, InspectSummaryFacts
<1>19. Inspect!Gen = s.gen =>
           /\ InspectOrdered(s, p) /\ \A i \in 1..Len(p) : p[i].entry.id.number < k.next
           /\ \A n \in InspectWanted(s) : n < k.next => InspectHas(s, p, n)
  BY <1>7, <1>10, <1>17 DEF InspectClientInv, InspectPage
<1>20. CASE found = {} \/ ~(\E n \in found : n <= k.last /\ \A j \in found : n <= j)
  <2>1. PICK y : y = [x EXCEPT !.finished = TRUE] OBVIOUS
  <2>2. req' = [req EXCEPT ![c] = y]
    <3>1. CASE found = {} BY <1>2, <1>10, <1>12, <2>1, <3>1 DEF Inspect!Read
    <3>2. CASE found # {}
      <4>1. PICK n \in found : \A j \in found : n <= j BY <1>14, <3>2, InspectMinimum
      <4>2. PICK m : m = CHOOSE i \in found : \A j \in found : i <= j OBVIOUS
      <4>3. m \in found /\ \A j \in found : m <= j BY <4>1, <4>2
      <4>4. m > k.last BY <1>11, <1>14, <1>20, <3>2, <4>3
      <4> QED BY <1>2, <1>10, <1>12, <2>1, <4>2, <4>4 DEF Inspect!Read
    <3> QED BY <3>1, <3>2
  <2>3. y = [pc |-> "read", op |-> "list", filter |-> x.filter, cursor |-> x.cursor, items |-> x.items, bytes |-> x.bytes,
             finished |-> TRUE, details |-> x.details]
    BY <1>3, <1>4, <2>1 DEF InspectReads
  <2>4. /\ y.pc = "read" /\ y.op = "list" /\ y.filter = x.filter /\ y.cursor = k /\ y.items = x.items /\ InspectForm(y) /\ InspectInList(y)
    BY <1>4, <1>10, <2>3 DEF InspectForm, InspectReads, InspectInList
  <2>5. ASSUME Inspect!Gen = s.gen, NEW n \in InspectWanted(s) PROVE InspectHas(s, p, n)
    <3>1. n \in Nat /\ n <= k.last BY <1>8, <1>9, <1>10, <1>16
    <3>2. CASE n < k.next BY <1>19, <2>5, <3>2
    <3>3. CASE n \notin found /\ ~(n < k.next)
      <4>1. n >= k.next BY <1>11, <3>1, <3>3
      <4> QED BY <1>15, <2>5, <3>3, <4>1 DEF InspectHas
    <3>4. CASE n \in found
      <4>1. found # {} BY <3>4
      <4>2. PICK m \in found : \A j \in found : m <= j BY <1>14, <4>1, InspectMinimum
      <4>3. m <= n BY <3>4, <4>2
      <4>4. m <= k.last BY <1>11, <1>14, <3>1, <4>3
      <4> QED BY <1>20, <4>1, <4>2, <4>4
    <3> QED BY <3>2, <3>3, <3>4
  <2>6. InspectPage(s, q, y) BY <1>9, <1>17, <1>19, <2>4, <2>5 DEF InspectPage
  <2>7. InspectLinked(s, q, y) BY <1>9, <1>10, <2>4 DEF InspectLinked
  <2>8. InspectWhole(s, q, y) BY <2>4 DEF InspectWhole
  <2>9. InspectClientInv(s, q, y) BY <1>7, <2>6, <2>7, <2>8 DEF InspectClientInv
  <2> QED BY <1>1, <1>4, <1>8, <1>10, <2>2, <2>4, <2>9, InspectClientStep
<1>21. CASE \E n \in found : n <= k.last /\ \A j \in found : n <= j
  <2>1. PICK n \in found : n <= k.last /\ \A j \in found : n <= j BY <1>21
  <2>2. n = CHOOSE i \in found : \A j \in found : i <= j
    <3>1. PICK m : m = CHOOSE i \in found : \A j \in found : i <= j OBVIOUS
    <3>2. m \in found /\ \A j \in found : m <= j BY <2>1, <3>1
    <3>3. m <= n /\ n <= m BY <2>1, <3>2
    <3>4. m = n BY <1>14, <2>1, <3>2, <3>3
    <3> QED BY <3>1, <3>4
  <2>3. n \in Nat /\ n \in 1..Inspect!Last /\ n \in Inspect!Retained /\ ~(n > k.last) /\ n >= k.next
    BY <1>11, <1>13, <1>14, <2>1
  <2>4. PICK record : record = records[Inspect!Gen][n] OBVIOUS
  <2>5. record \in Records
    <3>1. records[Inspect!Gen] \in Seq(Records) /\ Inspect!Last = Len(records[Inspect!Gen])
      BY <1>8 DEF Inspect!Gen, Inspect!Last
    <3> QED BY <2>3, <2>4, <3>1
  <2>6. PICK e : e = Inspect!Entry(Inspect!Id(k.gen, n), record) OBVIOUS
  <2>7. Inspect!Id(k.gen, n) \in InspectIds /\ e \in InspectEntries /\ e.id = Inspect!Id(k.gen, n)
    <3>1. Inspect!Id(k.gen, n) \in InspectIds BY <1>11, <2>3 DEF Inspect!Id, InspectIds
    <3>2. e \in InspectEntries BY <2>5, <2>6, <3>1 DEF InspectEntries
    <3>3. e.id = Inspect!Id(k.gen, n) BY <2>6 DEF Inspect!Entry
    <3> QED BY <3>1, <3>2, <3>3
  <2>8. PICK b : b = x.bytes + record.size OBVIOUS
  <2>9. PICK last \in BOOLEAN : last = Inspect!Finished(n, x, b) BY DEF Inspect!Finished
  <2>10. PICK more : more = Append(x.items, e) OBVIOUS
  <2>11. PICK k2 : k2 = [k EXCEPT !.next = n + 1] OBVIOUS
  <2>23. PICK y : y = [pc |-> "read", op |-> "list", filter |-> x.filter, cursor |-> k2, items |-> more, bytes |-> b,
                       finished |-> last, details |-> x.details]
    OBVIOUS
  <2>24. req' = [req EXCEPT ![c] = y]
    <3>1. y = [x EXCEPT !.bytes = b, !.finished = last, !.cursor = k2, !.items = more]
      <4>1. PICK f0, i0, b0, l0, d0 : f0 = x.filter /\ i0 = x.items /\ b0 = x.bytes /\ l0 = x.finished /\ d0 = x.details
        OBVIOUS
      <4>2. x = [pc |-> "read", op |-> "list", filter |-> f0, cursor |-> k, items |-> i0, bytes |-> b0, finished |-> l0,
                 details |-> d0]
        BY <1>3, <1>4, <1>10, <4>1 DEF InspectReads
      <4>3. y = [pc |-> "read", op |-> "list", filter |-> f0, cursor |-> k2, items |-> more, bytes |-> b,
                 finished |-> last, details |-> d0]
        BY <2>23, <4>1
      <4>4. PICK y1 : y1 = [x EXCEPT !.bytes = b] OBVIOUS
      <4>5. PICK y2 : y2 = [y1 EXCEPT !.finished = last] OBVIOUS
      <4>6. PICK y3 : y3 = [y2 EXCEPT !.cursor = k2] OBVIOUS
      <4>7. y1 = [pc |-> "read", op |-> "list", filter |-> f0, cursor |-> k, items |-> i0, bytes |-> b, finished |-> l0,
                  details |-> d0]
        BY ONLY <4>2, <4>4
      <4>8. y2 = [pc |-> "read", op |-> "list", filter |-> f0, cursor |-> k, items |-> i0, bytes |-> b,
                  finished |-> last, details |-> d0]
        BY ONLY <4>5, <4>7
      <4>9. y3 = [pc |-> "read", op |-> "list", filter |-> f0, cursor |-> k2, items |-> i0, bytes |-> b,
                  finished |-> last, details |-> d0]
        BY ONLY <4>6, <4>8
      <4>10. y = [y3 EXCEPT !.items = more] BY ONLY <4>3, <4>9
      <4>11. [x EXCEPT !.bytes = b, !.finished = last, !.cursor = k2, !.items = more] = [y3 EXCEPT !.items = more]
        BY ONLY <4>4, <4>5, <4>6
      <4> QED BY <4>10, <4>11
    <3>2. [x EXCEPT !.bytes = b, !.finished = Inspect!Finished(n, x, b), !.cursor.next = n + 1, !.items = Append(@, e)]
              = [x EXCEPT !.bytes = b, !.finished = last, !.cursor = k2, !.items = more]
      BY <1>4, <1>10, <2>9, <2>10, <2>11 DEF InspectReads
    <3>3. found # {} BY <2>1
    <3>4. req' = [req EXCEPT ![c] =
              [x EXCEPT !.bytes = b, !.finished = Inspect!Finished(n, x, b), !.cursor.next = n + 1, !.items = Append(@, e)]]
      BY <1>2, <1>10, <1>12, <2>2, <2>3, <2>4, <2>6, <2>8, <3>3 DEF Inspect!Read
    <3> QED BY <3>1, <3>2, <3>4
  <2>12. k2 \in InspectCursors /\ k2 # Inspect!None /\ k2.gen = k.gen /\ k2.last = k.last /\ k2.filter = k.filter /\ k2.next = n + 1
    <3>1. n + 1 \in Nat BY <2>3
    <3>2. k \in InspectCursors /\ k2 \in InspectCursors /\ k2.gen = k.gen /\ k2.last = k.last /\ k2.filter = k.filter /\ k2.next = n + 1
      BY <1>4, <1>10, <2>11, <3>1 DEF InspectCursors
    <3>3. k2 # Inspect!None BY <3>2 DEF InspectCursors, Inspect!None
    <3> QED BY <3>2, <3>3
  <2>13. /\ y.pc = "read" /\ y.op = "list" /\ y.filter = x.filter /\ y.cursor = k2 /\ y.items = Append(x.items, e)
         /\ y.finished = (n = k.last) /\ InspectForm(y) /\ InspectInList(y)
    <3>1. Append(x.items, e) \in Seq(InspectEntries) BY <1>4, <2>7
    <3> QED BY <1>10, <2>9, <2>10, <2>12, <2>23, <3>1 DEF InspectForm, InspectReads, InspectInList, Inspect!Finished
  <2>14. PICK p2 : p2 = q \o Inspect!Summaries(Append(x.items, e)) OBVIOUS
  <2>15. /\ p2 \in Seq(InspectShows) /\ Len(p2) = Len(p) + 1 /\ p2[Len(p) + 1].entry = e
         /\ \A i \in 1..Len(p) : p2[i].entry = p[i].entry
    <3>1. PICK items \in Seq(InspectEntries) : items = x.items BY <1>4
    <3>2. more = Append(items, e) BY <2>10, <3>1
    <3>3. /\ more \in Seq(InspectEntries) /\ Len(more) = Len(items) + 1 /\ more[Len(items) + 1] = e
          /\ \A i \in 1..Len(items) : more[i] = items[i]
      BY <2>7, <3>2
    <3>4. p = q \o Inspect!Summaries(items) /\ p2 = q \o Inspect!Summaries(more) BY <1>17, <2>14, <3>1, <3>2
    <3>6. InspectLonger(items, more, e) BY <3>3 DEF InspectLonger
    <3>7. InspectLongerShown(q \o Inspect!Summaries(items), q \o Inspect!Summaries(more), e)
      BY <1>8, <2>7, <3>3, <3>6, InspectOneAdded
    <3> QED BY <3>4, <3>7 DEF InspectLongerShown
  <2>16. Len(p) \in Nat /\ \A i \in 1..Len(p2) : i \in 1..Len(p) \/ i = Len(p) + 1 BY <1>18, <2>15
  <2>17. e.id.number = n /\ e.id.gen = k.gen BY <2>7 DEF Inspect!Id
  <2>18. ASSUME Inspect!Gen = s.gen PROVE InspectPage(s, q, y)
    <3>1. n \in InspectWanted(s)
      <4>1. n \in 1..s.last BY <1>8, <1>9, <1>10, <2>1, <2>3
      <4>2. Inspect!Id(s.gen, n) \notin gone BY <2>3, <2>18 DEF Inspect!Retained
      <4>3. n \in s.retained BY <1>9, <4>1, <4>2 DEF InspectSnapshot
      <4>4. Inspect!Matches(s.filter, records[s.gen][n]) BY <1>9, <1>13, <2>1, <2>18
      <4> QED BY <4>3, <4>4 DEF InspectWanted
    <3>2. \A i \in 1..Len(p) : p[i].entry.id.gen = s.gen /\ p[i].entry.id.number \in InspectWanted(s)
                               /\ p[i].entry.id.number < k.next
      BY <1>19, <2>18 DEF InspectOrdered
    <3>3. \A i \in 1..Len(p) : p[i].entry.id.number \in Nat /\ p[i].entry.id.number < n /\ p[i].entry.id.number < n + 1
      <4>1. \A i \in 1..Len(p) : p[i].entry.id.number \in 1..s.last BY <1>16, <3>2
      <4>2. ASSUME NEW m \in 1..s.last, m < k.next PROVE m \in Nat /\ m < n /\ m < n + 1 BY <1>8, <1>11, <2>3, <4>2
      <4> QED BY <3>2, <4>1, <4>2
    <3>4. InspectOrdered(s, p2)
      <4>1. ASSUME NEW i \in 1..Len(p2) PROVE p2[i].entry.id.gen = s.gen /\ p2[i].entry.id.number \in InspectWanted(s)
        BY <1>9, <1>10, <2>15, <2>16, <2>17, <3>1, <3>2
      <4>2. ASSUME NEW i \in 1..Len(p2), NEW j \in 1..Len(p2), i < j
            PROVE  p2[i].entry.id.number < p2[j].entry.id.number
        <5>1. i \in 1..Len(p) BY <2>15, <2>16, <4>2
        <5>2. CASE j \in 1..Len(p) BY <1>19, <2>15, <2>18, <4>2, <5>1, <5>2 DEF InspectOrdered
        <5>3. CASE j = Len(p) + 1 BY <2>15, <2>17, <3>3, <5>1, <5>3
        <5> QED BY <2>16, <5>2, <5>3
      <4> QED BY <4>1, <4>2 DEF InspectOrdered
    <3>5. \A i \in 1..Len(p2) : p2[i].entry.id.number < n + 1
      <4>1. n \in Nat /\ n < n + 1 BY <2>3
      <4>2. ASSUME NEW i \in 1..Len(p2) PROVE p2[i].entry.id.number < n + 1
        <5>1. CASE i \in 1..Len(p)
          <6>1. p2[i].entry.id.number = p[i].entry.id.number BY <2>15, <5>1
          <6> QED BY <3>3, <5>1, <6>1
        <5>2. CASE i = Len(p) + 1
          <6>1. p2[i].entry.id.number = n BY <2>15, <2>17, <5>2
          <6> QED BY <4>1, <6>1
        <5> QED BY <2>16, <4>2, <5>1, <5>2
      <4> QED BY <4>2
    <3>6. \A m : InspectHas(s, p, m) => InspectHas(s, p2, m)
      <4>1. \A i \in 1..Len(p) : i \in 1..Len(p2) BY <2>15, <2>16
      <4> QED BY <2>15, <4>1 DEF InspectHas
    <3>7. ASSUME NEW m \in InspectWanted(s), m < n + 1 \/ n = k.last PROVE InspectHas(s, p2, m)
      <4>1. m \in Nat /\ m <= k.last BY <1>8, <1>9, <1>10, <1>16
      <4>2. m <= n BY <2>3, <3>7, <4>1
      <4>3. CASE m = n
        <5>1. Len(p) + 1 \in 1..Len(p2) BY <2>15, <2>16
        <5>2. p2[Len(p) + 1].entry.id = Inspect!Id(s.gen, n) BY <1>9, <1>10, <2>7, <2>15
        <5> QED BY <4>3, <5>1, <5>2 DEF InspectHas
      <4>4. CASE m < k.next BY <1>19, <2>18, <3>6, <4>4
      <4>5. CASE ~(m < k.next) /\ m # n
        <5>1. m \notin found BY <1>14, <2>1, <2>3, <4>1, <4>2, <4>5
        <5>2. m >= k.next BY <1>11, <4>1, <4>5
        <5> QED BY <1>15, <2>18, <5>1, <5>2 DEF InspectHas
      <4> QED BY <4>3, <4>4, <4>5
    <3> QED BY <1>9, <2>12, <2>13, <2>14, <3>4, <3>5, <3>7 DEF InspectPage
  <2>19. InspectPage(s, q, y) BY <1>9, <2>13, <2>18 DEF InspectPage
  <2>20. InspectLinked(s, q, y) BY <1>9, <1>10, <2>12, <2>13 DEF InspectLinked
  <2>21. InspectWhole(s, q, y) BY <2>13 DEF InspectWhole
  <2>22. InspectClientInv(s, q, y) BY <1>7, <2>19, <2>20, <2>21 DEF InspectClientInv
  <2> QED BY <1>1, <1>8, <2>24, <2>12, <2>13, <2>22, InspectClientStep
<1> QED BY <1>20, <1>21

LEMMA InspectPageDoneStep == ASSUME InspectInv, NEW c \in Clients, Inspect!PageDone(c) PROVE InspectInv'
<1>1. UNCHANGED <<records, gone, viewed, start>> BY DEF Inspect!PageDone, Inspect!broker
<1>2. PICK x : x = req[c] OBVIOUS
<1>3. x.pc = "read" /\ InspectForm(x) /\ x.cursor \in InspectCursors \cup {Inspect!None}
  BY <1>2 DEF Inspect!PageDone, InspectInv, InspectTypeInv
<1>4. x.op = "list" /\ InspectReads(x) /\ x.items \in Seq(InspectEntries) /\ x.cursor # Inspect!None
  BY <1>3 DEF InspectForm
<1>5. PICK y : y = [x EXCEPT !.pc = "verify"] OBVIOUS
<1>6. req' = [req EXCEPT ![c] = y] BY <1>2, <1>5 DEF Inspect!PageDone, InspectInv, InspectTypeInv
<1>7. y = [pc |-> "verify", op |-> "list", filter |-> x.filter, cursor |-> x.cursor, items |-> x.items, bytes |-> x.bytes,
           finished |-> x.finished, details |-> x.details]
  BY <1>4, <1>5 DEF InspectReads
<1>8. /\ y.pc = "verify" /\ y.op = "list" /\ y.filter = x.filter /\ y.cursor = x.cursor /\ y.items = x.items
      /\ y.finished = x.finished /\ InspectForm(y) /\ InspectInList(y) /\ InspectInList(x)
  BY <1>3, <1>4, <1>7 DEF InspectForm, InspectReads, InspectInList
<1>9. PICK s : s = start[c] OBVIOUS
<1>10. PICK q : q = viewed[c] OBVIOUS
<1>11. InspectClientInv(s, q, x) BY <1>2, <1>9, <1>10 DEF InspectInv
<1>12. InspectClientInv(s, q, y)
  <2>1. InspectPage(s, q, y) BY <1>8, <1>11 DEF InspectClientInv, InspectPage
  <2>2. InspectLinked(s, q, y) BY <1>8, <1>11 DEF InspectClientInv, InspectLinked
  <2>3. InspectWhole(s, q, y) BY <1>8 DEF InspectWhole
  <2> QED BY <1>11, <2>1, <2>2, <2>3 DEF InspectClientInv
<1>13. /\ s \in [gen : Nat, retained : SUBSET Nat, last : Nat, filter : Filters \cup {"all"}] /\ q \in Seq(InspectShows)
       /\ viewed = [viewed EXCEPT ![c] = q] /\ start = [start EXCEPT ![c] = s]
  BY <1>9, <1>10 DEF InspectInv, InspectTypeInv
<1> QED BY <1>1, <1>3, <1>6, <1>8, <1>12, <1>13, InspectClientStep

LEMMA InspectVerifyStep == ASSUME InspectInv, NEW c \in Clients, Inspect!Verify(c) PROVE InspectInv'
<1>1. UNCHANGED <<records, gone, start>> BY DEF Inspect!Verify, Inspect!broker
<1>2. PICK x : x = req[c] OBVIOUS
<1>3. x.pc = "verify" /\ InspectForm(x) /\ x.cursor \in InspectCursors \cup {Inspect!None}
  BY <1>2 DEF Inspect!Verify, InspectInv, InspectTypeInv
<1>4. CASE ~Inspect!Still(Inspect!Expected(c))
  BY <1>1, <1>4, InspectAnswerStep DEF Inspect!Verify
<1>5. CASE Inspect!Still(Inspect!Expected(c)) /\ x.op # "list"
  <2>1. viewed' = viewed BY <1>2, <1>5 DEF Inspect!Verify
  <2>2. PICK a, d : /\ req' = [req EXCEPT ![c] = [pc |-> "idle", answer |-> a, cursor |-> x.cursor, details |-> d]]
                    /\ a \in {"not-found", "detail"}
    BY <1>2, <1>5 DEF Inspect!Verify
  <2>3. PICK y : y = [pc |-> "idle", answer |-> a, cursor |-> x.cursor, details |-> d] OBVIOUS
  <2>4. y.pc = "idle" /\ y.answer = a /\ y.cursor = x.cursor /\ InspectForm(y)
    BY <2>3 DEF InspectForm, InspectResting
  <2>5. ~InspectInList(y) /\ ~InspectPaging(x) BY <1>3, <1>5, <2>4 DEF InspectInList, InspectPaging
  <2> QED BY <1>1, <1>2, <2>1, <2>2, <2>3, <2>4, <2>5, InspectMoveStep
<1>6. CASE Inspect!Still(Inspect!Expected(c)) /\ x.op = "list"
  <2>1. x.items \in Seq(InspectEntries) /\ x.cursor # Inspect!None BY <1>3, <1>6 DEF InspectForm
  <2>2. PICK s : s = start[c] OBVIOUS
  <2>3. PICK q : q = viewed[c] OBVIOUS
  <2>4. PICK p : p = q \o Inspect!Summaries(x.items) OBVIOUS
  <2>5. InspectClientInv(s, q, x) /\ InspectInList(x) BY <1>2, <1>3, <1>6, <2>2, <2>3 DEF InspectInv, InspectInList
  <2>6. /\ s \in [gen : Nat, retained : SUBSET Nat, last : Nat, filter : Filters \cup {"all"}] /\ q \in Seq(InspectShows)
        /\ start = [start EXCEPT ![c] = s]
    BY <2>2, <2>3 DEF InspectInv, InspectTypeInv
  <2>7. p \in Seq(InspectShows) BY <2>1, <2>4, <2>6, InspectSummaryFacts
  <2>8. Inspect!Gen = x.cursor.gen BY <1>2, <1>6 DEF Inspect!Still, Inspect!Current, Inspect!Expected
  <2>9. x.cursor.gen = s.gen /\ x.cursor.last = s.last /\ x.cursor.filter = s.filter
    BY <2>1, <2>5 DEF InspectClientInv, InspectLinked
  <2>10. /\ InspectOrdered(s, p) /\ \A i \in 1..Len(p) : p[i].entry.id.number < x.cursor.next
         /\ \A n \in InspectWanted(s) : n < x.cursor.next \/ x.finished => InspectHas(s, p, n)
    BY <2>4, <2>5, <2>8, <2>9 DEF InspectClientInv, InspectPage
  <2>11. PICK y : y = [pc |-> "idle", answer |-> IF x.finished THEN "complete" ELSE "page",
                       cursor |-> IF x.finished THEN Inspect!None ELSE x.cursor, details |-> x.details]
    OBVIOUS
  <2>12. req' = [req EXCEPT ![c] = y] /\ viewed' = [viewed EXCEPT ![c] = p]
    BY <1>2, <1>6, <2>3, <2>4, <2>11 DEF Inspect!Verify
  <2>13. /\ y.pc = "idle" /\ InspectForm(y) /\ y.cursor \in InspectCursors \cup {Inspect!None}
         /\ y.answer = "complete" => x.finished
         /\ y.cursor # Inspect!None => y.cursor = x.cursor
    BY <1>3, <2>11 DEF InspectForm, InspectResting
  <2>14. InspectClientInv(s, p, y)
    <3>1. InspectLinked(s, p, y) BY <2>9, <2>10, <2>13 DEF InspectLinked
    <3>2. InspectPage(s, p, y) BY <2>13 DEF InspectPage, InspectInList
    <3>3. InspectWhole(s, p, y) BY <2>10, <2>13 DEF InspectWhole
    <3> QED BY <2>5, <2>10, <3>1, <3>2, <3>3 DEF InspectClientInv
  <2> QED BY <1>1, <2>6, <2>7, <2>12, <2>13, <2>14, InspectClientStep
<1> QED BY <1>4, <1>5, <1>6

\* What the invariant says of a traversal, as the property puts it.
LEMMA InspectExact == InspectInv => Inspect!TraversalIsExact
<1> SUFFICES ASSUME InspectInv, NEW c \in Clients
             PROVE  LET shown == [i \in 1..Len(viewed[c]) |-> viewed[c][i].entry.id]
                        s == start[c]
                        wanted == {n \in s.retained : Inspect!Matches(s.filter, records[s.gen][n])}
                    IN /\ \A i, j \in 1..Len(shown) : i < j => shown[i].number < shown[j].number
                       /\ \A i \in 1..Len(shown) : shown[i].gen = s.gen /\ shown[i].number \in wanted
                       /\ req[c].pc = "idle" /\ req[c].answer = "complete" =>
                             \A n \in wanted : Inspect!Id(s.gen, n) \in gone \/ \E i \in 1..Len(shown) : shown[i] = Inspect!Id(s.gen, n)
  BY DEF Inspect!TraversalIsExact
<1> DEFINE shown == [i \in 1..Len(viewed[c]) |-> viewed[c][i].entry.id]
<1>1. Len(viewed[c]) \in Nat BY DEF InspectInv, InspectTypeInv
<1>2. Len(shown) = Len(viewed[c]) /\ \A i \in 1..Len(viewed[c]) : shown[i] = viewed[c][i].entry.id BY <1>1
<1>3. InspectWanted(start[c]) = {n \in start[c].retained : Inspect!Matches(start[c].filter, records[start[c].gen][n])}
  BY DEF InspectWanted
<1>4. InspectOrdered(start[c], viewed[c]) /\ InspectWhole(start[c], viewed[c], req[c])
  BY DEF InspectInv, InspectClientInv
<1>5. \A i, j \in 1..Len(shown) : i < j => shown[i].number < shown[j].number BY <1>2, <1>4 DEF InspectOrdered
<1>6. \A i \in 1..Len(shown) : shown[i].gen = start[c].gen /\ shown[i].number \in InspectWanted(start[c])
  BY <1>2, <1>4 DEF InspectOrdered
<1>7. req[c].pc = "idle" /\ req[c].answer = "complete" =>
          \A n \in InspectWanted(start[c]) :
              Inspect!Id(start[c].gen, n) \in gone \/ \E i \in 1..Len(shown) : shown[i] = Inspect!Id(start[c].gen, n)
  BY <1>2, <1>4 DEF InspectWhole, InspectHas
<1> QED BY <1>3, <1>5, <1>6, <1>7

\* However pages, removals, recreations and refusals interleave, a completed traversal
\* showed exactly the matching records of one snapshot, once and in order, for any
\* clients, filters, page limits, read budgets and permits.
THEOREM TraversalsAreExact == Inspect!Spec => []TraversalIsExact
<1>1. InspectInv /\ [Inspect!Next]_(Inspect!vars) => InspectInv'
  <2> SUFFICES ASSUME InspectInv, [Inspect!Next]_(Inspect!vars) PROVE InspectInv'
    OBVIOUS
  <2>1. CASE UNCHANGED Inspect!vars BY <2>1, InspectStreamSteps
  <2>2. CASE Inspect!Next
    BY <2>2, InspectStreamSteps, InspectAskSteps, InspectRequestSteps, InspectOpenListStep, InspectReadStep,
        InspectPageDoneStep, InspectVerifyStep DEF Inspect!Next
  <2> QED BY <2>1, <2>2
<1>2. InspectInv => TraversalIsExact BY InspectExact DEF TraversalIsExact
<1> QED BY InspectInit, <1>1, <1>2, PTL DEF Inspect!Spec

-----------------------------------------------------------------------------
(* The skills: the inductive invariant. *)

SkillsContents == {Install!None, Install!Edited} \cup {tree[s][f] : tree \in Kits \cup {Initial}, s \in Install!SkillSet, f \in Files}
SkillsTrees == [Install!SkillSet -> [Files -> SkillsContents]]
SkillsResults ==
    {"none", "refused", "unchanged", "locked", "changed", "failed", "installed", "restored", "recoverable", "killed"}
SkillsReleases == Kits \cup {Install!Bare}
SkillsEarly == {"idle", "snapshot", "plan", "lock"}
SkillsWorking == {"backup", "place", "remove", "restore"}
SkillsHolding == {"staged"} \cup SkillsWorking
SkillsInvocations ==
    [pc : SkillsEarly \cup SkillsHolding \cup {"done"}, kit : SkillsReleases, update : BOOLEAN, original : SkillsTrees,
     previous : SkillsReleases, desired : SkillsTrees, at : Nat, existed : Seq(BOOLEAN), backup : SkillsTrees,
     backupBase : SkillsReleases, result : SkillsResults]

SkillsTypeInv ==
    /\ disk \in SkillsTrees /\ base \in SkillsReleases
    /\ tool \in [Tools -> SkillsInvocations]
    /\ kept \subseteq Install!SkillSet \X Files

\* One tool has the lock.
SkillsLockInv ==
    /\ \A t \in Tools : tool[t].pc \in SkillsHolding => lock
    /\ \A t, u \in Tools : tool[t].pc \in SkillsHolding /\ tool[u].pc \in SkillsHolding => t = u

\* The position of an invocation in its list of skills, and what it has moved so far.
SkillsPlaced(x) ==
    /\ x.pc = "snapshot" => x.at \in 1..Len(Skills)
    /\ x.pc = "idle" => x.at = 1
    /\ x.pc \in {"plan", "lock", "staged"} => x.at = 1
    /\ x.pc \in SkillsEarly \cup {"staged"} => x.existed = << >>
    /\ x.pc # "done" => x.result = "none"
    /\ x.pc \notin {"idle", "done"} => x.kit \in Kits
    /\ x.pc = "backup" => x.at = Len(x.existed) + 1
    /\ x.pc = "place" => x.at = Len(x.existed) /\ x.at > 0
    /\ x.pc = "remove" => x.at <= Len(x.existed)
    /\ x.pc = "restore" => x.at <= Len(x.existed) /\ x.at > 0
    /\ x.pc \in SkillsWorking => Len(x.existed) <= Len(Skills) + 1
    /\ x.pc = "backup" => x.at <= Len(Skills) + 1

\* What the consumer had edited when the tool looked is wanted, too, and what was moved is in
\* the backup.
SkillsCareful(x) ==
    /\ x.pc \in {"lock"} \cup SkillsHolding =>
          \A s \in Install!SkillSet, f \in Files : x.original[s][f] = Install!Edited => x.desired[s][f] = Install!Edited
    /\ x.pc \in SkillsWorking =>
          \A j \in DOMAIN Skills, f \in Files :
              j <= Len(x.existed) =>
                  /\ x.original[Skills[j]][f] = Install!Edited => x.backup[Skills[j]][f] = Install!Edited
                  /\ x.backup[Skills[j]][f] = Install!Edited => x.existed[j]

\* Which of the skills are in their place.
SkillsInPlace(x, j) ==
    \/ x.pc = "backup"
    \/ x.pc = "place" /\ j # x.at
    \/ x.pc \in {"remove", "restore"} /\ j > x.at

SkillsShown(x, d) ==
    \A j \in DOMAIN Skills, f \in Files :
        SkillsInPlace(x, j) /\ x.original[Skills[j]][f] = Install!Edited => d[Skills[j]][f] = Install!Edited

SkillsSaved(e, t) == t \in Install!Backups /\ tool[t].backup[e[1]][e[2]] = Install!Edited

\* What was kept when the tool that replaces the skills looked again was there, or in the
\* stage that somebody else left.
SkillsRemembered(t) ==
    \A e \in kept : \/ tool[t].original[e[1]][e[2]] = Install!Edited
                    \/ \E u \in Tools \ {t} : SkillsSaved(e, u)

SkillsInv ==
    /\ SkillsTypeInv /\ SkillsLockInv
    /\ \A t \in Tools : SkillsPlaced(tool[t]) /\ SkillsCareful(tool[t]) /\ SkillsShown(tool[t], disk)
    /\ \A t \in Tools : tool[t].pc \in SkillsWorking => SkillsRemembered(t)
    /\ Install!EditsSurvive

LEMMA SkillsFacts ==
    /\ Len(Skills) \in Nat /\ Len(Skills) # 0 /\ DOMAIN Skills = 1..Len(Skills)
    /\ \A j \in DOMAIN Skills : Skills[j] \in Install!SkillSet
    /\ \A s \in Install!SkillSet : \E j \in DOMAIN Skills : s = Skills[j]
    /\ \A i, j \in DOMAIN Skills : Skills[i] = Skills[j] => i = j
    /\ Initial \in SkillsTrees /\ Install!Bare \in SkillsTrees /\ SkillsReleases \subseteq SkillsTrees
    /\ Install!None # Install!Edited
<1>1. Skills \in Seq(Install!SkillSet) /\ Skills # << >> BY InstallAssumption DEF Install!SkillsAssumption
<1>2. Len(Skills) \in Nat /\ Len(Skills) # 0 /\ DOMAIN Skills = 1..Len(Skills) BY <1>1
<1>3. \A i, j \in DOMAIN Skills : Skills[i] = Skills[j] => i = j BY InstallAssumption DEF Install!SkillsAssumption
<1>4. Initial \in SkillsTrees /\ Kits \subseteq SkillsTrees
  <2> SUFFICES ASSUME NEW tree \in Kits \cup {Initial} PROVE tree \in SkillsTrees OBVIOUS
  <2>1. tree = [s \in Install!SkillSet |-> [f \in Files |-> tree[s][f]]]
    BY InstallAssumption DEF Install!SkillsAssumption
  <2>2. \A s \in Install!SkillSet, f \in Files : tree[s][f] \in SkillsContents BY DEF SkillsContents
  <2> QED BY <2>1, <2>2 DEF SkillsTrees
<1>5. Install!Bare \in SkillsTrees
  <2>1. Install!None \in SkillsContents BY DEF SkillsContents
  <2>2. Install!Empty \in [Files -> SkillsContents] BY <2>1 DEF Install!Empty
  <2> QED BY <2>2 DEF Install!Bare, SkillsTrees
<1> QED BY <1>2, <1>3, <1>4, <1>5 DEF Install!SkillSet, SkillsReleases, Install!None, Install!Edited

\* What the plan wants holds every edit it found.
LEMMA SkillsPlanKeepsEdits ==
    ASSUME NEW kit \in Kits, NEW current \in SkillsTrees, NEW previous \in SkillsReleases, NEW update \in BOOLEAN,
           ~Install!Refused(kit, current, previous, update), NEW s \in Install!SkillSet, NEW f \in Files, current[s][f] = Install!Edited
    PROVE  Install!Desired(kit, current, previous)[s][f] = Install!Edited
<1>1. kit[s][f] # Install!Edited BY InstallAssumption DEF Install!SkillsAssumption
<1>2. Install!None # Install!Edited BY DEF Install!None, Install!Edited
<1>3. CASE previous = Install!Bare
  <2>1. ~Install!AdoptionConflict(kit, current) BY <1>3 DEF Install!Refused
  <2>2. current[s] = Install!Empty \/ current[s] = kit[s] BY <2>1 DEF Install!AdoptionConflict
  <2>3. Install!Empty[f] = Install!None BY DEF Install!Empty
  <2> QED BY <1>1, <1>2, <2>2, <2>3
<1>4. CASE previous # Install!Bare
  <2>1. ~Install!ManagedConflict(kit, current, previous) BY <1>4 DEF Install!Refused
  <2>2. previous \in Kits BY <1>4 DEF SkillsReleases
  <2>3. previous[s][f] # Install!Edited BY <2>2, InstallAssumption DEF Install!SkillsAssumption
  <2>4. previous[s][f] = Install!None /\ (kit[s][f] = Install!None \/ current[s][f] = Install!None)
    BY <1>1, <2>1, <2>3 DEF Install!ManagedConflict
  <2> QED BY <1>2, <2>4 DEF Install!Desired
<1> QED BY <1>3, <1>4

LEMMA SkillsDesiredType ==
    ASSUME NEW kit \in Kits, NEW current \in SkillsTrees, NEW previous \in SkillsReleases
    PROVE  Install!Desired(kit, current, previous) \in SkillsTrees
<1>1. kit \in SkillsTrees /\ previous \in SkillsTrees BY SkillsFacts DEF SkillsReleases
<1> QED BY <1>1 DEF Install!Desired, SkillsTrees, SkillsContents

LEMMA SkillsInit == Install!Init => SkillsInv
<1> SUFFICES ASSUME Install!Init PROVE SkillsInv OBVIOUS
<1>1. \A t \in Tools : tool[t] = Install!NewTool BY DEF Install!Init
<1>2. Install!NewTool \in SkillsInvocations
  <2>1. "idle" \in SkillsEarly \cup SkillsHolding \cup {"done"} /\ Install!Bare \in SkillsReleases /\ Install!Bare \in SkillsTrees
        /\ "none" \in SkillsResults /\ << >> \in Seq(BOOLEAN)
    BY SkillsFacts DEF SkillsEarly, SkillsReleases, SkillsResults
  <2> QED BY <2>1 DEF Install!NewTool, SkillsInvocations
<1>3. SkillsTypeInv BY <1>1, <1>2, SkillsFacts DEF Install!Init, SkillsTypeInv, SkillsReleases
<1>4. Install!NewTool.pc = "idle" /\ Install!NewTool.at = 1 /\ Install!NewTool.existed = << >> /\ Install!NewTool.result = "none"
  BY DEF Install!NewTool
<1>5. SkillsLockInv BY <1>1, <1>4 DEF SkillsLockInv, SkillsHolding, SkillsWorking
<1>6. \A t \in Tools : SkillsPlaced(tool[t]) /\ SkillsCareful(tool[t]) /\ SkillsShown(tool[t], disk)
  BY <1>1, <1>4 DEF SkillsPlaced, SkillsCareful, SkillsShown, SkillsInPlace, SkillsHolding, SkillsWorking
<1>7. Install!EditsSurvive BY DEF Install!Init, Install!EditsSurvive
<1> QED BY <1>1, <1>3, <1>4, <1>5, <1>6, <1>7 DEF SkillsInv, SkillsWorking

\* A tool that replaces nothing takes a step.
LEMMA SkillsQuietTool ==
    ASSUME SkillsInv, NEW t \in Tools, NEW y \in SkillsInvocations, tool' = [tool EXCEPT ![t] = y],
           UNCHANGED <<disk, base, kept>>, tool[t].pc \in SkillsEarly \cup {"staged"},
           SkillsPlaced(y), SkillsCareful(y), SkillsShown(y, disk),
           y.pc \in SkillsHolding => lock' /\ \A u \in Tools \ {t} : tool[u].pc \notin SkillsHolding,
           \A u \in Tools \ {t} : tool[u].pc \in SkillsHolding => lock',
           y.pc \in SkillsWorking => y.original = disk
    PROVE  SkillsInv'
<1>1. tool \in [Tools -> SkillsInvocations] BY DEF SkillsInv, SkillsTypeInv
<1>2. tool'[t] = y /\ \A u \in Tools \ {t} : tool'[u] = tool[u] BY <1>1
<1>3. SkillsTypeInv' BY <1>1 DEF SkillsInv, SkillsTypeInv
<1>4. SkillsLockInv'
  <2>1. ASSUME NEW u \in Tools, tool'[u].pc \in SkillsHolding PROVE lock' BY <1>2, <2>1
  <2>2. ASSUME NEW u \in Tools, NEW v \in Tools, tool'[u].pc \in SkillsHolding, tool'[v].pc \in SkillsHolding PROVE u = v
    BY <1>2, <2>2 DEF SkillsInv, SkillsLockInv
  <2> QED BY <2>1, <2>2 DEF SkillsLockInv
<1>5. \A u \in Tools : SkillsPlaced(tool'[u]) /\ SkillsCareful(tool'[u]) /\ SkillsShown(tool'[u], disk')
  BY <1>2 DEF SkillsInv
<1>6. t \notin Install!Backups
  <2>1. tool[t].result = "none" BY DEF SkillsInv, SkillsPlaced, SkillsEarly
  <2> QED BY <2>1 DEF Install!Backups, SkillsEarly
<1>7. \A e \in kept, u \in Tools : SkillsSaved(e, u) => u # t /\ SkillsSaved(e, u)'
  BY <1>2, <1>6 DEF SkillsSaved, Install!Backups
<1>8. \A e \in kept : disk[e[1]][e[2]] = Install!Edited \/ \E u \in Tools : SkillsSaved(e, u)
  BY DEF SkillsInv, Install!EditsSurvive, SkillsSaved, Install!Backups
<1>9. Install!EditsSurvive'
  <2>1. \A e \in kept : disk[e[1]][e[2]] = Install!Edited \/ \E u \in Tools : SkillsSaved(e, u)' BY <1>7, <1>8
  <2> QED BY <2>1 DEF Install!EditsSurvive, SkillsSaved
<1>10. ASSUME NEW u \in Tools, tool'[u].pc \in SkillsWorking PROVE SkillsRemembered(u)'
  <2>1. CASE u = t
    <3>1. tool'[t].original = disk BY <1>2, <1>10, <2>1
    <3>2. \A e \in kept : tool'[t].original[e[1]][e[2]] = Install!Edited \/ \E v \in Tools \ {t} : SkillsSaved(e, v)'
      BY <1>7, <1>8, <3>1
    <3> QED BY <2>1, <3>2 DEF SkillsRemembered
  <2>2. CASE u # t
    <3>1. SkillsRemembered(u) /\ tool'[u].original = tool[u].original BY <1>2, <1>10, <2>2 DEF SkillsInv
    <3>2. \A e \in kept : tool'[u].original[e[1]][e[2]] = Install!Edited \/ \E v \in Tools \ {u} : SkillsSaved(e, v)'
      BY <1>7, <3>1 DEF SkillsRemembered
    <3> QED BY <3>2 DEF SkillsRemembered
  <2> QED BY <2>1, <2>2
<1> QED BY <1>3, <1>4, <1>5, <1>9, <1>10 DEF SkillsInv

\* The tool that has the lock takes a step among the skills, or ends.
LEMMA SkillsWorkStep ==
    ASSUME SkillsInv, NEW t \in Tools, NEW y \in SkillsInvocations, tool' = [tool EXCEPT ![t] = y],
           disk' \in SkillsTrees, base' \in SkillsReleases, kept' = kept, tool[t].pc \in SkillsWorking,
           SkillsPlaced(y), SkillsCareful(y), SkillsShown(y, disk'), y.original = tool[t].original,
           y.pc \in SkillsWorking \cup {"done"}, y.pc \in SkillsWorking => lock' = lock,
           \A s \in Install!SkillSet, f \in Files : y.original[s][f] = Install!Edited =>
               \/ disk'[s][f] = Install!Edited
               \/ (y.pc \in SkillsWorking \/ y.result \in {"recoverable", "killed"}) /\ y.backup[s][f] = Install!Edited
    PROVE  SkillsInv'
<1>1. tool \in [Tools -> SkillsInvocations] BY DEF SkillsInv, SkillsTypeInv
<1>2. tool'[t] = y /\ \A u \in Tools \ {t} : tool'[u] = tool[u] BY <1>1
<1>3. SkillsTypeInv' BY <1>1 DEF SkillsInv, SkillsTypeInv
<1>4. tool[t].pc \in SkillsHolding /\ \A u \in Tools \ {t} : tool[u].pc \notin SkillsHolding
  BY DEF SkillsInv, SkillsLockInv, SkillsHolding
<1>5. SkillsLockInv'
  <2>1. \A u \in Tools : tool'[u].pc \in SkillsHolding => u = t /\ y.pc \in SkillsWorking
    BY <1>2, <1>4 DEF SkillsHolding, SkillsWorking
  <2>2. lock BY <1>4 DEF SkillsInv, SkillsLockInv
  <2> QED BY <2>1, <2>2 DEF SkillsLockInv
<1>6. \A u \in Tools : SkillsPlaced(tool'[u]) /\ SkillsCareful(tool'[u]) BY <1>2 DEF SkillsInv
<1>7. \A u \in Tools : SkillsShown(tool'[u], disk')
  <2>1. ASSUME NEW u \in Tools \ {t} PROVE SkillsShown(tool'[u], disk')
    <3>1. tool'[u].pc \notin SkillsWorking BY <1>2, <1>4 DEF SkillsHolding
    <3> QED BY <3>1 DEF SkillsShown, SkillsInPlace, SkillsWorking
  <2> QED BY <1>2, <2>1
<1>8. \A e \in kept, u \in Tools \ {t} : SkillsSaved(e, u) => SkillsSaved(e, u)'
  BY <1>2 DEF SkillsSaved, Install!Backups
<1>9. \A e \in kept : y.original[e[1]][e[2]] = Install!Edited \/ \E u \in Tools \ {t} : SkillsSaved(e, u)'
  BY <1>8 DEF SkillsInv, SkillsRemembered
<1>10. Install!EditsSurvive'
  <2>1. \A e \in kept : e[1] \in Install!SkillSet /\ e[2] \in Files BY DEF SkillsInv, SkillsTypeInv
  <2>2. ASSUME NEW e \in kept PROVE disk'[e[1]][e[2]] = Install!Edited \/ \E u \in Tools : SkillsSaved(e, u)'
    <3>1. CASE \E u \in Tools \ {t} : SkillsSaved(e, u)' BY <3>1
    <3>2. CASE y.original[e[1]][e[2]] = Install!Edited
      <4>1. disk'[e[1]][e[2]] = Install!Edited \/ ((y.pc \in SkillsWorking \/ y.result \in {"recoverable", "killed"}) /\ y.backup[e[1]][e[2]] = Install!Edited)
        BY <2>1, <3>2
      <4> QED BY <1>2, <4>1 DEF SkillsSaved, Install!Backups, SkillsWorking
    <3> QED BY <1>9, <3>1, <3>2
  <2> QED BY <2>2 DEF Install!EditsSurvive, SkillsSaved
<1>11. ASSUME NEW u \in Tools, tool'[u].pc \in SkillsWorking PROVE SkillsRemembered(u)'
  <2>1. u = t BY <1>2, <1>4, <1>11 DEF SkillsHolding
  <2> QED BY <1>2, <1>9, <2>1 DEF SkillsRemembered
<1> QED BY <1>3, <1>5, <1>6, <1>7, <1>10, <1>11 DEF SkillsInv

LEMMA SkillsStepType ==
    ASSUME SkillsInv, NEW t \in Tools
    PROVE  tool[t] \in SkillsInvocations /\ SkillsPlaced(tool[t]) /\ SkillsCareful(tool[t]) /\ SkillsShown(tool[t], disk)
BY DEF SkillsInv, SkillsTypeInv

\* A tool ends.
SkillsEnded(x, r) == [x EXCEPT !.pc = "done", !.result = r]

LEMMA SkillsEndType ==
    ASSUME NEW x \in SkillsInvocations, NEW r \in SkillsResults, NEW d, NEW y, y = SkillsEnded(x, r)
    PROVE  /\ y \in SkillsInvocations /\ y.pc = "done" /\ y.result = r /\ y.original = x.original /\ y.backup = x.backup
           /\ SkillsPlaced(y) /\ SkillsCareful(y) /\ SkillsShown(y, d)
<1>1. y \in SkillsInvocations /\ y.pc = "done" /\ y.result = r /\ y.original = x.original /\ y.backup = x.backup
  BY DEF SkillsInvocations, SkillsEnded
<1> QED BY <1>1 DEF SkillsPlaced, SkillsCareful, SkillsShown, SkillsInPlace, SkillsEarly, SkillsHolding,
    SkillsWorking

LEMMA SkillsPrepareSteps ==
    ASSUME SkillsInv, NEW t \in Tools,
           (\E kit \in Kits, update \in BOOLEAN : Install!Begin(t, kit, update)) \/ Install!Snapshot(t) \/ Install!Plan(t) \/ Install!Lock(t)
           \/ Install!Recheck(t) \/ Install!StageFails(t)
    PROVE  SkillsInv'
<1>1. PICK x : x = tool[t] OBVIOUS
<1>2. x \in SkillsInvocations /\ SkillsPlaced(x) /\ SkillsCareful(x) /\ SkillsShown(x, disk) BY <1>1, SkillsStepType
<1>3. \A u \in Tools \ {t} : tool[u].pc \in SkillsHolding => lock BY DEF SkillsInv, SkillsLockInv
<1>4. x.pc = "staged" => \A u \in Tools \ {t} : tool[u].pc \notin SkillsHolding
  BY <1>1 DEF SkillsInv, SkillsLockInv, SkillsHolding
<1>5. CASE \E kit \in Kits, update \in BOOLEAN : Install!Begin(t, kit, update)
  <2>1. PICK kit \in Kits, update \in BOOLEAN : Install!Begin(t, kit, update) BY <1>5
  <2>2. PICK y : y = [x EXCEPT !.pc = "snapshot", !.kit = kit, !.update = update] OBVIOUS
  <2>3. x.pc = "idle" /\ tool' = [tool EXCEPT ![t] = y] /\ UNCHANGED <<disk, base, lock, kept>>
    BY <1>1, <2>1, <2>2 DEF Install!Begin, Install!At, Install!Set
  <2>4. /\ y \in SkillsInvocations /\ y.pc = "snapshot" /\ y.kit = kit /\ y.at = x.at /\ y.existed = x.existed
        /\ y.result = x.result
    BY <1>2, <2>2 DEF SkillsInvocations, SkillsEarly, SkillsReleases
  <2>5. SkillsPlaced(y)
    <3>1. x.at = 1 /\ x.existed = << >> /\ x.result = "none" BY <1>2, <2>3 DEF SkillsPlaced, SkillsEarly
    <3> QED BY <2>4, <3>1, SkillsFacts DEF SkillsPlaced, SkillsWorking
  <2>6. SkillsCareful(y) /\ SkillsShown(y, disk)
    BY <2>4 DEF SkillsCareful, SkillsShown, SkillsInPlace, SkillsHolding, SkillsWorking
  <2> QED BY <1>1, <1>3, <2>3, <2>4, <2>5, <2>6, SkillsQuietTool DEF SkillsEarly, SkillsHolding, SkillsWorking
<1>6. CASE Install!Snapshot(t)
  <2>1. x.pc = "snapshot" /\ UNCHANGED <<disk, base, lock, kept>> BY <1>1, <1>6 DEF Install!Snapshot, Install!At
  <2>2. x.at \in 1..Len(Skills) /\ x.at \in DOMAIN Skills BY <1>2, <2>1, SkillsFacts DEF SkillsPlaced
  <2>3. PICK y : y = [x EXCEPT !.original[Skills[x.at]] = disk[Skills[x.at]], !.pc = IF x.at = Len(Skills) THEN "plan" ELSE @,
                               !.at = IF x.at = Len(Skills) THEN 1 ELSE @ + 1]
    OBVIOUS
  <2>4. tool' = [tool EXCEPT ![t] = y] BY <1>1, <1>6, <2>3 DEF Install!Snapshot, Install!Set
  <2>5. Skills[x.at] \in Install!SkillSet /\ disk \in SkillsTrees BY <2>2, SkillsFacts DEF SkillsInv, SkillsTypeInv
  <2>6. disk[Skills[x.at]] \in [Files -> SkillsContents] BY <2>5 DEF SkillsTrees
  <2>7. [x.original EXCEPT ![Skills[x.at]] = disk[Skills[x.at]]] \in SkillsTrees
    BY <1>2, <2>5, <2>6 DEF SkillsTrees, SkillsInvocations
  <2>8. /\ y \in SkillsInvocations /\ y.pc \in {"snapshot", "plan"} /\ y.kit = x.kit /\ y.existed = x.existed /\ y.result = x.result
        /\ y.pc = "plan" => y.at = 1
        /\ y.pc = "snapshot" => y.at = x.at + 1 /\ x.at # Len(Skills)
    <3>1. x.at \in Nat /\ x.at + 1 \in Nat BY <1>2 DEF SkillsInvocations
    <3>2. CASE x.at = Len(Skills)
      <4>1. y = [x EXCEPT !.original = [x.original EXCEPT ![Skills[x.at]] = disk[Skills[x.at]]], !.pc = "plan", !.at = 1]
        BY <1>2, <2>3, <3>2 DEF SkillsInvocations
      <4> QED BY <1>2, <2>7, <3>2, <4>1 DEF SkillsInvocations, SkillsEarly
    <3>3. CASE x.at # Len(Skills)
      <4>1. y = [x EXCEPT !.original = [x.original EXCEPT ![Skills[x.at]] = disk[Skills[x.at]]], !.at = x.at + 1]
        BY <1>2, <2>3, <3>3 DEF SkillsInvocations
      <4> QED BY <1>2, <2>1, <2>7, <3>1, <3>3, <4>1 DEF SkillsInvocations
    <3> QED BY <3>2, <3>3
  <2>9. SkillsPlaced(y)
    <3>1. x.existed = << >> /\ x.result = "none" /\ x.kit \in Kits BY <1>2, <2>1 DEF SkillsPlaced, SkillsEarly
    <3>2. y.pc = "snapshot" => y.at \in 1..Len(Skills) BY <2>2, <2>8, SkillsFacts
    <3> QED BY <2>8, <3>1, <3>2 DEF SkillsPlaced, SkillsWorking
  <2>10. SkillsCareful(y) /\ SkillsShown(y, disk)
    BY <2>8 DEF SkillsCareful, SkillsShown, SkillsInPlace, SkillsHolding, SkillsWorking
  <2> QED BY <1>1, <1>3, <2>1, <2>4, <2>8, <2>9, <2>10, SkillsQuietTool DEF SkillsEarly, SkillsHolding,
      SkillsWorking
<1>7. CASE Install!Plan(t)
  <2>1. x.pc = "plan" /\ UNCHANGED <<disk, base, lock, kept>> BY <1>1, <1>7 DEF Install!Plan, Install!At
  <2>2. ASSUME NEW r \in SkillsResults, Install!Ends(t, r) PROVE SkillsInv'
    <3>1. PICK y : y = SkillsEnded(x, r) OBVIOUS
    <3>2. tool' = [tool EXCEPT ![t] = y] BY <1>1, <2>2, <3>1 DEF Install!Ends, Install!Set, SkillsEnded
    <3>3. y \in SkillsInvocations /\ y.pc = "done" /\ SkillsPlaced(y) /\ SkillsCareful(y) /\ SkillsShown(y, disk)
      BY <1>2, <3>1, SkillsEndType
    <3> QED BY <1>1, <1>3, <2>1, <3>2, <3>3, SkillsQuietTool DEF SkillsEarly, SkillsHolding, SkillsWorking
  <2>3. PICK want : want = Install!Desired(x.kit, x.original, base) OBVIOUS
  <2>4. x.kit \in Kits /\ x.original \in SkillsTrees /\ base \in SkillsReleases /\ x.update \in BOOLEAN
    BY <1>2, <2>1 DEF SkillsPlaced, SkillsInvocations, SkillsInv, SkillsTypeInv
  <2>5. ASSUME ~Install!Refused(x.kit, x.original, base, x.update),
               Install!Set(t, [x EXCEPT !.pc = "lock", !.previous = base, !.desired = want])
        PROVE  SkillsInv'
    <3>1. PICK y : y = [x EXCEPT !.pc = "lock", !.previous = base, !.desired = want] OBVIOUS
    <3>2. tool' = [tool EXCEPT ![t] = y] BY <2>5, <3>1 DEF Install!Set
    <3>3. want \in SkillsTrees BY <2>3, <2>4, SkillsDesiredType
    <3>4. /\ y \in SkillsInvocations /\ y.pc = "lock" /\ y.kit = x.kit /\ y.at = x.at /\ y.existed = x.existed
          /\ y.result = x.result /\ y.original = x.original /\ y.desired = want
      BY <1>2, <2>4, <3>1, <3>3 DEF SkillsInvocations, SkillsEarly
    <3>5. SkillsPlaced(y)
      <4>1. x.at = 1 /\ x.existed = << >> /\ x.result = "none" BY <1>2, <2>1 DEF SkillsPlaced, SkillsEarly
      <4> QED BY <2>4, <3>4, <4>1 DEF SkillsPlaced, SkillsWorking
    <3>6. \A s \in Install!SkillSet, f \in Files : x.original[s][f] = Install!Edited => want[s][f] = Install!Edited
      BY <2>3, <2>4, <2>5, SkillsPlanKeepsEdits
    <3>7. SkillsCareful(y) /\ SkillsShown(y, disk)
      BY <3>4, <3>6 DEF SkillsCareful, SkillsShown, SkillsInPlace, SkillsHolding, SkillsWorking
    <3> QED BY <1>1, <1>3, <2>1, <3>2, <3>4, <3>5, <3>7, SkillsQuietTool DEF SkillsEarly, SkillsHolding,
        SkillsWorking
  <2>6. {"refused", "unchanged"} \subseteq SkillsResults BY DEF SkillsResults
  <2> QED BY <1>1, <1>7, <2>2, <2>3, <2>5, <2>6 DEF Install!Plan
<1>8. CASE Install!Lock(t) /\ lock
  <2>1. x.pc = "lock" /\ UNCHANGED <<disk, base, kept>> /\ lock' /\ Install!Ends(t, "locked")
    BY <1>1, <1>8 DEF Install!Lock, Install!At
  <2>2. PICK y : y = SkillsEnded(x, "locked") OBVIOUS
  <2>3. tool' = [tool EXCEPT ![t] = y] BY <1>1, <2>1, <2>2 DEF Install!Ends, Install!Set, SkillsEnded
  <2>4. y \in SkillsInvocations /\ y.pc = "done" /\ SkillsPlaced(y) /\ SkillsCareful(y) /\ SkillsShown(y, disk)
    BY <1>2, <2>2, SkillsEndType DEF SkillsResults
  <2> QED BY <1>1, <2>1, <2>3, <2>4, SkillsQuietTool DEF SkillsEarly, SkillsHolding, SkillsWorking
<1>9. CASE Install!Lock(t) /\ ~lock
  <2>1. x.pc = "lock" /\ UNCHANGED <<disk, base, kept>> /\ lock' BY <1>1, <1>9 DEF Install!Lock, Install!At
  <2>2. PICK y : y = [x EXCEPT !.pc = "staged"] OBVIOUS
  <2>3. tool' = [tool EXCEPT ![t] = y] BY <1>1, <1>9, <2>2 DEF Install!Lock, Install!Set
  <2>4. /\ y \in SkillsInvocations /\ y.pc = "staged" /\ y.kit = x.kit /\ y.at = x.at /\ y.existed = x.existed
        /\ y.result = x.result /\ y.original = x.original /\ y.desired = x.desired
    BY <1>2, <2>2 DEF SkillsInvocations, SkillsHolding
  <2>5. SkillsPlaced(y)
    <3>1. x.at = 1 /\ x.existed = << >> /\ x.result = "none" /\ x.kit \in Kits
      BY <1>2, <2>1 DEF SkillsPlaced, SkillsEarly
    <3> QED BY <2>4, <3>1 DEF SkillsPlaced, SkillsWorking
  <2>6. SkillsCareful(y) /\ SkillsShown(y, disk)
    BY <1>2, <2>1, <2>4 DEF SkillsCareful, SkillsShown, SkillsInPlace, SkillsHolding, SkillsWorking
  <2> QED BY <1>1, <1>3, <1>9, <2>1, <2>3, <2>4, <2>5, <2>6, SkillsQuietTool DEF SkillsEarly, SkillsWorking
<1>10. CASE Install!Recheck(t) /\ Install!StillUnchanged(t)
  <2>1. x.pc = "staged" /\ UNCHANGED <<disk, base, lock, kept>> BY <1>1, <1>10 DEF Install!Recheck, Install!At
  <2>2. PICK y : y = [x EXCEPT !.pc = "backup"] OBVIOUS
  <2>3. tool' = [tool EXCEPT ![t] = y] BY <1>1, <1>10, <2>2 DEF Install!Recheck, Install!Set
  <2>4. /\ y \in SkillsInvocations /\ y.pc = "backup" /\ y.kit = x.kit /\ y.at = x.at /\ y.existed = x.existed
        /\ y.result = x.result /\ y.original = x.original /\ y.desired = x.desired
    BY <1>2, <2>2 DEF SkillsInvocations, SkillsHolding, SkillsWorking
  <2>5. x.at = 1 /\ x.existed = << >> /\ x.result = "none" /\ x.kit \in Kits BY <1>2, <2>1 DEF SkillsPlaced
  <2>6. SkillsPlaced(y) BY <2>4, <2>5, SkillsFacts DEF SkillsPlaced, SkillsEarly
  <2>7. disk = x.original BY <1>1, <1>10 DEF Install!StillUnchanged
  <2>8. SkillsCareful(y)
    <3>1. \A s \in Install!SkillSet, f \in Files : x.original[s][f] = Install!Edited => x.desired[s][f] = Install!Edited
      BY <1>2, <2>1 DEF SkillsCareful, SkillsHolding
    <3>2. \A j \in DOMAIN Skills : ~(j <= Len(y.existed)) BY <2>4, <2>5, SkillsFacts
    <3> QED BY <2>4, <3>1, <3>2 DEF SkillsCareful
  <2>9. SkillsShown(y, disk) BY <2>4, <2>7 DEF SkillsShown
  <2>10. lock /\ \A u \in Tools \ {t} : tool[u].pc \notin SkillsHolding
    BY <1>1, <1>4, <2>1 DEF SkillsInv, SkillsLockInv, SkillsHolding
  <2> QED BY <1>1, <2>1, <2>3, <2>4, <2>6, <2>7, <2>8, <2>9, <2>10, SkillsQuietTool
<1>11. CASE (Install!Recheck(t) /\ ~Install!StillUnchanged(t)) \/ Install!StageFails(t)
  <2>1. PICK r \in SkillsResults : Install!Ends(t, r)
    BY <1>11 DEF Install!Recheck, Install!StageFails, SkillsResults
  <2>2. x.pc = "staged" /\ UNCHANGED <<disk, base, kept>>
    BY <1>1, <1>11 DEF Install!Recheck, Install!StageFails, Install!At
  <2>3. PICK y : y = SkillsEnded(x, r) OBVIOUS
  <2>4. tool' = [tool EXCEPT ![t] = y] BY <1>1, <2>1, <2>3 DEF Install!Ends, Install!Set, SkillsEnded
  <2>5. y \in SkillsInvocations /\ y.pc = "done" /\ SkillsPlaced(y) /\ SkillsCareful(y) /\ SkillsShown(y, disk)
    BY <1>2, <2>3, SkillsEndType
  <2> QED BY <1>1, <1>4, <2>2, <2>4, <2>5, SkillsQuietTool DEF SkillsHolding, SkillsWorking
<1> QED BY <1>5, <1>6, <1>7, <1>8, <1>9, <1>10, <1>11

\* What the consumer had edited is in its place or in the backup.
LEMMA SkillsCovered ==
    ASSUME NEW x \in SkillsInvocations, NEW d, SkillsPlaced(x), SkillsCareful(x), SkillsShown(x, d), x.pc \in SkillsWorking,
           NEW s \in Install!SkillSet, NEW f \in Files, x.original[s][f] = Install!Edited
    PROVE  d[s][f] = Install!Edited \/ x.backup[s][f] = Install!Edited
<1>1. PICK j \in DOMAIN Skills : s = Skills[j] BY SkillsFacts
<1>2. j \in Nat /\ x.at \in Nat /\ Len(x.existed) \in Nat BY SkillsFacts DEF SkillsInvocations
<1>3. CASE SkillsInPlace(x, j) BY <1>1, <1>3 DEF SkillsShown
<1>4. CASE ~SkillsInPlace(x, j)
  <2>1. j <= Len(x.existed) BY <1>2, <1>4 DEF SkillsInPlace, SkillsPlaced, SkillsWorking
  <2> QED BY <1>1, <2>1 DEF SkillsCareful
<1> QED BY <1>3, <1>4

LEMMA SkillsBackupStep == ASSUME SkillsInv, NEW t \in Tools, Install!Backup(t) PROVE SkillsInv'
<1>1. PICK x : x = tool[t] OBVIOUS
<1>2. x \in SkillsInvocations /\ SkillsPlaced(x) /\ SkillsCareful(x) /\ SkillsShown(x, disk) BY <1>1, SkillsStepType
<1>3. x.pc = "backup" /\ UNCHANGED <<lock, kept>> BY <1>1 DEF Install!Backup, Install!At
<1>4. /\ x.existed \in Seq(BOOLEAN) /\ Len(x.existed) \in Nat /\ x.at = Len(x.existed) + 1 /\ x.at <= Len(Skills) + 1
      /\ x.result = "none" /\ x.kit \in Kits
  BY <1>2, <1>3 DEF SkillsInvocations, SkillsPlaced
<1>5. disk \in SkillsTrees /\ base \in SkillsReleases BY DEF SkillsInv, SkillsTypeInv
<1>6. PICK b \in BOOLEAN : b = Install!Exists(t) BY DEF Install!Exists
<1>7. PICK q : q = Append(x.existed, b) OBVIOUS
<1>8. /\ q \in Seq(BOOLEAN) /\ Len(q) = x.at /\ q[x.at] = b
      /\ \A j \in 1..Len(x.existed) : q[j] = x.existed[j]
  BY <1>4, <1>7
<1>9. CASE Install!InSkills(t)
  <2>1. x.at \in DOMAIN Skills /\ Skills[x.at] \in Install!SkillSet
    BY <1>1, <1>4, <1>9, SkillsFacts DEF Install!InSkills
  <2>2. PICK n \in Install!SkillSet : n = Skills[x.at] BY <2>1
  <2>3. disk[n] \in [Files -> SkillsContents] BY <1>5 DEF SkillsTrees
  <2>4. PICK b2 : b2 = [x.backup EXCEPT ![n] = disk[n]] OBVIOUS
  <2>5. x.backup \in SkillsTrees /\ b2 \in SkillsTrees BY <1>2, <2>3, <2>4 DEF SkillsTrees, SkillsInvocations
  <2>6. PICK y : y = [x EXCEPT !.pc = "place", !.existed = q, !.backup = b2] OBVIOUS
  <2>7. /\ y \in SkillsInvocations /\ y.pc = "place" /\ y.existed = q /\ y.backup = b2 /\ y.original = x.original
        /\ y.desired = x.desired /\ y.at = x.at /\ y.result = x.result /\ y.kit = x.kit
    BY <1>2, <1>8, <2>5, <2>6 DEF SkillsInvocations, SkillsHolding, SkillsWorking
  <2>8. tool' = [tool EXCEPT ![t] = y]
    <3>1. tool' = [tool EXCEPT ![t] = [[x EXCEPT !.pc = "place", !.existed = Append(@, b)] EXCEPT !.backup[n] = disk[n]]]
      BY <1>1, <1>6, <1>9, <2>2 DEF Install!Backup, Install!Set, Install!Name
    <3>2. y = [[x EXCEPT !.pc = "place", !.existed = Append(@, b)] EXCEPT !.backup[n] = disk[n]]
      BY <1>2, <1>7, <2>4, <2>6 DEF SkillsInvocations
    <3> QED BY <3>1, <3>2
  <2>9. disk' = [disk EXCEPT ![n] = Install!Empty] /\ base' = base
    BY <1>1, <1>9, <2>2 DEF Install!Backup, Install!Name
  <2>10. disk' \in SkillsTrees
    <3>1. Install!Empty \in [Files -> SkillsContents] BY DEF Install!Empty, SkillsContents
    <3> QED BY <1>5, <2>9, <3>1 DEF SkillsTrees
  <2>11. SkillsPlaced(y)
    <3>1. x.at <= Len(Skills) + 1 /\ x.at > 0 BY <1>4
    <3> QED BY <1>4, <1>8, <2>7, <3>1, SkillsFacts DEF SkillsPlaced, SkillsEarly, SkillsWorking
  <2>12. SkillsCareful(y)
    <3>1. \A s \in Install!SkillSet, f \in Files : x.original[s][f] = Install!Edited => x.desired[s][f] = Install!Edited
      BY <1>2, <1>3 DEF SkillsCareful, SkillsHolding, SkillsWorking
    <3>2. ASSUME NEW j \in DOMAIN Skills, NEW f \in Files, j <= Len(q)
          PROVE  /\ x.original[Skills[j]][f] = Install!Edited => b2[Skills[j]][f] = Install!Edited
                 /\ b2[Skills[j]][f] = Install!Edited => q[j]
      <4>1. CASE j = x.at
        <5>1. b2[n] = disk[n] BY <2>4, <2>5 DEF SkillsTrees
        <5>2. x.original[n][f] = Install!Edited => disk[n][f] = Install!Edited
          BY <1>2, <1>3, <2>2, <2>1 DEF SkillsShown, SkillsInPlace
        <5>3. disk[n][f] = Install!Edited => disk[n] # Install!Empty BY SkillsFacts DEF Install!Empty
        <5>4. b = (disk[n] # Install!Empty) BY <1>1, <1>6, <1>9, <2>2 DEF Install!Exists, Install!Name
        <5> QED BY <1>8, <2>2, <4>1, <5>1, <5>2, <5>3, <5>4
      <4>2. CASE j # x.at
        <5>1. j \in 1..Len(x.existed) BY <1>4, <1>8, <3>2, <4>2, SkillsFacts
        <5>2. Skills[j] # n /\ Skills[j] \in Install!SkillSet BY <2>1, <2>2, <4>2, SkillsFacts
        <5>3. b2[Skills[j]] = x.backup[Skills[j]] BY <2>4, <2>5, <5>2 DEF SkillsTrees
        <5>4. /\ x.original[Skills[j]][f] = Install!Edited => x.backup[Skills[j]][f] = Install!Edited
              /\ x.backup[Skills[j]][f] = Install!Edited => x.existed[j]
          BY <1>2, <1>3, <5>1 DEF SkillsCareful, SkillsWorking
        <5> QED BY <1>8, <5>1, <5>3, <5>4
      <4> QED BY <4>1, <4>2
    <3> QED BY <2>7, <3>1, <3>2 DEF SkillsCareful
  <2>13. SkillsShown(y, disk')
    <3> SUFFICES ASSUME NEW j \in DOMAIN Skills, NEW f \in Files, SkillsInPlace(y, j), y.original[Skills[j]][f] = Install!Edited
                 PROVE  disk'[Skills[j]][f] = Install!Edited
      BY DEF SkillsShown
    <3>1. j # x.at BY <2>7 DEF SkillsInPlace
    <3>2. Skills[j] # n /\ Skills[j] \in Install!SkillSet BY <2>1, <2>2, <3>1, SkillsFacts
    <3>3. disk'[Skills[j]] = disk[Skills[j]] BY <1>5, <2>9, <3>2 DEF SkillsTrees
    <3>4. disk[Skills[j]][f] = Install!Edited BY <1>2, <1>3, <2>7 DEF SkillsShown, SkillsInPlace
    <3> QED BY <3>3, <3>4
  <2>14. \A s \in Install!SkillSet, f \in Files : y.original[s][f] = Install!Edited => disk'[s][f] = Install!Edited \/ y.backup[s][f] = Install!Edited
    BY <2>7, <2>11, <2>12, <2>13, SkillsCovered DEF SkillsWorking
  <2> QED BY <1>1, <1>3, <1>5, <2>7, <2>8, <2>9, <2>10, <2>11, <2>12, <2>13, <2>14, SkillsWorkStep DEF SkillsWorking
<1>10. CASE ~Install!InSkills(t)
  <2>1. x.at = Len(Skills) + 1 BY <1>1, <1>4, <1>10, SkillsFacts DEF Install!InSkills
  <2>2. PICK y : y = [x EXCEPT !.pc = "place", !.existed = q, !.backupBase = base] OBVIOUS
  <2>3. /\ y \in SkillsInvocations /\ y.pc = "place" /\ y.existed = q /\ y.backup = x.backup /\ y.original = x.original
        /\ y.desired = x.desired /\ y.at = x.at /\ y.result = x.result /\ y.kit = x.kit
    BY <1>2, <1>5, <1>8, <2>2 DEF SkillsInvocations, SkillsHolding, SkillsWorking
  <2>4. tool' = [tool EXCEPT ![t] = y]
    <3>1. tool' = [tool EXCEPT ![t] = [[x EXCEPT !.pc = "place", !.existed = Append(@, b)] EXCEPT !.backupBase = base]]
      BY <1>1, <1>6, <1>10 DEF Install!Backup, Install!Set
    <3>2. y = [[x EXCEPT !.pc = "place", !.existed = Append(@, b)] EXCEPT !.backupBase = base]
      BY <1>2, <1>7, <2>2 DEF SkillsInvocations
    <3> QED BY <3>1, <3>2
  <2>5. disk' = disk /\ base' \in SkillsReleases BY <1>10 DEF Install!Backup, SkillsReleases
  <2>6. SkillsPlaced(y)
    <3>1. x.at <= Len(Skills) + 1 /\ x.at > 0 BY <1>4
    <3> QED BY <1>4, <1>8, <2>3, <3>1, SkillsFacts DEF SkillsPlaced, SkillsEarly, SkillsWorking
  <2>7. \A j \in DOMAIN Skills : j # x.at /\ j \in 1..Len(x.existed) BY <1>4, <2>1, SkillsFacts
  <2>8. SkillsCareful(y)
    <3>1. \A s \in Install!SkillSet, f \in Files : x.original[s][f] = Install!Edited => x.desired[s][f] = Install!Edited
      BY <1>2, <1>3 DEF SkillsCareful, SkillsHolding, SkillsWorking
    <3>2. ASSUME NEW j \in DOMAIN Skills, NEW f \in Files
          PROVE  /\ x.original[Skills[j]][f] = Install!Edited => x.backup[Skills[j]][f] = Install!Edited
                 /\ x.backup[Skills[j]][f] = Install!Edited => q[j]
      <4>1. j \in 1..Len(x.existed) BY <2>7
      <4>2. /\ x.original[Skills[j]][f] = Install!Edited => x.backup[Skills[j]][f] = Install!Edited
            /\ x.backup[Skills[j]][f] = Install!Edited => x.existed[j]
        BY <1>2, <1>3, <4>1 DEF SkillsCareful, SkillsWorking
      <4> QED BY <1>8, <4>1, <4>2
    <3> QED BY <2>3, <3>1, <3>2 DEF SkillsCareful
  <2>9. SkillsShown(y, disk') BY <1>2, <1>3, <2>3, <2>5 DEF SkillsShown, SkillsInPlace
  <2>10. \A s \in Install!SkillSet, f \in Files : y.original[s][f] = Install!Edited => disk'[s][f] = Install!Edited \/ y.backup[s][f] = Install!Edited
    BY <2>3, <2>6, <2>8, <2>9, SkillsCovered DEF SkillsWorking
  <2> QED BY <1>1, <1>3, <1>5, <2>3, <2>4, <2>5, <2>6, <2>8, <2>9, <2>10, SkillsWorkStep DEF SkillsWorking
<1> QED BY <1>9, <1>10

LEMMA SkillsPlaceStep == ASSUME SkillsInv, NEW t \in Tools, Install!Place(t) PROVE SkillsInv'
<1>1. PICK x : x = tool[t] OBVIOUS
<1>2. x \in SkillsInvocations /\ SkillsPlaced(x) /\ SkillsCareful(x) /\ SkillsShown(x, disk) BY <1>1, SkillsStepType
<1>3. x.pc = "place" /\ kept' = kept BY <1>1 DEF Install!Place, Install!At
<1>4. /\ Len(x.existed) \in Nat /\ x.at = Len(x.existed) /\ x.at > 0 /\ x.at <= Len(Skills) + 1
      /\ x.result = "none" /\ x.kit \in Kits
  BY <1>2, <1>3 DEF SkillsInvocations, SkillsPlaced, SkillsWorking
<1>5. disk \in SkillsTrees /\ base \in SkillsReleases BY DEF SkillsInv, SkillsTypeInv
<1>6. CASE Install!InSkills(t)
  <2>1. x.at \in DOMAIN Skills /\ Skills[x.at] \in Install!SkillSet
    BY <1>1, <1>4, <1>6, SkillsFacts DEF Install!InSkills
  <2>2. PICK n \in Install!SkillSet : n = Skills[x.at] BY <2>1
  <2>3. PICK y : y = [x EXCEPT !.pc = "backup", !.at = x.at + 1] OBVIOUS
  <2>4. /\ y \in SkillsInvocations /\ y.pc = "backup" /\ y.existed = x.existed /\ y.backup = x.backup /\ y.original = x.original
        /\ y.desired = x.desired /\ y.at = x.at + 1 /\ y.result = x.result /\ y.kit = x.kit
    <3>1. x.at + 1 \in Nat /\ "backup" \in SkillsEarly \cup SkillsHolding \cup {"done"}
      BY <1>4 DEF SkillsHolding, SkillsWorking
    <3> QED BY <1>2, <2>3, <3>1 DEF SkillsInvocations
  <2>5. tool' = [tool EXCEPT ![t] = y] /\ UNCHANGED <<base, lock>>
    BY <1>1, <1>6, <2>3 DEF Install!Place, Install!Set
  <2>6. disk' = [disk EXCEPT ![n] = x.desired[n]] BY <1>1, <1>6, <2>2 DEF Install!Place, Install!Name
  <2>7. disk' \in SkillsTrees
    <3>1. x.desired[n] \in [Files -> SkillsContents] BY <1>2 DEF SkillsTrees, SkillsInvocations
    <3> QED BY <1>5, <2>6, <3>1 DEF SkillsTrees
  <2>8. SkillsPlaced(y)
    <3>1. x.at + 1 <= Len(Skills) + 1 BY <2>1, SkillsFacts
    <3> QED BY <1>4, <2>4, <3>1 DEF SkillsPlaced, SkillsEarly, SkillsWorking
  <2>9. SkillsCareful(y) BY <1>2, <1>3, <2>4 DEF SkillsCareful, SkillsHolding, SkillsWorking
  <2>10. SkillsShown(y, disk')
    <3> SUFFICES ASSUME NEW j \in DOMAIN Skills, NEW f \in Files, x.original[Skills[j]][f] = Install!Edited
                 PROVE  disk'[Skills[j]][f] = Install!Edited
      BY <2>4 DEF SkillsShown
    <3>1. CASE j = x.at
      <4>1. disk'[n] = x.desired[n] BY <1>5, <2>6 DEF SkillsTrees
      <4>2. x.desired[n][f] = Install!Edited
        BY <1>2, <1>3, <2>2, <3>1 DEF SkillsCareful, SkillsHolding, SkillsWorking
      <4> QED BY <2>2, <3>1, <4>1, <4>2
    <3>2. CASE j # x.at
      <4>1. Skills[j] # n /\ Skills[j] \in Install!SkillSet BY <2>1, <2>2, <3>2, SkillsFacts
      <4>2. disk'[Skills[j]] = disk[Skills[j]] BY <1>5, <2>6, <4>1 DEF SkillsTrees
      <4>3. disk[Skills[j]][f] = Install!Edited BY <1>2, <1>3, <3>2 DEF SkillsShown, SkillsInPlace
      <4> QED BY <4>2, <4>3
    <3> QED BY <3>1, <3>2
  <2>11. \A s \in Install!SkillSet, f \in Files : y.original[s][f] = Install!Edited => disk'[s][f] = Install!Edited \/ y.backup[s][f] = Install!Edited
    BY <2>4, <2>8, <2>9, <2>10, SkillsCovered DEF SkillsWorking
  <2> QED BY <1>1, <1>3, <1>5, <2>4, <2>5, <2>7, <2>8, <2>9, <2>10, <2>11, SkillsWorkStep DEF SkillsWorking
<1>7. CASE ~Install!InSkills(t)
  <2>1. PICK y : y = SkillsEnded(x, "installed") OBVIOUS
  <2>2. tool' = [tool EXCEPT ![t] = y] /\ base' = x.kit /\ disk' = disk
    BY <1>1, <1>7, <2>1 DEF Install!Place, Install!Ends, Install!Set, SkillsEnded
  <2>3. y \in SkillsInvocations /\ y.pc = "done" /\ y.original = x.original /\ SkillsPlaced(y) /\ SkillsCareful(y) /\ SkillsShown(y, disk')
    BY <1>2, <2>1, SkillsEndType DEF SkillsResults
  <2>4. \A s \in Install!SkillSet, f \in Files : x.original[s][f] = Install!Edited => disk[s][f] = Install!Edited
    <3> SUFFICES ASSUME NEW s \in Install!SkillSet, NEW f \in Files, x.original[s][f] = Install!Edited PROVE disk[s][f] = Install!Edited
      OBVIOUS
    <3>1. PICK j \in DOMAIN Skills : s = Skills[j] BY SkillsFacts
    <3>2. j # x.at BY <1>1, <1>4, <1>7, SkillsFacts DEF Install!InSkills
    <3> QED BY <1>2, <1>3, <3>1, <3>2 DEF SkillsShown, SkillsInPlace
  <2> QED BY <1>1, <1>3, <1>4, <1>5, <2>2, <2>3, <2>4, SkillsWorkStep DEF SkillsWorking, SkillsReleases
<1> QED BY <1>6, <1>7

\* What is rolled back, and what ends.
LEMMA SkillsRollbackSteps ==
    ASSUME SkillsInv, NEW t \in Tools, Install!RenameFails(t) \/ Install!Remove(t) \/ Install!Restore(t)
    PROVE  SkillsInv'
<1>1. PICK x : x = tool[t] OBVIOUS
<1>2. x \in SkillsInvocations /\ SkillsPlaced(x) /\ SkillsCareful(x) /\ SkillsShown(x, disk) BY <1>1, SkillsStepType
<1>3. /\ Len(x.existed) \in Nat /\ x.at \in Nat /\ x.pc \in SkillsWorking /\ Len(x.existed) <= Len(Skills) + 1
      /\ x.result = "none" /\ x.kit \in Kits
  BY <1>1, <1>2 DEF SkillsInvocations, SkillsPlaced, SkillsWorking, Install!RenameFails, Install!Remove,
      Install!Restore, Install!At
<1>4. disk \in SkillsTrees /\ base \in SkillsReleases /\ x.backup \in SkillsTrees /\ x.backupBase \in SkillsReleases
  BY <1>2 DEF SkillsInv, SkillsTypeInv, SkillsInvocations
<1>5. \A j \in DOMAIN Skills : j \in Nat /\ j <= Len(Skills) BY SkillsFacts
<1>6. ASSUME NEW k \in Nat, NEW p \in {"remove", "restore"}, NEW y, y = [x EXCEPT !.pc = p, !.at = k],
             k <= Len(x.existed), p = "restore" => k > 0, tool' = [tool EXCEPT ![t] = y],
             disk' \in SkillsTrees, base' \in SkillsReleases, kept' = kept, lock' = lock,
             \A j \in DOMAIN Skills, f \in Files : j > k /\ x.original[Skills[j]][f] = Install!Edited => disk'[Skills[j]][f] = Install!Edited
      PROVE  SkillsInv'
  <2>1. /\ y \in SkillsInvocations /\ y.pc = p /\ y.existed = x.existed /\ y.backup = x.backup /\ y.original = x.original
        /\ y.desired = x.desired /\ y.at = k /\ y.result = x.result /\ y.kit = x.kit
    <3>1. p \in SkillsEarly \cup SkillsHolding \cup {"done"} BY DEF SkillsHolding, SkillsWorking
    <3> QED BY <1>2, <1>6, <3>1 DEF SkillsInvocations
  <2>2. SkillsPlaced(y) BY <1>3, <1>6, <2>1 DEF SkillsPlaced, SkillsEarly, SkillsWorking
  <2>3. SkillsCareful(y) BY <1>2, <1>3, <2>1 DEF SkillsCareful, SkillsHolding, SkillsWorking
  <2>4. SkillsShown(y, disk') BY <1>6, <2>1 DEF SkillsShown, SkillsInPlace
  <2>5. p \in SkillsWorking BY DEF SkillsWorking
  <2>6. \A s \in Install!SkillSet, f \in Files : y.original[s][f] = Install!Edited => disk'[s][f] = Install!Edited \/ y.backup[s][f] = Install!Edited
    BY <2>1, <2>2, <2>3, <2>4, <2>5, SkillsCovered
  <2> QED BY <1>1, <1>3, <1>6, <2>1, <2>2, <2>3, <2>4, <2>5, <2>6, SkillsWorkStep
<1>7. CASE Install!RenameFails(t)
  <2>1. UNCHANGED <<disk, base, lock, kept>> BY <1>7 DEF Install!RenameFails
  <2>2. PICK y : y = [x EXCEPT !.pc = "remove", !.at = Len(x.existed)] OBVIOUS
  <2>3. tool' = [tool EXCEPT ![t] = y] BY <1>1, <1>7, <2>2 DEF Install!RenameFails, Install!Set
  <2>4. \A j \in DOMAIN Skills : j > Len(x.existed) => SkillsInPlace(x, j)
    BY <1>1, <1>2, <1>3, <1>5, <1>7 DEF Install!RenameFails, Install!At, SkillsInPlace, SkillsPlaced
  <2>5. \A j \in DOMAIN Skills, f \in Files :
            j > Len(x.existed) /\ x.original[Skills[j]][f] = Install!Edited => disk'[Skills[j]][f] = Install!Edited
    BY <1>2, <2>1, <2>4 DEF SkillsShown
  <2>6. PICK k \in Nat : k = Len(x.existed) BY <1>3
  <2>7. k <= Len(x.existed) BY <2>6
  <2> QED BY <1>4, <1>6, <2>1, <2>2, <2>3, <2>5, <2>6, <2>7
<1>8. CASE Install!Remove(t)
  <2>1. x.pc = "remove" /\ x.at > 0 /\ x.at <= Len(x.existed) /\ UNCHANGED <<lock, kept>>
    BY <1>1, <1>2, <1>8 DEF Install!Remove, Install!At, Install!Applied, SkillsPlaced
  <2>2. PICK y : y = [x EXCEPT !.pc = "restore", !.at = x.at] OBVIOUS
  <2>3. y = [x EXCEPT !.pc = "restore"] BY <1>2, <2>2 DEF SkillsInvocations
  <2>4. tool' = [tool EXCEPT ![t] = y] BY <1>1, <1>8, <2>3 DEF Install!Remove, Install!Set
  <2>5. base' \in SkillsReleases BY <1>4, <1>8 DEF Install!Remove, SkillsReleases
  <2>6. disk' = disk \/ (x.at \in DOMAIN Skills /\ disk' = [disk EXCEPT ![Skills[x.at]] = Install!Empty])
    BY <1>1, <1>3, <1>8, <2>1, SkillsFacts DEF Install!Remove, Install!InSkills, Install!Name
  <2>7. disk' \in SkillsTrees
    <3>1. Install!Empty \in [Files -> SkillsContents] BY DEF Install!Empty, SkillsContents
    <3> QED BY <1>4, <2>6, <3>1, SkillsFacts DEF SkillsTrees
  <2>8. ASSUME NEW j \in DOMAIN Skills, NEW f \in Files, j > x.at, x.original[Skills[j]][f] = Install!Edited
        PROVE  disk'[Skills[j]][f] = Install!Edited
    <3>1. disk[Skills[j]][f] = Install!Edited BY <1>2, <2>1, <2>8 DEF SkillsShown, SkillsInPlace
    <3>2. j # x.at BY <1>3, <1>5, <2>8
    <3>3. disk'[Skills[j]] = disk[Skills[j]] BY <1>4, <2>6, <3>2, SkillsFacts DEF SkillsTrees
    <3> QED BY <3>1, <3>3
  <2> QED BY <1>3, <1>6, <2>1, <2>2, <2>4, <2>5, <2>7, <2>8
<1>9. CASE Install!Restore(t)
  <2>1. x.pc = "restore" /\ x.at > 0 /\ x.at <= Len(x.existed) /\ UNCHANGED <<lock, kept>>
    BY <1>1, <1>2, <1>9 DEF Install!Restore, Install!At, SkillsPlaced
  <2>2. PICK k \in Nat : k = x.at - 1 BY <1>3, <2>1
  <2>3. PICK y : y = [x EXCEPT !.pc = "remove", !.at = k] OBVIOUS
  <2>4. tool' = [tool EXCEPT ![t] = y] BY <1>1, <1>9, <2>2, <2>3 DEF Install!Restore, Install!Set
  <2>5. base' \in SkillsReleases BY <1>1, <1>4, <1>9 DEF Install!Restore
  <2>6. \/ x.at \in DOMAIN Skills /\ x.existed[x.at] /\ disk' = [disk EXCEPT ![Skills[x.at]] = x.backup[Skills[x.at]]]
        \/ (x.at \notin DOMAIN Skills \/ ~x.existed[x.at]) /\ disk' = disk
    <3>1. Install!InSkills(t) <=> x.at \in DOMAIN Skills BY <1>1, <1>3, <2>1, SkillsFacts DEF Install!InSkills
    <3> QED BY <1>1, <1>9, <3>1 DEF Install!Restore, Install!Name
  <2>7. disk' \in SkillsTrees
    <3>1. x.at \in DOMAIN Skills => x.backup[Skills[x.at]] \in [Files -> SkillsContents]
      BY <1>4, SkillsFacts DEF SkillsTrees
    <3> QED BY <1>4, <2>6, <3>1, SkillsFacts DEF SkillsTrees
  <2>8. ASSUME NEW j \in DOMAIN Skills, NEW f \in Files, j > k, x.original[Skills[j]][f] = Install!Edited
        PROVE  disk'[Skills[j]][f] = Install!Edited
    <3>1. CASE j = x.at
      <4>1. x.backup[Skills[j]][f] = Install!Edited /\ x.existed[j]
        BY <1>2, <1>3, <2>1, <2>8, <3>1 DEF SkillsCareful
      <4>2. disk'[Skills[j]] = x.backup[Skills[j]] BY <1>4, <2>6, <3>1, <4>1, SkillsFacts DEF SkillsTrees
      <4> QED BY <4>1, <4>2
    <3>2. CASE j # x.at
      <4>1. j > x.at BY <1>3, <1>5, <2>2, <2>8, <3>2
      <4>2. disk[Skills[j]][f] = Install!Edited BY <1>2, <2>1, <2>8, <4>1 DEF SkillsShown, SkillsInPlace
      <4>3. disk'[Skills[j]] = disk[Skills[j]] BY <1>4, <2>6, <3>2, SkillsFacts DEF SkillsTrees
      <4> QED BY <4>2, <4>3
    <3> QED BY <3>1, <3>2
  <2>9. k <= Len(x.existed) BY <1>3, <2>1, <2>2
  <2> QED BY <1>6, <2>1, <2>2, <2>3, <2>4, <2>5, <2>7, <2>8, <2>9
<1> QED BY <1>7, <1>8, <1>9

LEMMA SkillsEndSteps ==
    ASSUME SkillsInv, NEW t \in Tools, Install!RolledBack(t) \/ Install!RollbackFails(t) \/ Install!Killed(t)
    PROVE  SkillsInv'
<1>1. PICK x : x = tool[t] OBVIOUS
<1>2. x \in SkillsInvocations /\ SkillsPlaced(x) /\ SkillsCareful(x) /\ SkillsShown(x, disk) BY <1>1, SkillsStepType
<1>3. UNCHANGED <<disk, base, kept>> BY DEF Install!RolledBack, Install!RollbackFails, Install!Killed
<1>4. disk \in SkillsTrees /\ base \in SkillsReleases BY DEF SkillsInv, SkillsTypeInv
<1>5. PICK r \in {"restored", "recoverable", "killed"} :
          /\ Install!Ends(t, r)
          /\ r = "restored" => x.pc = "remove" /\ ~(x.at > 0)
          /\ r # "killed" => x.pc \in SkillsWorking
          /\ r = "killed" => x.pc \in SkillsHolding /\ lock' = lock
  BY <1>1 DEF Install!RolledBack, Install!RollbackFails, Install!Killed, Install!At, Install!Applied,
      SkillsWorking, SkillsHolding
<1>6. PICK y : y = SkillsEnded(x, r) OBVIOUS
<1>7. tool' = [tool EXCEPT ![t] = y] BY <1>1, <1>5, <1>6 DEF Install!Ends, Install!Set, SkillsEnded
<1>8. /\ y \in SkillsInvocations /\ y.pc = "done" /\ y.result = r /\ y.original = x.original /\ y.backup = x.backup
      /\ SkillsPlaced(y) /\ SkillsCareful(y) /\ SkillsShown(y, disk)
  <2>1. r \in SkillsResults BY DEF SkillsResults
  <2> QED BY <1>2, <1>6, <2>1, SkillsEndType
<1>9. CASE x.pc \in SkillsWorking
  <2>1. ASSUME NEW s \in Install!SkillSet, NEW f \in Files, x.original[s][f] = Install!Edited
        PROVE  disk[s][f] = Install!Edited \/ (r \in {"recoverable", "killed"} /\ x.backup[s][f] = Install!Edited)
    <3>1. CASE r = "restored"
      <4>1. PICK j \in DOMAIN Skills : s = Skills[j] BY SkillsFacts
      <4>2. x.at \in Nat /\ j \in Nat /\ j # 0 BY <1>2, SkillsFacts DEF SkillsInvocations
      <4>3. j > x.at BY <1>5, <3>1, <4>2
      <4> QED BY <1>2, <1>5, <2>1, <3>1, <4>1, <4>3 DEF SkillsShown, SkillsInPlace
    <3>2. CASE r # "restored" BY <1>2, <1>9, <2>1, <3>2, SkillsCovered
    <3> QED BY <3>1, <3>2
  <2> QED BY <1>1, <1>3, <1>4, <1>7, <1>8, <1>9, <2>1, SkillsWorkStep DEF SkillsWorking
<1>10. CASE x.pc = "staged"
  <2>1. \A u \in Tools \ {t} : tool[u].pc \notin SkillsHolding
    BY <1>1, <1>10 DEF SkillsInv, SkillsLockInv, SkillsHolding
  <2> QED BY <1>1, <1>3, <1>7, <1>8, <1>10, <2>1, SkillsQuietTool DEF SkillsHolding, SkillsWorking
<1> QED BY <1>5, <1>9, <1>10 DEF SkillsHolding

LEMMA SkillsUnlockStep ==
    ASSUME SkillsInv, Install!Unlock \/ UNCHANGED Install!vars
    PROVE  SkillsInv'
<1>1. UNCHANGED <<disk, base, tool, kept>> BY DEF Install!Unlock, Install!vars
<1>2. SkillsLockInv' BY DEF SkillsInv, SkillsLockInv, Install!Unlock, Install!vars, SkillsHolding, SkillsWorking
<1>3. \A t \in Tools : SkillsPlaced(tool'[t]) /\ SkillsCareful(tool'[t]) /\ SkillsShown(tool'[t], disk')
  BY <1>1 DEF SkillsInv
<1>4. \A t \in Tools : tool'[t].pc \in SkillsWorking => SkillsRemembered(t)'
  BY <1>1 DEF SkillsInv, SkillsRemembered, SkillsSaved, Install!Backups
<1>5. SkillsTypeInv' /\ Install!EditsSurvive'
  BY <1>1 DEF SkillsInv, SkillsTypeInv, Install!EditsSurvive, Install!Backups
<1> QED BY <1>2, <1>3, <1>4, <1>5 DEF SkillsInv

LEMMA SkillsEditStep ==
    ASSUME SkillsInv, NEW s \in Install!SkillSet, NEW f \in Files, Install!Edit(s, f)
    PROVE  SkillsInv'
<1>1. disk \in SkillsTrees /\ disk' = [disk EXCEPT ![s][f] = Install!Edited] /\ UNCHANGED <<base, lock, tool>>
  BY DEF SkillsInv, SkillsTypeInv, Install!Edit
<1>2. /\ disk' \in SkillsTrees /\ disk'[s][f] = Install!Edited
      /\ \A n \in Install!SkillSet, g \in Files : disk[n][g] = Install!Edited => disk'[n][g] = Install!Edited
  <2>1. Install!Edited \in SkillsContents BY DEF SkillsContents
  <2> QED BY <1>1, <2>1 DEF SkillsTrees
<1>3. SkillsTypeInv'
  <2>1. kept' \subseteq Install!SkillSet \X Files BY DEF SkillsInv, SkillsTypeInv, Install!Edit
  <2> QED BY <1>1, <1>2, <2>1 DEF SkillsInv, SkillsTypeInv
<1>4. SkillsLockInv' BY <1>1 DEF SkillsInv, SkillsLockInv
<1>5. \A t \in Tools : SkillsPlaced(tool'[t]) /\ SkillsCareful(tool'[t]) BY <1>1 DEF SkillsInv
<1>6. \A t \in Tools : SkillsShown(tool'[t], disk') BY <1>1, <1>2, SkillsFacts DEF SkillsInv, SkillsShown
<1>7. \A e, u : SkillsSaved(e, u)' <=> SkillsSaved(e, u) BY <1>1 DEF SkillsSaved, Install!Backups
<1>8. ASSUME NEW t \in Tools, tool'[t].pc \in SkillsWorking PROVE SkillsRemembered(t)'
  <2>1. Install!Replacing BY <1>1, <1>8 DEF Install!Replacing, SkillsWorking
  <2>2. kept' \subseteq kept BY <2>1 DEF Install!Edit
  <2>3. SkillsRemembered(t) BY <1>1, <1>8 DEF SkillsInv
  <2> QED BY <1>1, <1>7, <2>2, <2>3 DEF SkillsRemembered
<1>9. Install!EditsSurvive'
  <2>1. \A e \in kept' : e \in kept \/ e = <<s, f>> BY DEF Install!Edit
  <2>2. \A e \in kept : e[1] \in Install!SkillSet /\ e[2] \in Files BY DEF SkillsInv, SkillsTypeInv
  <2>3. \A e \in kept : disk'[e[1]][e[2]] = Install!Edited \/ \E t \in Install!Backups : tool[t].backup[e[1]][e[2]] = Install!Edited
    BY <1>2, <2>2 DEF SkillsInv, Install!EditsSurvive
  <2>4. Install!Backups' = Install!Backups BY <1>1 DEF Install!Backups
  <2> QED BY <1>1, <1>2, <2>1, <2>3, <2>4 DEF Install!EditsSurvive
<1> QED BY <1>3, <1>4, <1>5, <1>6, <1>8, <1>9 DEF SkillsInv

\* An edit made before a tool's second look is still in place or in a backup, for any
\* tools, skills, files and releases and wherever a tool fails or is killed.
THEOREM ConsumerEditsSurvive == Install!Spec => []EditsSurvive
<1>1. SkillsInv /\ [Install!Next]_(Install!vars) => SkillsInv'
  <2> SUFFICES ASSUME SkillsInv, [Install!Next]_(Install!vars) PROVE SkillsInv'
    OBVIOUS
  <2>1. CASE UNCHANGED Install!vars BY <2>1, SkillsUnlockStep
  <2>2. CASE Install!Next
    BY <2>2, SkillsPrepareSteps, SkillsBackupStep, SkillsPlaceStep, SkillsRollbackSteps, SkillsEndSteps,
        SkillsUnlockStep, SkillsEditStep DEF Install!Next
  <2> QED BY <2>1, <2>2
<1>2. SkillsInv => EditsSurvive BY DEF SkillsInv, EditsSurvive
<1> QED BY SkillsInit, <1>1, <1>2, PTL DEF Install!Spec
================================================================================
