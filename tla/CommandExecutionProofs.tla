----------------------- MODULE CommandExecutionProofs -------------------------
(* Proofs about CommandExecution for every set of workers, operations, streams  *)
(* and requests and every value of the bounds.                                  *)
EXTENDS CommandExecution, TLAPS

(* What a worker knows at each point of its execution: its proposal is for its  *)
(* request, the retry budget, and how the last publication ended.               *)
Control ==
    \A w \in Workers :
        /\ pc[w] # "idle" => cand[w].req = req[w]
        /\ pc[w] = "lookup" => evals[w] <= MaxRetries
        /\ pc[w] = "result" => ack[w] \in {"appended", "replayed"} /\ Decided(req[w].op)
        /\ pc[w] = "conflict" => ack[w] \in {"conflict", "identity"}
        /\ pc[w] = "conflict" /\ ack[w] = "identity" => Decided(req[w].op)

TypeInv == TypeOK /\ Control

\* The detail record a proposal needs is stored before its batch can be.
Prepared ==
    /\ \A w \in Workers : pc[w] = "publish" => state[Reference(cand[w])] # Absent
    /\ \A m \in delayed : m.kind = "batch" => state[Reference(m.entry)] # Absent

\* A record is withdrawn only for a decision that uses it.
WithdrawnForWinner ==
    \A r \in References : state[r].kind = "expired" =>
        \E i \in 1..Len(journal) : journal[i] = state[r].revision /\ Reference(journal[i]) = r

-----------------------------------------------------------------------------
\* The placeholder of an idle worker is a request.
LEMMA AnyRequestType == AnyRequest \in Requests
BY RequestsAssumption DEF AnyRequest

\* A proposal that has read nothing is an entry.
LEMMA EmptyProposalType == ASSUME NEW r \in Requests PROVE EmptyProposal(r) \in Entries
<1>1. [s \in {} |-> 0] \in [{} -> 0..MaxJournal]
  OBVIOUS
<1>2. [s \in {} |-> 0] \in ReadSets
  BY <1>1 DEF ReadSets
<1> QED
  BY <1>2 DEF EmptyProposal, Entries, Decisions

\* Adding a read to a read set gives a read set.
LEMMA ExtendType ==
    ASSUME NEW base \in ReadSets, NEW s \in Streams, NEW n \in 0..MaxJournal
    PROVE  Extend(base, s, n) \in ReadSets
<1>1. PICK S \in SUBSET Streams : base \in [S -> 0..MaxJournal]
  BY DEF ReadSets
<1>2. Extend(base, s, n) \in [S \cup {s} -> 0..MaxJournal]
  BY <1>1 DEF Extend
<1> QED
  BY <1>2 DEF ReadSets

\* Every entry has a detail reference.
LEMMA ReferenceType == ASSUME NEW e \in Entries PROVE Reference(e) \in References
BY DEF Entries, References, Reference

\* What a read of decision e gives: a typed reply, completed only for the same
\* identity and then with winner e, an identity conflict only for another identity.
LEMMA ResolveType ==
    ASSUME TypeOK, NEW w \in Workers, NEW e \in Entries, NEW k \in {"appended", "replayed"}
    PROVE  /\ Resolve(w, e, k) \in Replies
           /\ Resolve(w, e, k) \in CompletedReplies =>
                 Resolve(w, e, k).winner = e /\ SameIdentity(e.req, req[w])
           /\ Resolve(w, e, k).kind = "identity" => ~SameIdentity(e.req, req[w])
           /\ Resolve(w, e, k).kind \in {"appended", "replayed"} =>
                 Resolve(w, e, k) \in CompletedReplies /\ Resolve(w, e, k).kind = k
<1> DEFINE v == state[Reference(e)]
<1>1. CASE v \notin {Active, Expired(e)}
  <2>1. Resolve(w, e, k) = Failure("corrupt")
    BY <1>1 DEF Resolve
  <2> QED
    BY <2>1 DEF Replies, Failure, FailureKinds, CompletedReplies
<1>2. CASE v \in {Active, Expired(e)} /\ ~SameIdentity(e.req, req[w])
  <2>1. Resolve(w, e, k) = Failure("identity")
    BY <1>2 DEF Resolve
  <2> QED
    BY <2>1, <1>2 DEF Replies, Failure, FailureKinds, CompletedReplies
<1>3. CASE v \in {Active, Expired(e)} /\ SameIdentity(e.req, req[w])
  <2>1. PICK d \in {"available", "expired"} : Resolve(w, e, k) = Completed(k, e, d)
    BY <1>3 DEF Resolve
  <2> QED
    BY <2>1, <1>3 DEF Replies, Completed, CompletedReplies
<1> QED
  BY <1>1, <1>2, <1>3

-----------------------------------------------------------------------------
(* The journal only grows. *)

Grows == journal' = journal \/ \E e \in Entries : journal' = Append(journal, e)

\* Committed batches keep their position, so decided operations stay decided.
LEMMA GrowthKeeps ==
    ASSUME TypeOK, Grows
    PROVE  /\ Len(journal) <= Len(journal')
           /\ \A i \in 1..Len(journal) : journal'[i] = journal[i]
           /\ \A o : Decided(o) => Decided(o)'
           /\ \A e, o : IsWinner(e, o) => IsWinner(e, o)'
<1>1. Len(journal) <= Len(journal') /\ \A i \in 1..Len(journal) : journal'[i] = journal[i]
  BY DEF TypeOK, Grows
<1>2. Len(journal) \in Nat /\ Len(journal') \in Nat
  BY DEF TypeOK, Grows
<1>3. \A i \in 1..Len(journal) : i \in 1..Len(journal')
  BY <1>1, <1>2
<1> QED
  BY <1>1, <1>3 DEF Decided, IsWinner

\* A journal that grows by an entry is a journal.
LEMMA GrowthType == ASSUME TypeOK, Grows PROVE journal' \in Seq(Entries)
<1>1. journal \in Seq(Entries)
  BY DEF TypeOK
<1>2. ASSUME NEW e \in Entries PROVE Append(journal, e) \in Seq(Entries)
  BY <1>1
<1> QED
  BY <1>1, <1>2 DEF Grows

\* No step removes or rewrites a committed batch.
LEMMA StepGrows == ASSUME TypeOK, [Next]_vars PROVE Grows
<1>1. \A w \in Workers : cand[w] \in Entries
  BY DEF TypeOK
<1>2. \A m \in delayed : m.kind = "batch" => m.entry \in Entries
  BY DEF TypeOK, Delayed
<1>3. CASE UNCHANGED vars
  BY <1>3 DEF vars, Grows
<1>4. CASE \E w \in Workers : Step(w)
  BY <1>1, <1>4 DEF Grows, Step, store, LookupReplay, LookupMissing, Load, Accept, Reject,
     ResolveConflict, CheckReceipt, PrepareDetails, PrepareUnknown, ConfirmDetails,
     PublishAccepted, PublishExpectation, PublishCapacity, PublishUnknown, ResolveRace,
     ReconcileUnavailable, CommitResult
<1>5. CASE \E w \in Workers : Abandon(w) \/ \E r \in Requests : Start(w, r)
  BY <1>5 DEF Grows, store, Abandon, Start
<1>6. CASE \E i \in 1..Len(journal) : ExpireDetails(i)
  BY <1>6 DEF Grows, ExpireDetails
<1>7. CASE \E m \in delayed : DeliverState(m) \/ DeliverBatch(m)
  BY <1>2, <1>7 DEF Grows, DeliverState, DeliverBatch
<1> QED
  BY <1>3, <1>4, <1>5, <1>6, <1>7 DEF Next

-----------------------------------------------------------------------------
(* Type correctness. *)

\* Returning any reply keeps the types and the control invariant.
LEMMA ReturnType ==
    ASSUME TypeInv, NEW w \in Workers, NEW r \in Replies, Return(w, r), UNCHANGED <<store, req>>
    PROVE  TypeInv'
<1>1. EmptyProposal(AnyRequest) \in Entries
  BY AnyRequestType, EmptyProposalType
<1>2. TypeOK'
  BY <1>1, BoundsAssumption DEF TypeInv, TypeOK, Return, Drop, Goto, PCs, Acks, store
<1>3. Control'
  BY DEF TypeInv, TypeOK, Control, Return, Drop, Goto, Decided, store
<1> QED
  BY <1>2, <1>3 DEF TypeInv

\* A step of w to another point of the execution that leaves the streams alone.
LEMMA FinishType ==
    ASSUME TypeInv, NEW w \in Workers, NEW a \in Acks, NEW l \in PCs \ {"idle", "lookup"},
           Finish(w, a, l), pc[w] # "idle", UNCHANGED <<req, evals, cand, reply>>,
           state' \in [References -> StateValues], delayed' \subseteq Delayed, Grows,
           Len(journal') <= MaxJournal,
           l = "result" => a \in {"appended", "replayed"} /\ Decided(req[w].op)',
           l = "conflict" => a \in {"conflict", "identity"},
           l = "conflict" /\ a = "identity" => Decided(req[w].op)'
    PROVE  TypeInv'
<1>1. journal' \in Seq(Entries)
  BY GrowthType DEF TypeInv
<1>2. TypeOK'
  BY <1>1 DEF TypeInv, TypeOK, Finish, Goto
<1>3. Control'
  <2> SUFFICES ASSUME NEW v \in Workers
               PROVE  /\ pc'[v] # "idle" => cand'[v].req = req'[v]
                      /\ pc'[v] = "lookup" => evals'[v] <= MaxRetries
                      /\ pc'[v] = "result" => ack'[v] \in {"appended", "replayed"} /\ Decided(req[v].op)'
                      /\ pc'[v] = "conflict" => ack'[v] \in {"conflict", "identity"}
                      /\ pc'[v] = "conflict" /\ ack'[v] = "identity" => Decided(req[v].op)'
    BY DEF Control
  <2>1. \A o : Decided(o) => Decided(o)'
    BY GrowthKeeps DEF TypeInv
  <2>2. Decided(req[v].op) => Decided(req[v].op)'
    BY <2>1 DEF Decided
  <2>3. CASE v = w
    BY <2>3 DEF TypeInv, TypeOK, Control, Finish, Goto
  <2>4. CASE v # w
    <3>1. pc'[v] = pc[v] /\ ack'[v] = ack[v]
      BY <2>4 DEF TypeInv, TypeOK, Finish, Goto
    <3> QED
      BY <3>1, <2>2 DEF TypeInv, Control
  <2> QED
    BY <2>3, <2>4
<1> QED
  BY <1>2, <1>3 DEF TypeInv

\* Moving on without a new acknowledgement.
LEMMA GotoFinish ==
    ASSUME TypeOK, NEW w \in Workers, NEW l, Goto(w, l), UNCHANGED ack
    PROVE  Finish(w, ack[w], l)
BY DEF TypeOK, Finish

\* The compare-and-set fills an empty record and changes no other.
LEMMA StoreActiveType ==
    ASSUME TypeOK, NEW r \in References, StoreActive(r)
    PROVE  /\ state' \in [References -> StateValues]
           /\ \A q \in References : state[q] # Absent => state'[q] = state[q]
           /\ state'[r] # Absent
BY DEF TypeOK, StoreActive, StateValues, Absent, Active, Expired

\* Finding the receipt of the operation keeps the types and the control invariant.
LEMMA FoundReceiptType ==
    ASSUME TypeInv, NEW w \in Workers, pc[w] # "idle", FoundReceipt(w),
           UNCHANGED <<store, req, evals, cand, reply>>
    PROVE  TypeInv'
<1>1. Decided(req[w].op)'
  BY DEF FoundReceipt, Decided, store
<1>2. Grows /\ Len(journal') <= MaxJournal /\ state' \in [References -> StateValues]
      /\ delayed' \subseteq Delayed
  BY DEF Grows, store, TypeInv, TypeOK
<1>3. Finish(w, "replayed", "result") \/ Finish(w, "identity", "conflict")
  BY DEF FoundReceipt
<1>4. CASE Finish(w, "replayed", "result")
  BY <1>1, <1>2, <1>4, FinishType DEF Acks, PCs
<1>5. CASE Finish(w, "identity", "conflict")
  BY <1>1, <1>2, <1>5, FinishType DEF Acks, PCs
<1> QED
  BY <1>3, <1>4, <1>5

\* The type and control invariant is inductive, action by action.
LEMMA TypeStep == ASSUME TypeInv, [Next]_vars PROVE TypeInv'
<1> USE DEF TypeInv
<1>0. /\ Grows
      /\ \A i \in 1..Len(journal) : journal[i] \in Entries
  BY StepGrows DEF TypeOK
<1>1. ASSUME NEW w \in Workers, LookupReplay(w) PROVE TypeInv'
  <2>1. PICK i \in 1..Len(journal) : Return(w, Resolve(w, journal[i], "replayed"))
    BY <1>1 DEF LookupReplay
  <2> QED
    BY <1>0, <1>1, <2>1, ResolveType, ReturnType DEF LookupReplay
<1>2. ASSUME NEW w \in Workers, LookupMissing(w) PROVE TypeInv'
  <2>1. EmptyProposal(req[w]) \in Entries /\ EmptyProposal(req[w]).req = req[w]
    BY EmptyProposalType DEF TypeOK, EmptyProposal
  <2>2. evals[w] <= MaxRetries /\ evals[w] \in Nat
    BY <1>2 DEF Control, LookupMissing, TypeOK
  <2>3. TypeOK'
    BY <1>2, <2>1, <2>2, BoundsAssumption DEF LookupMissing, TypeOK, Goto, store, PCs
  <2>4. Control'
    BY <1>2, <2>1 DEF LookupMissing, TypeOK, Goto, store, Control, Decided
  <2> QED
    BY <2>3, <2>4
<1>3. ASSUME NEW w \in Workers, NEW s \in Streams, Load(w, s) PROVE TypeInv'
  <2>1. PICK n \in 0..Len(journal) : cand' = [cand EXCEPT ![w].base = Extend(cand[w].base, s, n)]
    BY <1>3 DEF Load
  <2>2. n \in 0..MaxJournal
    BY BoundsAssumption DEF TypeOK
  <2>3. Extend(cand[w].base, s, n) \in ReadSets
    BY <2>2, ExtendType DEF TypeOK, Entries
  <2>4. cand' \in [Workers -> Entries] /\ \A v \in Workers : cand'[v].req = cand[v].req
    BY <2>1, <2>3 DEF TypeOK, Entries
  <2>5. TypeOK'
    BY <1>3, <2>4 DEF Load, TypeOK, store
  <2>6. Control'
    BY <1>3, <2>4 DEF Load, TypeOK, store, Control, Decided
  <2> QED
    BY <2>5, <2>6
<1>4. ASSUME NEW w \in Workers, NEW ws \in SUBSET Streams, Accept(w, ws) PROVE TypeInv'
  <2>1. cand' \in [Workers -> Entries] /\ \A v \in Workers : cand'[v].req = cand[v].req
    BY <1>4 DEF Accept, TypeOK, Entries
  <2>2. TypeOK'
    BY <1>4, <2>1 DEF Accept, TypeOK, store, Goto, PCs
  <2>3. Control'
    BY <1>4, <2>1 DEF Accept, TypeOK, store, Goto, Control, Decided
  <2> QED
    BY <2>2, <2>3
<1>5. ASSUME NEW w \in Workers, NEW x \in Rejections, Reject(w, x) PROVE TypeInv'
  <2>1. cand' \in [Workers -> Entries] /\ \A v \in Workers : cand'[v].req = cand[v].req
    BY <1>5 DEF Reject, TypeOK, Entries, Decisions
  <2>2. TypeOK'
    BY <1>5, <2>1 DEF Reject, TypeOK, store, Goto, PCs
  <2>3. Control'
    BY <1>5, <2>1 DEF Reject, TypeOK, store, Goto, Control, Decided
  <2> QED
    BY <2>2, <2>3
<1>6. ASSUME NEW w \in Workers, ResolveConflict(w) PROVE TypeInv'
  <2>1. CASE Decided(req[w].op)
    <3>1. PICK i \in 1..Len(journal) : Return(w, Resolve(w, journal[i], "replayed"))
      BY <1>6, <2>1 DEF ResolveConflict
    <3> QED
      BY <1>0, <1>6, <3>1, ResolveType, ReturnType DEF ResolveConflict
  <2>2. CASE ~Decided(req[w].op) /\ RetryAllowed(w)
    <3>1. TypeOK'
      BY <1>6, <2>2 DEF ResolveConflict, TypeOK, store, Goto, PCs
    <3>2. Control'
      BY <1>6, <2>2 DEF ResolveConflict, RetryAllowed, TypeOK, store, Goto, Control, Decided
    <3> QED
      BY <3>1, <3>2
  <2>3. CASE ~Decided(req[w].op) /\ ~RetryAllowed(w)
    <3>1. Return(w, Failure(ack[w]))
      BY <1>6, <2>3 DEF ResolveConflict
    <3>2. Failure(ack[w]) \in Replies
      BY <1>6 DEF ResolveConflict, Control, Replies, FailureKinds
    <3> QED
      BY <1>6, <3>1, <3>2, ReturnType DEF ResolveConflict
  <2> QED
    BY <2>1, <2>2, <2>3
<1>7. ASSUME NEW w \in Workers, CheckReceipt(w) PROVE TypeInv'
  <2>1. CASE FoundReceipt(w)
    BY <1>7, <2>1, FoundReceiptType DEF CheckReceipt
  <2>2. CASE Finish(w, "none", "prepare")
    BY <1>0, <1>7, <2>2, FinishType DEF CheckReceipt, store, TypeOK, Acks, PCs
  <2> QED
    BY <1>7, <2>1, <2>2 DEF CheckReceipt
<1>8. ASSUME NEW w \in Workers, PrepareDetails(w) PROVE TypeInv'
  <2>1. state' \in [References -> StateValues]
    BY <1>8, ReferenceType, StoreActiveType DEF PrepareDetails, TypeOK
  <2>2. Finish(w, "ok", "confirm") \/ Finish(w, "mismatch", "confirm")
    BY <1>8 DEF PrepareDetails
  <2> QED
    BY <1>0, <1>8, <2>1, <2>2, FinishType DEF PrepareDetails, TypeOK, Acks, PCs
<1>9. ASSUME NEW w \in Workers, PrepareUnknown(w) PROVE TypeInv'
  <2>1. Reference(cand[w]) \in References
    BY ReferenceType DEF TypeOK
  <2>2. state' \in [References -> StateValues]
    BY <1>9, <2>1, StoreActiveType DEF PrepareUnknown, TypeOK
  <2>3. delayed' \subseteq Delayed
    BY <1>9, <2>1 DEF PrepareUnknown, Delay, Delayed, TypeOK
  <2> QED
    BY <1>0, <1>9, <2>2, <2>3, FinishType DEF PrepareUnknown, TypeOK, Acks, PCs
<1>10. ASSUME NEW w \in Workers, ConfirmDetails(w) PROVE TypeInv'
  <2>1. Failure("withdrawn") \in Replies /\ Failure("corrupt") \in Replies
        /\ Failure("unavailable") \in Replies
    BY DEF Replies, FailureKinds
  <2>2. CASE \E r \in Replies : Return(w, r)
    BY <1>10, <2>2, ReturnType DEF ConfirmDetails
  <2>3. CASE Goto(w, "publish") /\ UNCHANGED <<evals, cand, ack, reply>>
    <3>1. Finish(w, ack[w], "publish") /\ ack[w] \in Acks
      BY <2>3, GotoFinish DEF TypeOK
    <3> QED
      BY <1>0, <1>10, <2>3, <3>1, FinishType DEF ConfirmDetails, TypeOK, PCs, store
  <2>4. CASE Finish(w, "conflict", "conflict") /\ UNCHANGED <<evals, cand, reply>>
    BY <1>0, <1>10, <2>4, FinishType DEF ConfirmDetails, TypeOK, PCs, Acks, store
  <2> QED
    BY <1>10, <2>1, <2>2, <2>3, <2>4 DEF ConfirmDetails
<1>11. ASSUME NEW w \in Workers, PublishAccepted(w) PROVE TypeInv'
  <2>1. cand[w] \in Entries /\ cand[w].req = req[w] /\ journal \in Seq(Entries)
    BY <1>11 DEF PublishAccepted, TypeOK, Control
  <2>2. Len(journal') = Len(journal) + 1 /\ journal'[Len(journal')] = cand[w]
        /\ Len(journal) \in Nat
    BY <1>11, <2>1 DEF PublishAccepted
  <2>3. Len(journal') <= MaxJournal
    BY <1>11, <2>2, BoundsAssumption DEF PublishAccepted, HasCapacity
  <2>4. Len(journal') \in 1..Len(journal')
    BY <2>2
  <2>5. Decided(req[w].op)'
    BY <1>11, <2>1, <2>2, <2>4 DEF Decided, PublishAccepted
  <2> QED
    BY <1>0, <1>11, <2>3, <2>5, FinishType DEF PublishAccepted, TypeOK, Acks, PCs
<1>12. ASSUME NEW w \in Workers, PublishExpectation(w) PROVE TypeInv'
  <2>1. Finish(w, ack[w], "race") /\ ack[w] \in Acks
    BY <1>12, GotoFinish DEF PublishExpectation, locals, TypeOK
  <2> QED
    BY <1>0, <1>12, <2>1, FinishType DEF PublishExpectation, TypeOK, PCs, store, locals
<1>13. ASSUME NEW w \in Workers, PublishCapacity(w) PROVE TypeInv'
  BY <1>13, ReturnType DEF PublishCapacity, Replies, FailureKinds
<1>14. ASSUME NEW w \in Workers, PublishUnknown(w) PROVE TypeInv'
  <2>1. Finish(w, ack[w], "reconcile") /\ ack[w] \in Acks
    BY <1>14, GotoFinish DEF PublishUnknown, locals, TypeOK
  <2>2. cand[w] \in Entries /\ journal \in Seq(Entries)
    BY DEF TypeOK
  <2>3. Len(journal') <= MaxJournal
    BY <1>14, <2>2, BoundsAssumption DEF PublishUnknown, HasCapacity, TypeOK
  <2>4. delayed' \subseteq Delayed
    BY <1>14, <2>2 DEF PublishUnknown, Delay, Delayed, TypeOK
  <2> QED
    BY <1>0, <1>14, <2>1, <2>3, <2>4, FinishType DEF PublishUnknown, TypeOK, PCs, locals
<1>15. ASSUME NEW w \in Workers, ResolveRace(w) PROVE TypeInv'
  <2>1. CASE FoundReceipt(w)
    BY <1>15, <2>1, FoundReceiptType DEF ResolveRace
  <2>2. CASE Finish(w, "conflict", "conflict")
    BY <1>0, <1>15, <2>2, FinishType DEF ResolveRace, store, TypeOK, Acks, PCs
  <2> QED
    BY <1>15, <2>1, <2>2 DEF ResolveRace
<1>16. ASSUME NEW w \in Workers, ReconcileUnavailable(w) PROVE TypeInv'
  <2>1. CASE FoundReceipt(w) /\ UNCHANGED <<evals, cand, reply>>
    BY <1>16, <2>1, FoundReceiptType DEF ReconcileUnavailable, store
  <2>2. CASE Return(w, Failure("unavailable"))
    BY <1>16, <2>2, ReturnType DEF ReconcileUnavailable, Replies, FailureKinds
  <2> QED
    BY <1>16, <2>1, <2>2 DEF ReconcileUnavailable
<1>17. ASSUME NEW w \in Workers, CommitResult(w) PROVE TypeInv'
  <2>1. PICK i \in 1..Len(journal) : Return(w, Resolve(w, journal[i], ack[w]))
    BY <1>17 DEF CommitResult
  <2>2. ack[w] \in {"appended", "replayed"}
    BY <1>17 DEF CommitResult, Control
  <2> QED
    BY <1>0, <1>17, <2>1, <2>2, ResolveType, ReturnType DEF CommitResult
<1>18. ASSUME NEW w \in Workers, Abandon(w) PROVE TypeInv'
  BY <1>18, ReturnType DEF Abandon, Replies, FailureKinds
<1>19. ASSUME NEW w \in Workers, NEW r \in Requests, Start(w, r) PROVE TypeInv'
  <2>1. EmptyProposal(r) \in Entries /\ EmptyProposal(r).req = r
    BY EmptyProposalType DEF EmptyProposal
  <2>2. TypeOK'
    BY <1>19, <2>1, BoundsAssumption DEF Start, TypeOK, Goto, store, PCs, Acks, Replies
  <2>3. Control'
    BY <1>19, <2>1, BoundsAssumption DEF Start, TypeOK, Goto, store, Control, Decided
  <2> QED
    BY <2>2, <2>3
<1>20. ASSUME NEW i \in 1..Len(journal), ExpireDetails(i) PROVE TypeInv'
  <2>1. state' \in [References -> StateValues]
    BY <1>0, <1>20, ReferenceType DEF ExpireDetails, TypeOK, StateValues
  <2> QED
    BY <1>20, <2>1 DEF ExpireDetails, TypeOK, locals, Control, Decided
<1>21. ASSUME NEW m \in delayed, DeliverState(m) PROVE TypeInv'
  <2>1. m.ref \in References
    BY <1>21 DEF DeliverState, TypeOK, Delayed
  <2>2. state' \in [References -> StateValues]
    BY <1>21, <2>1, StoreActiveType DEF DeliverState, TypeOK
  <2> QED
    BY <1>21, <2>2 DEF DeliverState, TypeOK, locals, Control, Decided
<1>22. ASSUME NEW m \in delayed, DeliverBatch(m) PROVE TypeInv'
  <2>1. m.entry \in Entries /\ journal \in Seq(Entries)
    BY <1>22 DEF DeliverBatch, TypeOK, Delayed
  <2>2. Len(journal') <= MaxJournal
    BY <1>22, <2>1, BoundsAssumption DEF DeliverBatch, HasCapacity, TypeOK
  <2>3. \A o : Decided(o) => Decided(o)'
    BY <1>0, GrowthKeeps
  <2>4. TypeOK'
    BY <1>0, <1>22, <2>2, GrowthType DEF DeliverBatch, TypeOK, locals
  <2>5. Control'
    BY <1>22, <2>3 DEF DeliverBatch, locals, Control, Decided
  <2> QED
    BY <2>4, <2>5
<1>23. CASE UNCHANGED vars
  BY <1>23 DEF vars, TypeOK, Control, Decided
<1> QED
  BY <1>1, <1>2, <1>3, <1>4, <1>5, <1>6, <1>7, <1>8, <1>9, <1>10, <1>11, <1>12, <1>13, <1>14,
     <1>15, <1>16, <1>17, <1>18, <1>19, <1>20, <1>21, <1>22, <1>23 DEF Next, Step

\* The initial state is well typed and every worker is idle.
LEMMA InitType == ASSUME Init PROVE TypeInv
<1>1. EmptyProposal(AnyRequest) \in Entries
  BY AnyRequestType, EmptyProposalType
<1>2. TypeOK
  BY <1>1, AnyRequestType, BoundsAssumption DEF Init, TypeOK, StateValues, PCs, Acks, Replies
<1>3. Control
  BY DEF Init, Control
<1> QED
  BY <1>2, <1>3 DEF TypeInv

\* Every execution of the model is well typed: handlers are evaluated at most
\* MaxRetries + 1 times per execution and the journal stays within capacity.
THEOREM TypeCorrect == Spec => []TypeInv
<1>1. Init => TypeInv
  BY InitType
<1>2. TypeInv /\ [Next]_vars => TypeInv'
  BY TypeStep
<1> QED
  BY <1>1, <1>2, PTL DEF Spec

\* TypeOK alone, the invariant the model checker evaluates.
THEOREM TypeSafety == Spec => []TypeOK
BY TypeCorrect, PTL DEF TypeInv

-----------------------------------------------------------------------------
(* What a step does to the streams. *)

Undisturbed == journal' = journal /\ state' = state
Activates == journal' = journal /\ \E r \in References : StoreActive(r)
Expires == journal' = journal /\ \E i \in 1..Len(journal) :
    /\ state[Reference(journal[i])] = Active
    /\ state' = [state EXCEPT ![Reference(journal[i])] = Expired(journal[i])]
Commits(e) ==
    /\ state' = state
    /\ ExpectationsHold(e)
    /\ state[Reference(e)] # Absent
    /\ journal' = Append(journal, e)

Effect == Undisturbed \/ Activates \/ Expires \/ \E e \in Entries : Commits(e)

\* The whole inductive invariant of the streams.
StreamInv ==
    /\ TypeInv
    /\ Prepared
    /\ WithdrawnForWinner
    /\ OneDecision
    /\ ReadsWereCurrent
    /\ DecisionHasDetails

\* Every step leaves the streams alone, stores one Active record, withdraws one
\* record, or commits one prepared entry whose expectations hold.
LEMMA StepEffect == ASSUME TypeInv, Prepared, [Next]_vars PROVE Effect
<1> USE DEF TypeInv
<1>1. /\ \A w \in Workers : cand[w] \in Entries /\ Reference(cand[w]) \in References
      /\ \A m \in delayed : m.kind = "batch" => m.entry \in Entries
      /\ \A m \in delayed : m.kind = "state" => m.ref \in References
  BY ReferenceType DEF TypeOK, Delayed
<1>2. CASE UNCHANGED vars
  BY <1>2 DEF vars, Effect, Undisturbed
<1>3. ASSUME NEW w \in Workers,
             LookupReplay(w) \/ LookupMissing(w) \/ (\E s \in Streams : Load(w, s))
               \/ (\E ws \in SUBSET Streams : Accept(w, ws)) \/ (\E x \in Rejections : Reject(w, x))
               \/ ResolveConflict(w) \/ CheckReceipt(w) \/ ConfirmDetails(w)
               \/ PublishExpectation(w) \/ PublishCapacity(w) \/ ResolveRace(w)
               \/ ReconcileUnavailable(w) \/ CommitResult(w) \/ Abandon(w)
               \/ (\E r \in Requests : Start(w, r))
      PROVE Effect
  BY <1>3 DEF Effect, Undisturbed, store, LookupReplay, LookupMissing, Load, Accept, Reject,
     ResolveConflict, CheckReceipt, ConfirmDetails, PublishExpectation, PublishCapacity,
     ResolveRace, ReconcileUnavailable, CommitResult, Abandon, Start
<1>4. ASSUME NEW w \in Workers, PrepareDetails(w) \/ PrepareUnknown(w) PROVE Effect
  BY <1>1, <1>4 DEF Effect, Undisturbed, Activates, PrepareDetails, PrepareUnknown
<1>5. ASSUME NEW w \in Workers, PublishAccepted(w) \/ PublishUnknown(w) PROVE Effect
  BY <1>1, <1>5 DEF Effect, Undisturbed, Commits, PublishAccepted, PublishUnknown, Prepared
<1>6. ASSUME NEW i \in 1..Len(journal), ExpireDetails(i) PROVE Effect
  BY <1>6 DEF Effect, Expires, ExpireDetails
<1>7. ASSUME NEW m \in delayed, DeliverState(m) PROVE Effect
  BY <1>1, <1>7 DEF Effect, Activates, DeliverState
<1>8. ASSUME NEW m \in delayed, DeliverBatch(m) PROVE Effect
  BY <1>1, <1>8 DEF Effect, Undisturbed, Commits, DeliverBatch, Prepared
<1> QED
  BY <1>2, <1>3, <1>4, <1>5, <1>6, <1>7, <1>8 DEF Next, Step

\* A stored record is never removed, and a withdrawn one never changes.
LEMMA RecordsStay ==
    ASSUME TypeInv, Effect
    PROVE  \A r \in References :
              /\ state[r] # Absent => state'[r] # Absent
              /\ state[r].kind = "expired" => state'[r] = state[r]
<1> USE DEF TypeInv
<1>1. CASE Undisturbed \/ \E e \in Entries : Commits(e)
  BY <1>1 DEF Undisturbed, Commits
<1>2. CASE Activates
  BY <1>2 DEF Activates, StoreActive, TypeOK, Absent, Active
<1>3. CASE Expires
  <2>1. PICK i \in 1..Len(journal) :
          /\ state[Reference(journal[i])] = Active
          /\ state' = [state EXCEPT ![Reference(journal[i])] = Expired(journal[i])]
    BY <1>3 DEF Expires
  <2> QED
    BY <2>1 DEF TypeOK, Absent, Active, Expired
<1> QED
  BY <1>1, <1>2, <1>3 DEF Effect

\* A proposal at the point of publication, or delayed on its way, keeps its
\* stored detail record, because records are never removed.
LEMMA PreparedStep == ASSUME TypeInv, Prepared, [Next]_vars PROVE Prepared'
<1>0. Effect
  BY StepEffect
<1>1. ASSUME NEW r \in References, state[r] # Absent PROVE state'[r] # Absent
  BY <1>0, <1>1, RecordsStay
<1> USE DEF TypeInv
<1>2. /\ \A w \in Workers : Reference(cand[w]) \in References
      /\ \A m \in delayed : m.kind = "batch" => Reference(m.entry) \in References
  BY ReferenceType DEF TypeOK, Delayed
<1>3. ASSUME NEW w \in Workers, pc'[w] = "publish"
      PROVE  /\ cand'[w] = cand[w]
             /\ pc[w] = "publish" \/ state[Reference(cand[w])] = Active
  <2>1. CASE pc' = pc /\ cand' = cand
    BY <1>3, <2>1
  <2>2. ASSUME NEW v \in Workers, (\E r \in Requests : Start(v, r))
               \/ Abandon(v) \/ LookupReplay(v) \/ LookupMissing(v) \/ ResolveConflict(v)
               \/ CheckReceipt(v) \/ ResolveRace(v) \/ ReconcileUnavailable(v) \/ CommitResult(v)
        PROVE  v # w /\ pc'[w] = pc[w] /\ cand'[w] = cand[w]
    BY <1>3, <2>2 DEF TypeOK, Start, Abandon, LookupReplay, LookupMissing, ResolveConflict,
       CheckReceipt, ResolveRace, ReconcileUnavailable, CommitResult, FoundReceipt, Finish,
       Return, Drop, Goto
  <2>3. ASSUME NEW v \in Workers, (\E s \in Streams : Load(v, s))
               \/ (\E ws \in SUBSET Streams : Accept(v, ws)) \/ (\E x \in Rejections : Reject(v, x))
        PROVE  v # w /\ pc'[w] = pc[w] /\ cand'[w] = cand[w]
    BY <1>3, <2>3, SMTT(30) DEF TypeOK, Load, Accept, Reject, Goto
  <2>4. ASSUME NEW v \in Workers, PrepareDetails(v) \/ PrepareUnknown(v) \/ PublishAccepted(v)
               \/ PublishExpectation(v) \/ PublishCapacity(v) \/ PublishUnknown(v)
        PROVE  v # w /\ pc'[w] = pc[w] /\ cand'[w] = cand[w]
    BY <1>3, <2>4 DEF TypeOK, PrepareDetails, PrepareUnknown, PublishAccepted,
       PublishExpectation, PublishCapacity, PublishUnknown, Finish, Return, Drop, Goto, locals
  <2>5. ASSUME NEW v \in Workers, ConfirmDetails(v)
        PROVE  /\ cand'[w] = cand[w]
               /\ pc[w] = "publish" \/ state[Reference(cand[w])] = Active
    BY <1>3, <2>5 DEF TypeOK, ConfirmDetails, Finish, Return, Drop, Goto
  <2>6. CASE (\E i \in 1..Len(journal) : ExpireDetails(i))
             \/ (\E m \in delayed : DeliverState(m) \/ DeliverBatch(m)) \/ UNCHANGED vars
    BY <2>1, <2>6 DEF ExpireDetails, DeliverState, DeliverBatch, vars, locals
  <2> QED
    BY <1>3, <2>2, <2>3, <2>4, <2>5, <2>6 DEF Next, Step
<1>4. ASSUME NEW m \in delayed', m.kind = "batch"
      PROVE  m \in delayed \/ \E w \in Workers : pc[w] = "publish" /\ m.entry = cand[w]
  BY <1>4 DEF Next, Step, vars, store, Delay, LookupReplay, LookupMissing, Load, Accept, Reject,
     ResolveConflict, CheckReceipt, PrepareDetails, PrepareUnknown, ConfirmDetails,
     PublishAccepted, PublishExpectation, PublishCapacity, PublishUnknown, ResolveRace,
     ReconcileUnavailable, CommitResult, Abandon, Start, ExpireDetails, DeliverState, DeliverBatch
<1>5. ASSUME NEW w \in Workers, pc'[w] = "publish" PROVE state'[Reference(cand'[w])] # Absent
  BY <1>1, <1>2, <1>3, <1>5 DEF Prepared, Absent, Active
<1>6. ASSUME NEW m \in delayed', m.kind = "batch" PROVE state'[Reference(m.entry)] # Absent
  BY <1>1, <1>2, <1>4, <1>6 DEF Prepared
<1> QED
  BY <1>5, <1>6 DEF Prepared, Reference

\* What appending e does to positions: the old ones keep their batch.
LEMMA AppendShape ==
    ASSUME TypeOK, NEW e \in Entries, journal' = Append(journal, e)
    PROVE  /\ Len(journal) \in Nat
           /\ Len(journal') = Len(journal) + 1
           /\ \A i \in 1..Len(journal') :
                 \/ i \in 1..Len(journal) /\ journal'[i] = journal[i]
                 \/ i = Len(journal) + 1 /\ journal'[i] = e
BY DEF TypeOK

\* The receipt guard of the batch keeps an operation from being decided twice.
LEMMA CommitKeepsOneDecision ==
    ASSUME TypeOK, OneDecision, NEW e \in Entries, Commits(e)
    PROVE  OneDecision'
<1>1. \A i \in 1..Len(journal) : journal[i].req.op # e.req.op
  BY DEF Commits, ExpectationsHold, Decided
<1>2. \A i \in 1..Len(journal') :
         \/ i \in 1..Len(journal) /\ journal'[i] = journal[i]
         \/ i = Len(journal) + 1 /\ journal'[i] = e
  BY AppendShape DEF Commits
<1> QED
  BY <1>1, <1>2 DEF OneDecision

\* The per-stream guards make the reads of the new entry current, and what they
\* said of the earlier entries still holds.
LEMMA CommitKeepsReads ==
    ASSUME TypeOK, ReadsWereCurrent, NEW e \in Entries, Commits(e)
    PROVE  ReadsWereCurrent'
<1> SUFFICES ASSUME NEW i \in 1..Len(journal'), NEW s \in DOMAIN journal'[i].base
             PROVE  /\ journal'[i].base[s] < i
                    /\ journal'[i].base[s] > 0 => s \in journal'[journal'[i].base[s]].writes
                    /\ \A j \in (journal'[i].base[s] + 1)..(i - 1) : s \notin journal'[j].writes
  BY DEF ReadsWereCurrent
<1>1. /\ Len(journal) \in Nat
      /\ Len(journal') = Len(journal) + 1
      /\ \A k \in 1..Len(journal) : journal'[k] = journal[k]
      /\ journal'[Len(journal) + 1] = e
  BY DEF Commits, TypeOK
<1>2. ASSUME NEW f \in Entries, NEW t \in DOMAIN f.base PROVE f.base[t] \in Nat
  <2>1. f.base \in ReadSets
    BY DEF Entries
  <2>2. PICK S \in SUBSET Streams : f.base \in [S -> 0..MaxJournal]
    BY <2>1 DEF ReadSets
  <2> QED
    BY <2>2, BoundsAssumption
<1>3. CASE i \in 1..Len(journal)
  <2>1. journal'[i] = journal[i] /\ journal[i] \in Entries
    BY <1>1, <1>3 DEF TypeOK
  <2>2. PICK n \in Nat : n = journal[i].base[s]
    BY <1>2, <2>1
  <2>3. n < i /\ (n > 0 => s \in journal[n].writes)
        /\ \A j \in (n + 1)..(i - 1) : s \notin journal[j].writes
    BY <1>3, <2>1, <2>2 DEF ReadsWereCurrent
  <2>4. \A j \in 1..(i - 1) : journal'[j] = journal[j]
    BY <1>1, <1>3
  <2>5. n > 0 => s \in journal'[n].writes
    BY <2>3, <2>4
  <2>6. \A j \in (n + 1)..(i - 1) : s \notin journal'[j].writes
    BY <2>3, <2>4
  <2> QED
    BY <2>1, <2>2, <2>3, <2>5, <2>6
<1>4. CASE i = Len(journal) + 1
  <2>1. journal'[i] = e
    BY <1>1, <1>4
  <2>2. PICK n \in Nat : n = e.base[s]
    BY <1>2, <2>1
  <2>3. IsLastSeq(s, n)
    BY <2>1, <2>2 DEF Commits, ExpectationsHold
  <2>4. n < i
    BY <1>1, <1>4, <2>3 DEF IsLastSeq
  <2>5. n > 0 => s \in journal'[n].writes
    BY <1>1, <2>3 DEF IsLastSeq
  <2>6. \A j \in (n + 1)..(i - 1) : s \notin journal'[j].writes
    BY <1>1, <1>4, <2>2, <2>3 DEF IsLastSeq
  <2> QED
    BY <2>1, <2>2, <2>4, <2>5, <2>6
<1> QED
  BY <1>1, <1>3, <1>4

\* The record of an undecided operation is never withdrawn: withdrawing needs a
\* decision with the same reference, hence of the same operation.
LEMMA FreshRecordActive ==
    ASSUME TypeOK, WithdrawnForWinner, NEW e \in Entries, ExpectationsHold(e),
           state[Reference(e)] # Absent
    PROVE  state[Reference(e)] = Active
<1>1. Reference(e) \in References
  BY ReferenceType
<1>2. state[Reference(e)].kind # "expired"
  <2> SUFFICES ASSUME state[Reference(e)].kind = "expired" PROVE FALSE
    OBVIOUS
  <2>1. PICK i \in 1..Len(journal) : Reference(journal[i]) = Reference(e)
    BY <1>1 DEF WithdrawnForWinner
  <2>2. journal[i].req = e.req
    BY <2>1 DEF Reference
  <2> QED
    BY <2>2 DEF ExpectationsHold, Decided
<1>3. state[Reference(e)] \in StateValues
  BY <1>1 DEF TypeOK
<1> QED
  BY <1>2, <1>3 DEF StateValues, Expired

\* A withdrawal names a decision in the journal, and decisions stay there.
LEMMA WithdrawnStep ==
    ASSUME TypeInv, WithdrawnForWinner, Effect PROVE WithdrawnForWinner'
<1> USE DEF TypeInv
<1> SUFFICES ASSUME NEW r \in References, state'[r].kind = "expired"
             PROVE  \E i \in 1..Len(journal') :
                       journal'[i] = state'[r].revision /\ Reference(journal'[i]) = r
  BY DEF WithdrawnForWinner, Reference
<1>1. CASE Undisturbed
  BY <1>1 DEF Undisturbed, WithdrawnForWinner
<1>2. CASE Activates
  <2>1. state'[r] = state[r]
    BY <1>2 DEF Activates, StoreActive, TypeOK, Active
  <2> QED
    BY <1>2, <2>1 DEF Activates, WithdrawnForWinner
<1>3. CASE Expires
  <2>1. PICK i \in 1..Len(journal) :
          state' = [state EXCEPT ![Reference(journal[i])] = Expired(journal[i])]
    BY <1>3 DEF Expires
  <2>2. CASE r = Reference(journal[i])
    <3>1. state'[r] = Expired(journal[i])
      BY <2>1, <2>2 DEF TypeOK
    <3> QED
      BY <1>3, <2>2, <3>1 DEF Expires, Expired
  <2>3. CASE r # Reference(journal[i])
    <3>1. state'[r] = state[r]
      BY <2>1, <2>3 DEF TypeOK
    <3> QED
      BY <1>3, <3>1 DEF Expires, WithdrawnForWinner
  <2> QED
    BY <2>2, <2>3
<1>4. ASSUME NEW e \in Entries, Commits(e)
      PROVE  \E i \in 1..Len(journal') :
                journal'[i] = state'[r].revision /\ Reference(journal'[i]) = r
  <2>1. PICK i \in 1..Len(journal) : journal[i] = state[r].revision /\ Reference(journal[i]) = r
    BY <1>4 DEF Commits, WithdrawnForWinner
  <2>2. i \in 1..Len(journal') /\ journal'[i] = journal[i]
    BY <1>4 DEF Commits, TypeOK
  <2> QED
    BY <1>4, <2>1, <2>2 DEF Commits
<1> QED
  BY <1>1, <1>2, <1>3, <1>4 DEF Effect

\* Details of committed decisions stay accounted for, and a commit finds its own
\* record Active.
LEMMA DetailsStep == ASSUME StreamInv, Effect PROVE DecisionHasDetails'
<1> USE DEF StreamInv, TypeInv
<1> SUFFICES ASSUME NEW i \in 1..Len(journal')
             PROVE  state'[Reference(journal'[i])] \in {Active, Expired(journal'[i])}
  BY DEF DecisionHasDetails, Reference, Expired, Active
<1>1. CASE Undisturbed
  BY <1>1 DEF Undisturbed, DecisionHasDetails
<1>2. CASE Activates
  <2>1. journal[i] \in Entries /\ journal'[i] = journal[i] /\ i \in 1..Len(journal)
    BY <1>2 DEF Activates, TypeOK
  <2>2. state[Reference(journal[i])] # Absent
    <3>1. state[Reference(journal[i])] \in {Active, Expired(journal[i])}
      BY <2>1 DEF DecisionHasDetails
    <3>2. Active.kind # Absent.kind /\ Expired(journal[i]).kind # Absent.kind
      BY DEF Absent, Active, Expired
    <3> QED
      BY <3>1, <3>2
  <2>3. state'[Reference(journal[i])] = state[Reference(journal[i])]
    BY <1>2, <2>1, <2>2, ReferenceType DEF Activates, StoreActive, TypeOK
  <2> QED
    BY <2>1, <2>3 DEF DecisionHasDetails
<1>3. CASE Expires
  <2>1. PICK j \in 1..Len(journal) :
          state' = [state EXCEPT ![Reference(journal[j])] = Expired(journal[j])]
    BY <1>3 DEF Expires
  <2>2. journal'[i] = journal[i] /\ i \in 1..Len(journal) /\ journal[i] \in Entries
    BY <1>3 DEF Expires, TypeOK
  <2>3. Reference(journal[i]) \in References
    BY <2>2, ReferenceType
  <2>4. CASE Reference(journal[i]) = Reference(journal[j])
    <3>1. i = j
      BY <2>2, <2>4 DEF Reference, OneDecision
    <3> QED
      BY <2>1, <2>2, <2>3, <3>1 DEF TypeOK
  <2>5. CASE Reference(journal[i]) # Reference(journal[j])
    BY <2>1, <2>2, <2>3, <2>5 DEF TypeOK, DecisionHasDetails
  <2> QED
    BY <2>4, <2>5
<1>4. ASSUME NEW e \in Entries, Commits(e)
      PROVE  state'[Reference(journal'[i])] \in {Active, Expired(journal'[i])}
  <2>1. state[Reference(e)] = Active
    BY <1>4, FreshRecordActive DEF Commits
  <2>2. \/ i \in 1..Len(journal) /\ journal'[i] = journal[i]
        \/ journal'[i] = e
    BY <1>4, AppendShape DEF Commits
  <2> QED
    BY <1>4, <2>1, <2>2 DEF Commits, DecisionHasDetails
<1> QED
  BY <1>1, <1>2, <1>3, <1>4 DEF Effect

\* StreamInv is inductive.
LEMMA StreamStep == ASSUME StreamInv, [Next]_vars PROVE StreamInv'
<1>1. TypeInv /\ Prepared /\ WithdrawnForWinner /\ OneDecision /\ ReadsWereCurrent
  BY DEF StreamInv
<1>2. Effect
  BY <1>1, StepEffect
<1>3. TypeInv' /\ Prepared' /\ WithdrawnForWinner' /\ DecisionHasDetails'
  BY <1>1, <1>2, TypeStep, PreparedStep, WithdrawnStep, DetailsStep
<1>4. CASE journal' = journal
  BY <1>1, <1>3, <1>4 DEF OneDecision, ReadsWereCurrent, StreamInv
<1>5. CASE \E e \in Entries : Commits(e)
  <2>1. OneDecision' /\ ReadsWereCurrent'
    BY <1>1, <1>5, CommitKeepsOneDecision, CommitKeepsReads DEF TypeInv
  <2> QED
    BY <1>3, <2>1 DEF StreamInv
<1> QED
  BY <1>2, <1>4, <1>5 DEF Effect, Undisturbed, Activates, Expires

\* The strengthened invariant holds in every reachable state.
THEOREM StreamsCorrect == Spec => []StreamInv
<1>1. Init => StreamInv
  <2> SUFFICES ASSUME Init PROVE StreamInv
    OBVIOUS
  <2>1. TypeInv
    BY InitType
  <2>2. Prepared
    BY DEF Init, Prepared
  <2>3. WithdrawnForWinner
    BY DEF Init, WithdrawnForWinner, Absent
  <2>4. OneDecision /\ ReadsWereCurrent /\ DecisionHasDetails
    BY DEF Init, OneDecision, ReadsWereCurrent, DecisionHasDetails
  <2> QED
    BY <2>1, <2>2, <2>3, <2>4 DEF StreamInv
<1>2. StreamInv /\ [Next]_vars => StreamInv'
  BY StreamStep
<1> QED
  BY <1>1, <1>2, PTL DEF Spec

\* An operation is decided at most once, for any number of concurrent executions.
THEOREM DecidedOnce == Spec => []OneDecision
BY StreamsCorrect, PTL DEF StreamInv

\* The journal is a serial history: every decision saw the last batch of every
\* stream it read.
THEOREM SerialHistory == Spec => []ReadsWereCurrent
BY StreamsCorrect, PTL DEF StreamInv

\* No decision is ever without its details or with details withdrawn for another.
THEOREM DetailsAccounted == Spec => []DecisionHasDetails
BY StreamsCorrect, PTL DEF StreamInv

\* Withdrawing details is final.
THEOREM WithdrawalFinal == Spec => ExpiredIsTerminal
<1>1. StreamInv /\ [Next]_vars =>
         [\A r \in References : state[r].kind = "expired" => state'[r] = state[r]]_vars
  <2> SUFFICES ASSUME StreamInv, [Next]_vars, NEW r \in References, state[r].kind = "expired"
               PROVE  state'[r] = state[r]
    OBVIOUS
  <2>1. Effect
    BY StepEffect DEF StreamInv
  <2> QED
    BY <2>1, RecordsStay DEF StreamInv
<1> QED
  BY <1>1, StreamsCorrect, PTL DEF Spec, ExpiredIsTerminal

-----------------------------------------------------------------------------
(* What callers are told. *)

\* The reply of w becomes what a read of one of its operation's decisions gives.
Answered(w) ==
    \E i \in 1..Len(journal), k \in {"appended", "replayed"} :
        /\ journal[i].req.op = req[w].op
        /\ reply' = [reply EXCEPT ![w] = Resolve(w, journal[i], k)]
        /\ k = "appended" => pc[w] = "result" /\ ack[w] = "appended"
        /\ pc' = [pc EXCEPT ![w] = "idle"]

\* The reply of w becomes a failure other than an identity conflict.
Refused(w) ==
    \E k \in FailureKinds \ {"identity"} : reply' = [reply EXCEPT ![w] = Failure(k)]

\* A step in which w returns, with an answer or a failure.
Returned(w) == UNCHANGED <<store, req>> /\ (Answered(w) \/ Refused(w))

\* A step in which w starts an execution.
Started(w) ==
    /\ UNCHANGED store
    /\ \E r \in Requests : req' = [req EXCEPT ![w] = r]
    /\ reply' = [reply EXCEPT ![w] = NoReply]

\* Replies change only when an execution starts or returns, and an identity
\* conflict is returned only after a decision was read.
LEMMA ReplyEffect ==
    ASSUME TypeInv, [Next]_vars
    PROVE  \/ UNCHANGED <<req, reply>>
           \/ \E w \in Workers : Returned(w) \/ Started(w)
<1> USE DEF TypeInv
<1>1. ASSUME NEW w \in Workers, LookupReplay(w) PROVE Returned(w)
  BY <1>1 DEF LookupReplay, Returned, Answered, Return, Goto
<1>2. ASSUME NEW w \in Workers, ResolveConflict(w) PROVE Returned(w) \/ UNCHANGED <<req, reply>>
  <2>1. CASE Decided(req[w].op)
    BY <1>2, <2>1 DEF ResolveConflict, Returned, Answered, Return, Goto
  <2>2. CASE ~Decided(req[w].op) /\ Return(w, Failure(ack[w]))
    <3>1. ack[w] = "conflict"
      BY <1>2, <2>2 DEF ResolveConflict, Control
    <3> QED
      BY <1>2, <2>2, <3>1 DEF ResolveConflict, Returned, Refused, Return, FailureKinds
  <2>3. CASE ~Decided(req[w].op) /\ UNCHANGED reply
    BY <1>2, <2>3 DEF ResolveConflict
  <2> QED
    BY <1>2, <2>1, <2>2, <2>3 DEF ResolveConflict
<1>3. ASSUME NEW w \in Workers, CommitResult(w) PROVE Returned(w)
  <2>1. ack[w] \in {"appended", "replayed"} /\ pc[w] = "result"
    BY <1>3 DEF CommitResult, Control
  <2> QED
    BY <1>3, <2>1 DEF CommitResult, Returned, Answered, Return, Goto
<1>4. ASSUME NEW w \in Workers, ConfirmDetails(w) \/ PublishCapacity(w) \/ ReconcileUnavailable(w)
             \/ Abandon(w)
      PROVE  Returned(w) \/ UNCHANGED <<req, reply>>
  BY <1>4 DEF ConfirmDetails, PublishCapacity, ReconcileUnavailable, Abandon, Returned, Refused,
     Return, FailureKinds
<1>5. ASSUME NEW w \in Workers, NEW r \in Requests, Start(w, r) PROVE Started(w)
  BY <1>5 DEF Start, Started
<1>6. ASSUME NEW w \in Workers,
             LookupMissing(w) \/ (\E s \in Streams : Load(w, s))
               \/ (\E ws \in SUBSET Streams : Accept(w, ws)) \/ (\E x \in Rejections : Reject(w, x))
               \/ CheckReceipt(w) \/ PrepareDetails(w) \/ PrepareUnknown(w) \/ PublishAccepted(w)
               \/ PublishExpectation(w) \/ PublishUnknown(w) \/ ResolveRace(w)
      PROVE  UNCHANGED <<req, reply>>
  BY <1>6 DEF LookupMissing, Load, Accept, Reject, CheckReceipt, PrepareDetails, PrepareUnknown,
     PublishAccepted, PublishExpectation, PublishUnknown, ResolveRace, locals
<1>7. CASE (\E i \in 1..Len(journal) : ExpireDetails(i))
           \/ (\E m \in delayed : DeliverState(m) \/ DeliverBatch(m)) \/ UNCHANGED vars
  BY <1>7 DEF ExpireDetails, DeliverState, DeliverBatch, vars, locals
<1> QED
  BY <1>1, <1>2, <1>3, <1>4, <1>5, <1>6, <1>7 DEF Next, Step

\* Failures and the empty reply are no completed outcomes.
LEMMA NotCompleted ==
    /\ NoReply \notin CompletedReplies /\ NoReply.kind = "none"
    /\ \A k \in FailureKinds : Failure(k) \notin CompletedReplies /\ Failure(k).kind = k
<1>1. \A r \in CompletedReplies : r.kind \in {"appended", "replayed"}
  BY DEF CompletedReplies
<1>2. NoReply.kind = "none" /\ \A k \in FailureKinds : Failure(k).kind = k
  BY DEF NoReply, Failure
<1> QED
  BY <1>1, <1>2 DEF FailureKinds

\* What a reply promised stays true, because decisions are permanent.
LEMMA ReplyStep ==
    ASSUME TypeInv, ReplyIsWinner, IdentityRefusalJustified, [Next]_vars
    PROVE  ReplyIsWinner' /\ IdentityRefusalJustified'
<1> USE DEF TypeInv
<1> DEFINE Told1(r, q) == r \in CompletedReplies =>
                             IsWinner(r.winner, q.op) /\ SameIdentity(r.winner.req, q)
           Told2(r, q) == r.kind = "identity" =>
                             \E i \in 1..Len(journal) :
                                journal[i].req.op = q.op /\ ~SameIdentity(journal[i].req, q)
<1>1. \A w \in Workers : Told1(reply[w], req[w]) /\ Told2(reply[w], req[w])
  BY DEF ReplyIsWinner, IdentityRefusalJustified
<1>2. \A w \in Workers : Told1(reply'[w], req'[w]) /\ Told2(reply'[w], req'[w])
  <2>1. CASE UNCHANGED <<req, reply>>
    BY <1>1, <2>1
  <2>2. ASSUME NEW v \in Workers, Started(v)
        PROVE  \A w \in Workers : Told1(reply'[w], req'[w]) /\ Told2(reply'[w], req'[w])
    <3>1. \A w \in Workers : reply'[w] = NoReply \/ (reply'[w] = reply[w] /\ req'[w] = req[w])
      BY <2>2 DEF Started, TypeOK
    <3> QED
      BY <1>1, <3>1, NotCompleted
  <2>3. ASSUME NEW v \in Workers, Returned(v), Refused(v)
        PROVE  \A w \in Workers : Told1(reply'[w], req'[w]) /\ Told2(reply'[w], req'[w])
    <3>1. \A w \in Workers :
             \/ \E k \in FailureKinds \ {"identity"} : reply'[w] = Failure(k)
             \/ reply'[w] = reply[w] /\ req'[w] = req[w]
      BY <2>3 DEF Returned, Refused, TypeOK
    <3> QED
      BY <1>1, <3>1, NotCompleted
  <2>4. ASSUME NEW v \in Workers, Returned(v), Answered(v)
        PROVE  \A w \in Workers : Told1(reply'[w], req'[w]) /\ Told2(reply'[w], req'[w])
    <3>1. PICK i \in 1..Len(journal), k \in {"appended", "replayed"} :
             /\ journal[i].req.op = req[v].op
             /\ reply' = [reply EXCEPT ![v] = Resolve(v, journal[i], k)]
      BY <2>4 DEF Answered
    <3>2. journal[i] \in Entries
      BY DEF TypeOK
    <3>3. Told1(Resolve(v, journal[i], k), req[v])
      BY <3>1, <3>2, ResolveType DEF IsWinner
    <3>4. Told2(Resolve(v, journal[i], k), req[v])
      BY <3>1, <3>2, ResolveType
    <3>5. \A w \in Workers : req'[w] = req[w]
             /\ ((reply'[w] = Resolve(v, journal[i], k) /\ w = v) \/ reply'[w] = reply[w])
      BY <2>4, <3>1 DEF Returned, TypeOK
    <3> QED
      BY <1>1, <3>3, <3>4, <3>5
  <2> QED
    BY <2>1, <2>2, <2>3, <2>4, ReplyEffect DEF Returned
<1>3. /\ Len(journal) <= Len(journal') /\ Len(journal) \in Nat /\ Len(journal') \in Nat
      /\ \A i \in 1..Len(journal) : journal'[i] = journal[i]
  BY StepGrows, GrowthKeeps, GrowthType DEF TypeOK
<1>4. \A i \in 1..Len(journal) : i \in 1..Len(journal')
  BY <1>3
<1>5. ReplyIsWinner'
  BY <1>2, <1>3, <1>4 DEF ReplyIsWinner, IsWinner, SameIdentity
<1>6. IdentityRefusalJustified'
  BY <1>2, <1>3, <1>4 DEF IdentityRefusalJustified, SameIdentity
<1> QED
  BY <1>5, <1>6

\* ReplyIsWinner and IdentityRefusalJustified with the types they rest on.
ReplyInv == TypeInv /\ ReplyIsWinner /\ IdentityRefusalJustified

\* Replies are right in every reachable state.
THEOREM RepliesCorrect == Spec => []ReplyInv
<1>1. Init => ReplyInv
  BY InitType, NotCompleted DEF Init, ReplyInv, ReplyIsWinner, IdentityRefusalJustified
<1>2. ReplyInv /\ [Next]_vars => ReplyInv'
  BY TypeStep, ReplyStep DEF ReplyInv
<1> QED
  BY <1>1, <1>2, PTL DEF Spec

\* A caller is only ever told the decision of its own operation and identity.
THEOREM RepliesAreWinners == Spec => []ReplyIsWinner
BY RepliesCorrect, PTL DEF ReplyInv

\* An identity conflict is only ever reported to a command of another identity.
THEOREM RefusalsJustified == Spec => []IdentityRefusalJustified
BY RepliesCorrect, PTL DEF ReplyInv

\* w was told, or is about to be told, that its append decided operation o.
Claims(w, o) ==
    \/ pc[w] = "result" /\ ack[w] = "appended" /\ req[w].op = o
    \/ reply[w].kind = "appended" /\ reply[w].winner.req.op = o

\* Only one execution claims an operation, and only once it is decided.
ClaimInv ==
    /\ \A w \in Workers, o \in Ops : Claims(w, o) => Decided(o)
    /\ \A v, w \in Workers, o \in Ops : Claims(v, o) /\ Claims(w, o) => v = w

\* A new claim comes from the acknowledgement of the batch that decided it.
LEMMA ClaimStep ==
    ASSUME TypeInv, [Next]_vars, NEW w \in Workers, NEW o \in Ops, Claims(w, o)'
    PROVE  Claims(w, o) \/ (PublishAccepted(w) /\ o = req[w].op)
<1> USE DEF TypeInv
<1>1. CASE reply'[w].kind = "appended" /\ reply'[w].winner.req.op = o
  <2>1. CASE reply'[w] = reply[w]
    BY <1>1, <2>1 DEF Claims
  <2>2. CASE reply'[w] # reply[w]
    <3>1. PICK v \in Workers : Returned(v) \/ Started(v)
      BY <2>2, ReplyEffect
    <3>2. v = w
      BY <2>2, <3>1 DEF Returned, Started, Answered, Refused, TypeOK
    <3>2a. ~Started(v)
      BY <1>1, <3>2, NotCompleted DEF Started, TypeOK
    <3>2b. ~Refused(v)
      BY <1>1, <3>2, NotCompleted DEF Refused, TypeOK, FailureKinds
    <3>3. PICK i \in 1..Len(journal), k \in {"appended", "replayed"} :
             /\ journal[i].req.op = req[w].op
             /\ reply' = [reply EXCEPT ![w] = Resolve(w, journal[i], k)]
             /\ k = "appended" => pc[w] = "result" /\ ack[w] = "appended"
      BY <3>1, <3>2, <3>2a, <3>2b DEF Returned, Answered
    <3>4. reply'[w] = Resolve(w, journal[i], k) /\ journal[i] \in Entries
      BY <3>3 DEF TypeOK
    <3>5. k = "appended" /\ reply'[w].winner = journal[i]
      BY <1>1, <3>4, ResolveType
    <3> QED
      BY <1>1, <3>3, <3>5 DEF Claims
  <2> QED
    BY <2>1, <2>2
<1>2. CASE pc'[w] = "result" /\ ack'[w] = "appended" /\ req'[w].op = o
  <2>1. ASSUME NEW v \in Workers, Abandon(v) \/ LookupReplay(v) \/ LookupMissing(v)
               \/ ResolveConflict(v) \/ ConfirmDetails(v) \/ PublishCapacity(v) \/ CommitResult(v)
        PROVE  pc[w] = "result" /\ ack[w] = "appended" /\ req[w].op = o
    BY <1>2, <2>1 DEF TypeOK, Abandon, LookupReplay, LookupMissing, ResolveConflict,
       ConfirmDetails, PublishCapacity, CommitResult, Finish, Return, Drop, Goto
  <2>2. ASSUME NEW v \in Workers, CheckReceipt(v) \/ ResolveRace(v) \/ ReconcileUnavailable(v)
               \/ PrepareDetails(v) \/ PrepareUnknown(v) \/ PublishExpectation(v)
               \/ PublishUnknown(v) \/ (\E r \in Requests : Start(v, r))
        PROVE  pc[w] = "result" /\ ack[w] = "appended" /\ req[w].op = o
    BY <1>2, <2>2 DEF TypeOK, CheckReceipt, ResolveRace, ReconcileUnavailable, FoundReceipt,
       PrepareDetails, PrepareUnknown, PublishExpectation, PublishUnknown, Start, Finish, Return,
       Drop, Goto, locals
  <2>3. ASSUME NEW v \in Workers, (\E s \in Streams : Load(v, s))
               \/ (\E ws \in SUBSET Streams : Accept(v, ws)) \/ (\E x \in Rejections : Reject(v, x))
        PROVE  pc[w] = "result" /\ ack[w] = "appended" /\ req[w].op = o
    BY <1>2, <2>3 DEF TypeOK, Load, Accept, Reject, Goto
  <2>4. ASSUME NEW v \in Workers, PublishAccepted(v)
        PROVE  \/ pc[w] = "result" /\ ack[w] = "appended" /\ req[w].op = o
               \/ v = w /\ o = req[w].op
    BY <1>2, <2>4 DEF TypeOK, PublishAccepted, Finish, Goto
  <2>5. CASE (\E i \in 1..Len(journal) : ExpireDetails(i))
             \/ (\E m \in delayed : DeliverState(m) \/ DeliverBatch(m)) \/ UNCHANGED vars
    BY <1>2, <2>5 DEF ExpireDetails, DeliverState, DeliverBatch, vars, locals, Claims
  <2> QED
    BY <2>1, <2>2, <2>3, <2>4, <2>5 DEF Next, Step, Claims
<1> QED
  BY <1>1, <1>2 DEF Claims

\* Two executions are never both told that they appended, for any number of them.
THEOREM AppendsClaimedOnce == Spec => []AppendedOnce
<1>1. Init => ClaimInv
  BY NotCompleted DEF Init, ClaimInv, Claims
<1>2. TypeInv /\ ClaimInv /\ [Next]_vars => ClaimInv'
  <2> SUFFICES ASSUME TypeInv, ClaimInv, [Next]_vars PROVE ClaimInv'
    OBVIOUS
  <2>1. \A o : Decided(o) => Decided(o)'
    BY StepGrows, GrowthKeeps DEF TypeInv
  <2>2. ASSUME NEW w \in Workers, PublishAccepted(w)
        PROVE  Decided(req[w].op)' /\ ~Decided(req[w].op)
    <3>1. cand[w].req = req[w] /\ journal \in Seq(Entries) /\ cand[w] \in Entries
      BY <2>2 DEF PublishAccepted, TypeInv, Control, TypeOK
    <3>2. Len(journal') \in 1..Len(journal') /\ journal'[Len(journal')] = cand[w]
      BY <2>2, <3>1 DEF PublishAccepted
    <3> QED
      BY <2>2, <3>1, <3>2 DEF PublishAccepted, ExpectationsHold, Decided
  <2>3. ASSUME NEW w \in Workers, NEW o \in Ops, Claims(w, o)' PROVE Decided(o)'
    <3>1. Claims(w, o) \/ (PublishAccepted(w) /\ o = req[w].op)
      BY <2>3, ClaimStep
    <3>2. CASE Claims(w, o)
      BY <2>1, <3>2 DEF ClaimInv
    <3>3. CASE PublishAccepted(w) /\ o = req[w].op
      BY <2>2, <3>3 DEF Decided, PublishAccepted
    <3> QED
      BY <3>1, <3>2, <3>3
  <2>4. ASSUME NEW v \in Workers, NEW w \in Workers, PublishAccepted(v), PublishAccepted(w)
        PROVE  v = w
    <3>1. pc'[v] = "result" /\ pc[v] = "publish" /\ pc' = [pc EXCEPT ![w] = "result"]
      BY <2>4 DEF PublishAccepted, Finish, Goto, TypeInv, TypeOK
    <3> QED
      BY <3>1 DEF TypeInv, TypeOK
  <2>5. ASSUME NEW v \in Workers, NEW w \in Workers, NEW o \in Ops, Claims(v, o)', Claims(w, o)'
        PROVE  v = w
    <3>1. /\ Claims(v, o) \/ (PublishAccepted(v) /\ o = req[v].op)
          /\ Claims(w, o) \/ (PublishAccepted(w) /\ o = req[w].op)
      BY <2>5, ClaimStep
    <3>2. /\ Claims(v, o) => Decided(o)
          /\ Claims(w, o) => Decided(o)
          /\ Claims(v, o) /\ Claims(w, o) => v = w
      BY DEF ClaimInv
    <3> QED
      BY <2>2, <2>4, <3>1, <3>2
  <2> QED
    BY <2>3, <2>5 DEF ClaimInv
<1>3. TypeInv /\ ClaimInv => AppendedOnce
  <2> SUFFICES ASSUME TypeInv, ClaimInv, NEW v \in Workers, NEW w \in Workers,
                      reply[v].kind = "appended", reply[w].kind = "appended",
                      reply[v].winner.req.op = reply[w].winner.req.op
               PROVE  v = w
    BY DEF AppendedOnce
  <2>1. reply[v] \in Replies
    BY DEF TypeInv, TypeOK
  <2>2. reply[v] \in CompletedReplies
    BY <2>1, NotCompleted DEF Replies, FailureKinds
  <2>3. reply[v].winner.req.op \in Ops
    BY <2>2, RequestsAssumption DEF CompletedReplies, Entries
  <2> QED
    BY <2>3 DEF ClaimInv, Claims
<1> QED
  BY <1>1, <1>2, <1>3, TypeCorrect, PTL DEF Spec

-----------------------------------------------------------------------------
(* The runtime implements the decision log. *)

\* A commit is a Decide step: the guards are the log's, and the record of the
\* new decision is not withdrawn.
LEMMA CommitDecides ==
    ASSUME StreamInv, NEW e \in Entries, Commits(e), UNCHANGED reply
    PROVE  journal' # journal /\ Log!Decide(e)
<1> USE DEF StreamInv, TypeInv
<1>0. journal' # journal
  BY AppendShape DEF Commits
<1>1. ~Log!Decided(journal, e.req.op)
  BY DEF Commits, ExpectationsHold, Decided, Log!Decided
<1>2. \A s \in DOMAIN e.base : Log!IsLastSeq(journal, s, e.base[s])
  BY DEF Commits, ExpectationsHold, IsLastSeq, Log!IsLastSeq
<1>3. state[Reference(e)] = Active
  BY FreshRecordActive DEF Commits
<1>4. Withdrawn' = Withdrawn
  <2>1. /\ \A j \in 1..Len(journal) : j \in 1..Len(journal') /\ journal'[j] = journal[j]
        /\ \A j \in 1..Len(journal') :
              \/ j \in 1..Len(journal) /\ journal'[j] = journal[j]
              \/ journal'[j] = e
    BY DEF Commits, TypeOK
  <2>2. state' = state /\ state[Reference(e)].kind # "expired"
    BY <1>3 DEF Commits, Active
  <2>3. ASSUME NEW x PROVE x \in Withdrawn' <=> x \in Withdrawn
    BY <2>1, <2>2 DEF Withdrawn
  <2> QED
    BY <2>3
<1>5. Told' = Told
  BY DEF Told
<1> QED
  BY <1>0, <1>1, <1>2, <1>4, <1>5 DEF Log!Decide, Commits

\* Storing an Active record, or touching none, withdraws nothing.
LEMMA QuietKeepsWithdrawn ==
    ASSUME StreamInv, Undisturbed \/ Activates PROVE Withdrawn' = Withdrawn
<1> USE DEF StreamInv, TypeInv
<1>1. CASE Undisturbed
  BY <1>1 DEF Undisturbed, Withdrawn
<1>2. CASE Activates
  <2>1. ASSUME NEW j \in 1..Len(journal)
        PROVE  state'[Reference(journal[j])].kind = "expired"
                 <=> state[Reference(journal[j])].kind = "expired"
    <3>1. Reference(journal[j]) \in References
      BY ReferenceType DEF TypeOK
    <3> QED
      BY <1>2, <3>1 DEF Activates, StoreActive, TypeOK, Absent, Active
  <2>2. journal' = journal
    BY <1>2 DEF Activates
  <2>3. ASSUME NEW x PROVE x \in Withdrawn' <=> x \in Withdrawn
    BY <2>1, <2>2 DEF Withdrawn, Reference
  <2> QED
    BY <2>3
<1> QED
  BY <1>1, <1>2

\* Withdrawing a record withdraws the one decision that uses it.
LEMMA ExpireWithdraws ==
    ASSUME StreamInv, Expires, UNCHANGED reply
    PROVE  \E i \in 1..Len(journal) : Log!Withdraw(i)
<1> USE DEF StreamInv, TypeInv
<1>1. PICK i \in 1..Len(journal) :
         /\ journal' = journal
         /\ state' = [state EXCEPT ![Reference(journal[i])] = Expired(journal[i])]
  BY DEF Expires
<1>2. \A j \in 1..Len(journal) : Reference(journal[j]) \in References
  BY ReferenceType DEF TypeOK
<1>3. \A j \in 1..Len(journal) :
         state'[Reference(journal[j])].kind = "expired"
           <=> state[Reference(journal[j])].kind = "expired" \/ j = i
  <2> SUFFICES ASSUME NEW j \in 1..Len(journal)
               PROVE  state'[Reference(journal[j])].kind = "expired"
                        <=> state[Reference(journal[j])].kind = "expired" \/ j = i
    OBVIOUS
  <2>1. CASE j = i
    BY <1>1, <1>2, <2>1 DEF TypeOK, Expired
  <2>2. CASE j # i
    <3>1. Reference(journal[j]) # Reference(journal[i])
      BY <2>2 DEF Reference, OneDecision
    <3> QED
      BY <1>1, <1>2, <2>2, <3>1 DEF TypeOK
  <2> QED
    BY <2>1, <2>2
<1>4. Withdrawn' = Withdrawn \cup {journal[i]}
  <2>1. ASSUME NEW x PROVE x \in Withdrawn' <=> x \in Withdrawn \cup {journal[i]}
    BY <1>1, <1>3 DEF Withdrawn, Reference
  <2> QED
    BY <2>1
<1>5. Told' = Told
  BY DEF Told
<1> QED
  BY <1>1, <1>4, <1>5 DEF Log!Withdraw

\* A return tells its caller one decision of the log, or nothing; a start
\* forgets what the caller was told.
LEMMA ReplyTells ==
    ASSUME StreamInv, NEW w \in Workers, Returned(w) \/ Started(w)
    PROVE  Log!Forget(w) \/ \E i \in 1..Len(journal) : Log!Tell(w, i)
<1> USE DEF StreamInv, TypeInv
<1>1. journal' = journal /\ state' = state
  BY DEF Returned, Started, store
<1>2. Withdrawn' = Withdrawn
  BY <1>1 DEF Withdrawn
<1>3. PICK r : reply' = [reply EXCEPT ![w] = r]
      /\ (r \in CompletedReplies => \E i \in 1..Len(journal) : r.winner = journal[i])
  <2>1. CASE Started(w)
    BY <2>1, NotCompleted DEF Started
  <2>2. CASE Refused(w)
    BY <2>2, NotCompleted DEF Refused
  <2>3. CASE Answered(w)
    <3>1. PICK i \in 1..Len(journal), k \in {"appended", "replayed"} :
             reply' = [reply EXCEPT ![w] = Resolve(w, journal[i], k)]
      BY <2>3 DEF Answered
    <3>2. journal[i] \in Entries
      BY DEF TypeOK
    <3>3. TypeOK
      OBVIOUS
    <3>4. Resolve(w, journal[i], k) \in CompletedReplies => Resolve(w, journal[i], k).winner = journal[i]
      BY <3>2, <3>3, ResolveType
    <3> QED
      BY <3>1, <3>4
  <2> QED
    BY <2>1, <2>2, <2>3 DEF Returned
<1>4. Told' = [Told EXCEPT ![w] = IF r \in CompletedReplies THEN {r.winner} ELSE {}]
  BY <1>3 DEF Told, TypeOK
<1>5. CASE r \in CompletedReplies
  BY <1>1, <1>2, <1>3, <1>4, <1>5 DEF Log!Tell
<1>6. CASE r \notin CompletedReplies
  BY <1>1, <1>2, <1>4, <1>6 DEF Log!Forget
<1> QED
  BY <1>5, <1>6

\* A step that touches a stream leaves every reply alone.
LEMMA EffectOrReply ==
    ASSUME TypeInv, Prepared, [Next]_vars
    PROVE  \/ Effect /\ UNCHANGED reply
           \/ \E w \in Workers : Returned(w) \/ Started(w)
BY StepEffect, ReplyEffect

\* Every behaviour of the executors over the streams is one of the decision log.
THEOREM Refinement == Spec => ImplementsDecisionLog
<1>1. Init => Log!Init
  <2> SUFFICES ASSUME Init PROVE Log!Init
    OBVIOUS
  <2>1. Withdrawn = {}
    BY DEF Init, Withdrawn
  <2>2. Told = [w \in Workers |-> {}]
    BY NotCompleted DEF Init, Told
  <2> QED
    BY <2>1, <2>2 DEF Init, Log!Init
<1>2. StreamInv /\ [Next]_vars => [Log!Next]_(Log!vars)
  <2> SUFFICES ASSUME StreamInv, [Next]_vars PROVE [Log!Next]_(Log!vars)
    OBVIOUS
  <2>1. CASE \E w \in Workers : Returned(w) \/ Started(w)
    BY <2>1, ReplyTells DEF Log!Next
  <2>2. CASE (Undisturbed \/ Activates) /\ UNCHANGED reply
    <3>1. journal' = journal /\ Told' = Told
      BY <2>2 DEF Undisturbed, Activates, Told
    <3> QED
      BY <2>2, <3>1, QuietKeepsWithdrawn DEF Log!vars
  <2>3. CASE Expires /\ UNCHANGED reply
    BY <2>3, ExpireWithdraws DEF Log!Next
  <2>4. CASE (\E e \in Entries : Commits(e)) /\ UNCHANGED reply
    BY <2>4, CommitDecides DEF Log!Next
  <2> QED
    BY <2>1, <2>2, <2>3, <2>4, EffectOrReply DEF Effect, StreamInv
<1> QED
  BY <1>1, <1>2, StreamsCorrect, PTL DEF Spec, Log!Spec, ImplementsDecisionLog
===============================================================================
