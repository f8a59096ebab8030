---------------------------- MODULE ServicesProofs ----------------------------
(* What the services promise, for every value of their constants.  A caller of *)
(* the command service is given the permanent outcome of its own command,      *)
(* decided under its own scope; a caller of the query bus an answer to its own *)
(* query; a report on fixtures is true; and an invocation of the host runs on  *)
(* streams that are whole.                                                     *)
EXTENDS Services, SequenceTheorems, FiniteSetTheorems, TLAPS

-----------------------------------------------------------------------------
(* The command service. *)

Outcomes ==
    [by : Nat \ {0}, op : Operations, ident : {c.ident : c \in Commands}, stamp : {c.stamp : c \in Commands},
     scope : {ScopeOf(w) : w \in Callers}, decision : Decisions, kept : BOOLEAN]

Answers == Decisions \cup {"expired"}

Results ==
    {NoResult, Missing, [kind |-> "conflict"]}
        \cup {Error(w) : w \in {"invalid", "denied", "unavailable", "identity", "expired", "blocked"}}
        \cup {Completed(o, e, MessageId(c), d) :
                 o \in {"committed", "replayed"}, e \in Outcomes, c \in Commands, d \in Answers}

Pcs == {"gate", "peek", "validate", "started", "read", "lookup", "execute", "run", "finished", "return"}

Calls ==
    [pc : Pcs, via : Ingress, cmd : Commands, who : Callers, id : Nat, result : Results,
     errs : SUBSET Pcs, dup : BOOLEAN]

Reports ==
    [cmd : Commands, who : Callers, result : Results, audit : {"none", "disabled", "delivered", "failed"}, dup : BOOLEAN]

TypeInv ==
    /\ store \in [Operations -> Outcomes \cup {NoDecision}]
    /\ at \in [Slots -> Calls \cup {NoCall}]
    /\ reports \in Seq(Reports)
    /\ \A a \in Slots : Running(a) => at[a].id \in 1..Len(reports)

\* A decided operation is decided for itself.
StoreInv == \A o \in Operations : store[o] # NoDecision => store[o].op = o

\* The operation of command c is decided, for its content and its caller w, as response says.
Owns(c, w, response) ==
    LET e == store[c.op] IN
    e # NoDecision /\ e.ident = c.ident /\ e.scope = ScopeOf(w) /\ response = e.decision

\* A completed result is the caller's own, or tells nothing but that it has expired.
Sound(c, w, r) == r.kind = "completed" /\ r.response # "expired" => Owns(c, w, r.response)

\* The report is kept under the attempt's identity.
Reported(x) == reports[x.id].cmd = x.cmd /\ reports[x.id].who = x.who

CallsInv == \A a \in Slots : Running(a) => Sound(at[a].cmd, at[a].who, at[a].result) /\ Reported(at[a])

ReportsInv ==
    \A i \in 1..Len(reports) :
        reports[i].result.kind = "completed" => Owns(reports[i].cmd, reports[i].who, reports[i].result.response)

ServiceInv == TypeInv /\ StoreInv /\ CallsInv /\ ReportsInv

-----------------------------------------------------------------------------
(* Decisions. *)

\* What a step may do to the store: decide, and withdraw details.
Grows ==
    /\ store' \in [Operations -> Outcomes \cup {NoDecision}] /\ StoreInv'
    /\ \A o \in Operations : store[o] # NoDecision =>
          /\ store'[o] # NoDecision
          /\ store'[o].ident = store[o].ident /\ store'[o].scope = store[o].scope
          /\ store'[o].decision = store[o].decision

LEMMA SameStore == ServiceInv /\ UNCHANGED store => Grows
  BY DEF ServiceInv, TypeInv, StoreInv, Grows

LEMMA OwnsStays ==
    ASSUME ServiceInv, Grows, NEW c \in Commands, NEW w, NEW response, Owns(c, w, response)
    PROVE  Owns(c, w, response)'
  <1>1. c.op \in Operations
    BY DEF Operations
  <1> QED  BY <1>1 DEF Grows, Owns, ScopeOf

\* An outcome is no NoDecision.
LEMMA OutcomeIsDecision == \A e \in Outcomes : e # NoDecision
  BY DEF Outcomes, NoDecision

\* What is known of a running call.
LEMMA CallFacts ==
    ASSUME ServiceInv, NEW a \in Slots, Running(a)
    PROVE  /\ at[a] \in Calls /\ at[a].id \in 1..Len(reports) /\ at[a].id \in Nat \ {0}
           /\ at[a].cmd \in Commands /\ at[a].who \in Callers /\ at[a].cmd.op \in Operations
           /\ at[a].result \in Results /\ Sound(at[a].cmd, at[a].who, at[a].result) /\ Reported(at[a])
  <1>1. at[a] \in Calls /\ at[a].id \in 1..Len(reports)
    BY DEF ServiceInv, TypeInv, Running, NoCall
  <1>2. at[a].cmd \in Commands /\ at[a].who \in Callers /\ at[a].id \in Nat /\ at[a].result \in Results
    BY <1>1 DEF Calls
  <1>3. Sound(at[a].cmd, at[a].who, at[a].result) /\ Reported(at[a])
    BY DEF ServiceInv, CallsInv
  <1> QED  BY <1>1, <1>2, <1>3 DEF Operations

\* Execute and Drop: the operation's first decision is its caller's.
LEMMA WinnerGrows ==
    ASSUME ServiceInv, NEW a \in Slots, Running(a), NEW d \in Decisions, store[at[a].cmd.op] = NoDecision,
           store' = [store EXCEPT ![at[a].cmd.op] = Winner(a, d)],
           NEW c, c = at[a].cmd, NEW w, w = at[a].who
    PROVE  /\ Grows /\ Winner(a, d) \in Outcomes /\ Winner(a, d).decision = d /\ Winner(a, d).kept
           /\ Owns(c, w, d)'
  <1> DEFINE e == Winner(a, d)
  <1>1. c \in Commands /\ w \in Callers /\ at[a].id \in Nat \ {0} /\ c.op \in Operations
    BY CallFacts
  <1>2. e \in Outcomes /\ e.op = c.op /\ e.ident = c.ident /\ e.scope = ScopeOf(w) /\ e.decision = d /\ e.kept
    BY <1>1 DEF Winner, Outcomes
  <1>3. store \in [Operations -> Outcomes \cup {NoDecision}]
    BY DEF ServiceInv, TypeInv
  <1>4. store' = [store EXCEPT ![c.op] = e]
    OBVIOUS
  <1> HIDE DEF e
  <1>5. /\ store' \in [Operations -> Outcomes \cup {NoDecision}] /\ store'[c.op] = e
        /\ \A o \in Operations \ {c.op} : store'[o] = store[o]
    BY <1>1, <1>2, <1>3, <1>4
  <1>6. StoreInv'
    BY <1>2, <1>5 DEF ServiceInv, StoreInv
  <1>7. Grows
    BY <1>5, <1>6 DEF Grows
  <1>8. e # NoDecision
    BY <1>2, OutcomeIsDecision
  <1>9. Owns(c, w, d)'
    BY <1>2, <1>5, <1>8 DEF Owns, ScopeOf
  <1> QED  BY <1>2, <1>7, <1>9 DEF e

\* Expire: the details go, the decision stays.
LEMMA ExpireGrows ==
    ASSUME ServiceInv, NEW o \in Operations, Expire(o)
    PROVE  Grows
  <1> DEFINE e == [store[o] EXCEPT !.kept = FALSE]
  <1>1. store \in [Operations -> Outcomes \cup {NoDecision}] /\ store[o] \in Outcomes
    BY DEF Expire, ServiceInv, TypeInv
  <1>2. store' = [store EXCEPT ![o] = e]
    BY DEF Expire
  <1>3. /\ e \in Outcomes /\ e.op = store[o].op /\ e.ident = store[o].ident /\ e.scope = store[o].scope
        /\ e.decision = store[o].decision
    BY <1>1 DEF Outcomes
  <1> HIDE DEF e
  <1>4. /\ store' \in [Operations -> Outcomes \cup {NoDecision}] /\ store'[o] = e
        /\ \A p \in Operations \ {o} : store'[p] = store[p]
    BY <1>1, <1>2, <1>3
  <1>5. store[o] # NoDecision /\ e # NoDecision
    BY <1>1, <1>3, OutcomeIsDecision
  <1>6. StoreInv'
    BY <1>3, <1>4, <1>5 DEF ServiceInv, StoreInv
  <1> QED  BY <1>3, <1>4, <1>5, <1>6 DEF Grows

-----------------------------------------------------------------------------
(* Steps of a call that make no report. *)

LEMMA ReportsStay ==
    ASSUME ServiceInv, Grows, UNCHANGED reports
    PROVE  reports' \in Seq(Reports) /\ ReportsInv'
  <1>1. reports \in Seq(Reports) /\ \A i \in 1..Len(reports) : reports[i].cmd \in Commands
    <2>1. \A i \in 1..Len(reports) : reports[i] \in Reports
      BY DEF ServiceInv, TypeInv
    <2> QED  BY <2>1 DEF ServiceInv, TypeInv, Reports
  <1>2. ASSUME NEW i \in 1..Len(reports), reports[i].result.kind = "completed"
        PROVE  Owns(reports[i].cmd, reports[i].who, reports[i].result.response)'
    <2>1. PICK r : r = reports[i]
      OBVIOUS
    <2>2. r.cmd \in Commands /\ Owns(r.cmd, r.who, r.result.response)
      BY <1>1, <1>2, <2>1 DEF ServiceInv, ReportsInv
    <2>3. Owns(r.cmd, r.who, r.result.response)'
      BY <2>2, OwnsStays
    <2> QED  BY <2>1, <2>3
  <1> QED  BY <1>1, <1>2 DEF ReportsInv

\* The other calls keep what they know.
LEMMA CallKeeps ==
    ASSUME ServiceInv, Grows, NEW a \in Slots, NEW y \in Calls \cup {NoCall}, at' = [at EXCEPT ![a] = y],
           reports' \in Seq(Reports), Len(reports') \in Nat, Len(reports) <= Len(reports'), ReportsInv',
           \A i \in 1..Len(reports) : reports'[i].cmd = reports[i].cmd /\ reports'[i].who = reports[i].who,
           y.pc # "idle" => y.id \in 1..Len(reports') /\ Sound(y.cmd, y.who, y.result)' /\ Reported(y)'
    PROVE  ServiceInv'
  <1>1. at' \in [Slots -> Calls \cup {NoCall}] /\ at'[a] = y /\ \A b \in Slots \ {a} : at'[b] = at[b]
    BY DEF ServiceInv, TypeInv
  <1>2. ASSUME NEW b \in Slots, Running(b)'
        PROVE  at'[b].id \in 1..Len(reports') /\ Sound(at[b].cmd, at[b].who, at[b].result)' /\ Reported(at[b])'
    <2>1. CASE b = a
      BY <1>1, <1>2, <2>1 DEF Running
    <2>2. CASE b # a
      <3>1. PICK x : x = at[b]
        OBVIOUS
      <3>2. Running(b) /\ at'[b] = x
        BY <1>1, <1>2, <2>2, <3>1 DEF Running
      <3>3. x.cmd \in Commands /\ Sound(x.cmd, x.who, x.result) /\ x.id \in 1..Len(reports) /\ Reported(x)
        BY <3>1, <3>2, CallFacts
      <3>4. Sound(x.cmd, x.who, x.result)'
        BY <3>3, OwnsStays DEF Sound
      <3>5. Len(reports) \in Nat
        BY DEF ServiceInv, TypeInv
      <3>6. Reported(x)'
        BY <3>3 DEF Reported
      <3> QED  BY <3>2, <3>3, <3>4, <3>5, <3>6
    <2> QED  BY <2>1, <2>2
  <1>3. TypeInv'
    BY <1>1, <1>2 DEF TypeInv, Grows
  <1>4. CallsInv'
    BY <1>2 DEF CallsInv
  <1> QED  BY <1>3, <1>4 DEF ServiceInv, Grows

\* The same call, elsewhere, perhaps with a result.
LEMMA MoveKeeps ==
    ASSUME ServiceInv, Grows, UNCHANGED reports, NEW a \in Slots, Running(a), NEW y \in Calls,
           at' = [at EXCEPT ![a] = y], y.id = at[a].id, y.cmd = at[a].cmd, y.who = at[a].who,
           Sound(y.cmd, y.who, y.result)'
    PROVE  ServiceInv'
  <1>1. reports' \in Seq(Reports) /\ ReportsInv' /\ Len(reports) \in Nat
    BY ReportsStay
  <1>2. y.id \in 1..Len(reports')
    BY CallFacts
  <1>3. Len(reports') \in Nat /\ Len(reports) <= Len(reports') /\ y \in Calls \cup {NoCall}
    BY <1>1
  <1>4. Reported(y)'
    BY CallFacts DEF Reported
  <1> QED  BY <1>1, <1>2, <1>3, <1>4, CallKeeps

LEMMA HoldsKeeps ==
    ASSUME ServiceInv, Grows, UNCHANGED reports, NEW a \in Slots, Running(a), NEW l \in Pcs, NEW r \in Results,
           Holds(a, r, l), NEW c, c = at[a].cmd, NEW w, w = at[a].who, Sound(c, w, r)'
    PROVE  ServiceInv'
  <1> DEFINE y == [at[a] EXCEPT !.pc = l, !.result = r]
  <1>1. PICK z : z = y
    OBVIOUS
  <1>2. z \in Calls /\ z.cmd = c /\ z.who = w /\ z.id = at[a].id /\ z.result = r
    BY <1>1, CallFacts DEF Calls
  <1>3. at' = [at EXCEPT ![a] = z]
    BY <1>1 DEF Holds, Set
  <1> QED  BY <1>2, <1>3, MoveKeeps

LEMMA GotoKeeps ==
    ASSUME ServiceInv, UNCHANGED <<store, reports>>, NEW a \in Slots, Running(a), NEW l \in Pcs, Goto(a, l)
    PROVE  ServiceInv'
  <1>1. PICK z : z = [at[a] EXCEPT !.pc = l]
    OBVIOUS
  <1>2. z \in Calls /\ z.cmd = at[a].cmd /\ z.who = at[a].who /\ z.id = at[a].id /\ z.result = at[a].result
    BY <1>1, CallFacts DEF Calls
  <1>3. at' = [at EXCEPT ![a] = z]
    BY <1>1 DEF Goto, Set
  <1>4. Grows
    BY SameStore
  <1>5. Sound(z.cmd, z.who, z.result)'
    BY <1>2, <1>4, CallFacts, OwnsStays DEF Sound
  <1> QED  BY <1>2, <1>3, <1>4, <1>5, MoveKeeps

\* The call has its result.
LEMMA EndsKeeps ==
    ASSUME ServiceInv, Grows, UNCHANGED reports, NEW a \in Slots, Running(a), NEW r \in Results,
           Ends(a, r), NEW c, c = at[a].cmd, NEW w, w = at[a].who, Sound(c, w, r)'
    PROVE  ServiceInv'
  <1>1. PICK l \in {"finished", "return"} : Holds(a, r, l)
    BY DEF Ends
  <1>2. l \in Pcs
    BY DEF Pcs
  <1> QED  BY <1>1, <1>2, HoldsKeeps

\* Results that tell no outcome.
LEMMA PlainResults ==
    /\ \A x \in {"invalid", "denied", "unavailable", "identity", "expired", "blocked"} :
          Error(x) \in Results /\ Error(x).kind # "completed"
    /\ NoResult \in Results /\ NoResult.kind # "completed"
    /\ Missing \in Results /\ Missing.kind # "completed"
    /\ \A a : Conflict(a) \in Results /\ Conflict(a).kind # "completed"
  BY DEF Results, Error, NoResult, Missing, Conflict

LEMMA PlainEnds ==
    ASSUME ServiceInv, UNCHANGED <<store, reports>>, NEW a \in Slots, Running(a), NEW r \in Results,
           r.kind # "completed", Ends(a, r)
    PROVE  ServiceInv'
  <1>1. Grows
    BY SameStore
  <1>2. PICK c, w : c = at[a].cmd /\ w = at[a].who
    OBVIOUS
  <1>3. Sound(c, w, r)'
    BY DEF Sound
  <1> QED  BY <1>1, <1>2, <1>3, EndsKeeps

\* What a caller is told of an outcome that is its own.
LEMMA ProjectSound ==
    ASSUME NEW o \in {"committed", "replayed"}, NEW e \in Outcomes, NEW c \in Commands, NEW w,
           Grows, Owns(c, w, e.decision)'
    PROVE  Project(o, e, c) \in Results /\ Sound(c, w, Project(o, e, c))'
  <1>1. PICK d : d = IF e.kept THEN e.decision ELSE "expired"
    OBVIOUS
  <1>2. d \in Answers
    BY <1>1 DEF Answers, Outcomes
  <1>3. Project(o, e, c) = Completed(o, e, MessageId(c), d)
    BY <1>1 DEF Project
  <1>4. Completed(o, e, MessageId(c), d) \in Results
    BY <1>2 DEF Results
  <1>5. PICK r : r = Completed(o, e, MessageId(c), d)
    OBVIOUS
  <1>6. r.response = d
    BY <1>5 DEF Completed
  <1>7. Sound(c, w, r)'
    BY <1>1, <1>6 DEF Sound
  <1> QED  BY <1>3, <1>4, <1>5, <1>7

\* Lookup and ExecuteReplays: an outcome that was found.
LEMMA FoundKeeps ==
    ASSUME ServiceInv, UNCHANGED <<store, reports>>, NEW a \in Slots, Running(a),
           store[at[a].cmd.op] # NoDecision, SameIdentity(store[at[a].cmd.op], at[a].cmd, at[a].who),
           Ends(a, Project("replayed", store[at[a].cmd.op], at[a].cmd))
    PROVE  ServiceInv'
  <1>1. PICK c, w : c = at[a].cmd /\ w = at[a].who
    OBVIOUS
  <1>2. PICK e : e = store[c.op]
    OBVIOUS
  <1>3. c \in Commands /\ c.op \in Operations
    BY <1>1, CallFacts
  <1>4. e \in Outcomes
    BY <1>1, <1>2, <1>3 DEF ServiceInv, TypeInv
  <1>5. Grows
    BY SameStore
  <1>6. Owns(c, w, e.decision)'
    BY <1>1, <1>2 DEF Owns, SameIdentity, ScopeOf
  <1>7. PICK r : r = Project("replayed", e, c)
    OBVIOUS
  <1>8. r \in Results /\ Sound(c, w, r)'
    BY <1>3, <1>4, <1>5, <1>6, <1>7, ProjectSound
  <1>9. Ends(a, r)
    BY <1>1, <1>2, <1>7
  <1> QED  BY <1>1, <1>5, <1>8, <1>9, EndsKeeps

-----------------------------------------------------------------------------
(* The actions. *)

\* A new attempt has a report of its own, which tells nothing yet.
LEMMA CallStep ==
    ASSUME ServiceInv, NEW a \in Slots, NEW v \in Ingress, NEW c \in Commands, NEW w \in Callers, Call(a, v, c, w)
    PROVE  ServiceInv'
  <1> DEFINE n == Len(reports) + 1
             l == IF v = "memory" THEN "gate" ELSE "validate"
  <1>1. reports \in Seq(Reports) /\ Len(reports) \in Nat
    BY DEF ServiceInv, TypeInv
  <1>2. PICK y : y = [pc |-> l, via |-> v, cmd |-> c, who |-> w, id |-> n, result |-> NoResult, errs |-> {}, dup |-> FALSE]
    OBVIOUS
  <1>3. PICK new : new = [cmd |-> c, who |-> w, result |-> NoResult, audit |-> "none", dup |-> TRUE]
    OBVIOUS
  <1>4. y \in Calls /\ y.id = n /\ y.result = NoResult /\ y.cmd = c /\ y.who = w
    BY <1>1, <1>2, PlainResults DEF Calls, Pcs
  <1>5. new \in Reports /\ new.result = NoResult /\ new.cmd = c /\ new.who = w
    BY <1>3, PlainResults DEF Reports
  <1>6. at' = [at EXCEPT ![a] = y] /\ reports' = Append(reports, new) /\ UNCHANGED store
    BY <1>2, <1>3 DEF Call, Set
  <1>7. /\ reports' \in Seq(Reports) /\ Len(reports') = n /\ reports'[n] = new
        /\ \A i \in 1..Len(reports) : reports'[i] = reports[i]
    BY <1>1, <1>5, <1>6
  <1>8. ReportsInv'
    <2> SUFFICES ASSUME NEW i \in 1..n, reports'[i].result.kind = "completed"
                 PROVE  Owns(reports[i].cmd, reports[i].who, reports[i].result.response)'
      BY <1>7 DEF ReportsInv
    <2>1. i # n
      BY <1>5, <1>7, PlainResults
    <2>2. i \in 1..Len(reports)
      BY <1>1, <2>1
    <2>3. Owns(reports[i].cmd, reports[i].who, reports[i].result.response)
      BY <1>7, <2>2 DEF ServiceInv, ReportsInv
    <2> QED  BY <1>6, <1>7, <2>2, <2>3 DEF Owns, ScopeOf
  <1>9. Sound(y.cmd, y.who, y.result)'
    BY <1>4, PlainResults DEF Sound
  <1>10. Grows
    BY <1>6, SameStore
  <1>11. Len(reports') \in Nat /\ Len(reports) <= Len(reports') /\ y.id \in 1..Len(reports')
    BY <1>1, <1>4, <1>7
  <1>12. Reported(y)'
    BY <1>4, <1>5, <1>7 DEF Reported
  <1> HIDE DEF n, l
  <1> QED  BY <1>4, <1>6, <1>7, <1>8, <1>9, <1>10, <1>11, <1>12, CallKeeps

\* EnterGate, Peek, Validate, Authorize, AuthorizeFails, StoreFails, AuditStored and AuditFails
LEMMA PassSteps ==
    ASSUME ServiceInv, NEW a \in Slots,
           \/ EnterGate(a) \/ Peek(a) \/ Validate(a) \/ Authorize(a) \/ AuthorizeFails(a)
           \/ StoreFails(a) \/ AuditStored(a) \/ AuditFails(a)
    PROVE  ServiceInv'
  <1>1. Running(a) /\ UNCHANGED <<store, reports>>
    BY DEF EnterGate, Peek, Validate, Authorize, AuthorizeFails, StoreFails, AuditStored, AuditFails, Running
  <1>2. CASE EnterGate(a)
    BY <1>1, <1>2, GotoKeeps DEF EnterGate, Pcs
  <1>3. CASE Peek(a)
    <2> DEFINE d == MessageId(at[a].cmd) \in commands
    <2>0. d \in BOOLEAN
      OBVIOUS
    <2>1. at' = [at EXCEPT ![a] = [at[a] EXCEPT !.dup = d, !.pc = "validate"]]
      BY <1>3 DEF Peek, Set
    <2> HIDE DEF d
    <2>2. PICK y : y = [at[a] EXCEPT !.dup = d, !.pc = "validate"]
      OBVIOUS
    <2>3. y \in Calls /\ y.cmd = at[a].cmd /\ y.who = at[a].who /\ y.id = at[a].id /\ y.result = at[a].result
      BY <1>1, <2>0, <2>2, CallFacts DEF Calls, Pcs
    <2>4. Grows
      BY <1>1, SameStore
    <2>5. Sound(y.cmd, y.who, y.result)'
      BY <1>1, <2>3, <2>4, CallFacts, OwnsStays DEF Sound
    <2> QED  BY <1>1, <2>1, <2>2, <2>3, <2>4, <2>5, MoveKeeps
  <1>4. CASE Validate(a)
    <2>1. CASE \E l \in {"lookup", "started", "read"} : Goto(a, l)
      BY <1>1, <2>1, GotoKeeps DEF Pcs
    <2>2. CASE Holds(a, Error("invalid"), "return")
      <3>1. Grows
        BY <1>1, SameStore
      <3>2. PICK c, w : c = at[a].cmd /\ w = at[a].who
        OBVIOUS
      <3>3. PICK r : r = Error("invalid")
        OBVIOUS
      <3>4. r \in Results /\ Sound(c, w, r)'
        BY <3>3, PlainResults DEF Sound
      <3>5. "return" \in Pcs /\ Holds(a, r, "return")
        BY <2>2, <3>3 DEF Pcs
      <3> QED  BY <1>1, <3>1, <3>2, <3>4, <3>5, HoldsKeeps
    <2> QED  BY <1>4, <2>1, <2>2 DEF Validate
  <1>5. CASE Authorize(a) \/ AuthorizeFails(a) \/ StoreFails(a)
    <2>1. \/ \E l \in {"lookup", "run"} : Goto(a, l)
          \/ \E x \in {"denied", "unavailable"} : Ends(a, Error(x))
      BY <1>5 DEF Authorize, AuthorizeFails, StoreFails
    <2>2. ASSUME NEW l \in {"lookup", "run"}, Goto(a, l) PROVE ServiceInv'
      BY <1>1, <2>2, GotoKeeps DEF Pcs
    <2>3. ASSUME NEW x \in {"denied", "unavailable"}, Ends(a, Error(x)) PROVE ServiceInv'
      BY <1>1, <2>3, PlainResults, PlainEnds
    <2> QED  BY <2>1, <2>2, <2>3
  <1>6. CASE AuditStored(a)
    <2>1. AfterAudit(a) \in Pcs /\ Goto(a, AfterAudit(a))
      BY <1>6 DEF AuditStored, AfterAudit, Pcs
    <2> QED  BY <1>1, <2>1, GotoKeeps
  <1>7. CASE AuditFails(a)
    <2>1. PICK y : y = [at[a] EXCEPT !.pc = AfterAudit(a), !.errs = @ \cup {at[a].pc}]
      OBVIOUS
    <2>2. AfterAudit(a) \in Pcs
      BY DEF AfterAudit, Pcs
    <2>3. y \in Calls /\ y.cmd = at[a].cmd /\ y.who = at[a].who /\ y.id = at[a].id /\ y.result = at[a].result
      BY <1>1, <2>1, <2>2, CallFacts DEF Calls
    <2>4. at' = [at EXCEPT ![a] = y]
      BY <1>7, <2>1 DEF AuditFails, Set
    <2>5. Grows
      BY <1>1, SameStore
    <2>6. Sound(y.cmd, y.who, y.result)'
      BY <1>1, <2>3, <2>5, CallFacts, OwnsStays DEF Sound
    <2> QED  BY <1>1, <2>3, <2>4, <2>5, <2>6, MoveKeeps
  <1> QED  BY <1>2, <1>3, <1>4, <1>5, <1>6, <1>7

LEMMA LookupStep ==
    ASSUME ServiceInv, NEW a \in Slots, Lookup(a)
    PROVE  ServiceInv'
  <1>1. Running(a) /\ UNCHANGED <<store, reports>>
    BY DEF Lookup, Running
  <1> DEFINE e == store[at[a].cmd.op]
  <1>2. CASE e # NoDecision /\ SameIdentity(e, at[a].cmd, at[a].who)
    BY <1>1, <1>2, FoundKeeps DEF Lookup, Answer
  <1>3. CASE e # NoDecision /\ ~SameIdentity(e, at[a].cmd, at[a].who)
    BY <1>1, <1>3, PlainResults, PlainEnds DEF Lookup, Answer
  <1>4. CASE e = NoDecision
    <2>1. CASE at[a].via = "lookup"
      BY <1>1, <1>4, <2>1, PlainResults, PlainEnds DEF Lookup
    <2>2. CASE at[a].via # "lookup"
      <3>1. PICK l \in {"run", "execute"} : Goto(a, l)
        BY <1>4, <2>2 DEF Lookup
      <3> QED  BY <1>1, <3>1, GotoKeeps DEF Pcs
    <2> QED  BY <2>1, <2>2
  <1> QED  BY <1>2, <1>3, <1>4

LEMMA ExecuteSteps ==
    ASSUME ServiceInv, NEW a \in Slots, (\E d \in Decisions : Execute(a, d)) \/ ExecuteReplays(a)
    PROVE  ServiceInv'
  <1>1. ASSUME NEW d \in Decisions, Execute(a, d) PROVE ServiceInv'
    <2>1. /\ Running(a) /\ UNCHANGED reports /\ store[at[a].cmd.op] = NoDecision
          /\ store' = [store EXCEPT ![at[a].cmd.op] = Winner(a, d)]
      BY <1>1 DEF Execute, Running
    <2>2. PICK c, w, e : c = at[a].cmd /\ w = at[a].who /\ e = Winner(a, d)
      OBVIOUS
    <2>3. Grows /\ e \in Outcomes /\ e.decision = d /\ Owns(c, w, d)' /\ c \in Commands
      BY <2>1, <2>2, WinnerGrows, CallFacts
    <2>4. CASE Ends(a, Error("unavailable"))
      <3>1. PICK r : r = Error("unavailable")
        OBVIOUS
      <3>2. r \in Results /\ Sound(c, w, r)'
        BY <3>1, PlainResults DEF Sound
      <3> QED  BY <2>1, <2>2, <2>3, <2>4, <3>1, <3>2, EndsKeeps
    <2>5. ASSUME NEW o \in {"committed", "replayed"}, Ends(a, Project(o, e, c)) PROVE ServiceInv'
      <3>1. PICK r : r = Project(o, e, c)
        OBVIOUS
      <3>2. r \in Results /\ Sound(c, w, r)'
        BY <2>3, <3>1, ProjectSound
      <3> QED  BY <2>1, <2>2, <2>3, <2>5, <3>1, <3>2, EndsKeeps
    <2>6. Ends(a, Error("unavailable")) \/ \E o \in {"committed", "replayed"} : Ends(a, Project(o, e, c))
      BY <1>1, <2>2 DEF Execute, Origin
    <2> QED  BY <2>4, <2>5, <2>6
  <1>2. CASE ExecuteReplays(a)
    <2>1. Running(a) /\ UNCHANGED <<store, reports>>
      BY <1>2 DEF ExecuteReplays, Running
    <2>2. CASE SameIdentity(store[at[a].cmd.op], at[a].cmd, at[a].who)
      BY <1>2, <2>1, <2>2, FoundKeeps DEF ExecuteReplays, Origin
    <2>3. CASE ~SameIdentity(store[at[a].cmd.op], at[a].cmd, at[a].who)
      BY <1>2, <2>1, <2>3, PlainResults, PlainEnds DEF ExecuteReplays
    <2> QED  BY <2>2, <2>3
  <1> QED  BY <1>1, <1>2

\* A dropped call: what it asked of the store may still happen.
LEMMA DropStep ==
    ASSUME ServiceInv, NEW a \in Slots, Drop(a)
    PROVE  ServiceInv'
  <1>1. Running(a) /\ UNCHANGED reports /\ at' = [at EXCEPT ![a] = NoCall]
    BY DEF Drop, Set
  <1>2. Grows
    <2>1. PICK c, w : c = at[a].cmd /\ w = at[a].who
      OBVIOUS
    <2>2. \/ UNCHANGED store
          \/ /\ store[at[a].cmd.op] = NoDecision
             /\ \E d \in Decisions : store' = [store EXCEPT ![at[a].cmd.op] = Winner(a, d)]
      BY DEF Drop
    <2> QED  BY <1>1, <2>1, <2>2, SameStore, WinnerGrows
  <1>3. reports' \in Seq(Reports) /\ ReportsInv'
    BY <1>1, <1>2, ReportsStay
  <1>4. Len(reports') \in Nat /\ Len(reports) <= Len(reports')
    BY <1>1, <1>3
  <1>5. NoCall.pc = "idle" /\ NoCall \in Calls \cup {NoCall}
    BY DEF NoCall
  <1> QED  BY <1>1, <1>2, <1>3, <1>4, <1>5, CallKeeps

\* Return: whatever the service answered, what the caller takes for its outcome is its own.
LEMMA AdmittedIsOwn ==
    ASSUME ProfileAssumption, ServiceInv, NEW a \in Slots, Running(a),
           NEW r \in {at[a].result} \cup (IF Proxied THEN Substituted(a) ELSE {})
    PROVE  /\ Admitted(a, r) \in Results
           /\ Admitted(a, r).kind = "completed" => Owns(at[a].cmd, at[a].who, Admitted(a, r).response)
  <1> DEFINE c == at[a].cmd
  <1>1. at[a].result \in Results /\ c \in Commands /\ Sound(c, at[a].who, at[a].result)
    BY CallFacts
  <1>2. CASE r = at[a].result
    <2>1. Admitted(a, r) = r \/ \E x \in {"expired", "blocked"} : Admitted(a, r) = Error(x)
      BY DEF Admitted
    <2>2. Admitted(a, r) = r /\ r.kind = "completed" => r.response # "expired"
      <3>1. CASE r.kind = "completed" /\ r.response = "expired"
        BY <3>1, PlainResults DEF Admitted
      <3> QED  BY <3>1
    <2> QED  BY <1>1, <1>2, <2>1, <2>2, PlainResults DEF Sound
  <1>3. CASE Proxied /\ r \in Substituted(a)
    <2>1. PICK o \in Operations, k \in Commands, d \in Answers :
              store[o] # NoDecision /\ r = Completed("replayed", store[o], MessageId(k), d)
      BY <1>3 DEF Substituted, Answers
    <2>2. store[o] \in Outcomes /\ store[o].op = o
      BY <2>1 DEF ServiceInv, TypeInv, StoreInv
    <2>3. r \in Results
      BY <2>1, <2>2 DEF Results
    <2>4. r.kind = "completed" /\ r.marker = store[o] /\ r.response = d
      BY <2>1 DEF Completed
    <2>5. CASE d # "expired" /\ Admits(a, r)
      <3>1. Admitted(a, r) = r
        BY <2>4, <2>5 DEF Admitted
      <3>2. o = c.op /\ SameIdentity(store[o], c, at[a].who) /\ d = store[o].decision
        BY <2>2, <2>4, <2>5 DEF Admits
      <3> QED  BY <2>1, <2>3, <2>4, <3>1, <3>2 DEF Owns, SameIdentity
    <2>6. CASE d = "expired" \/ ~Admits(a, r)
      <3>1. ~Trusted
        BY <1>3 DEF ProfileAssumption
      <3>2. \E x \in {"expired", "blocked"} : Admitted(a, r) = Error(x)
        BY <2>4, <2>6, <3>1 DEF Admitted
      <3> QED  BY <3>2, PlainResults
    <2> QED  BY <2>5, <2>6
  <1> QED  BY <1>2, <1>3

LEMMA ReturnStep ==
    ASSUME ProfileAssumption, ServiceInv, NEW a \in Slots, Return(a)
    PROVE  ServiceInv'
  <1>1. Running(a) /\ UNCHANGED store /\ at' = [at EXCEPT ![a] = NoCall]
    BY DEF Return, Running, Set
  <1>2. PICK r \in {at[a].result} \cup (IF Proxied THEN Substituted(a) ELSE {}) :
            reports' = [reports EXCEPT ![at[a].id] = [@ EXCEPT
                !.result = Admitted(a, r), !.audit = Delivery(a), !.dup = Duplicate(a) \/ at[a].via # "memory"]]
    BY DEF Return
  <1> DEFINE n == at[a].id
  <1>3. reports \in Seq(Reports) /\ Len(reports) \in Nat /\ n \in 1..Len(reports)
    BY <1>1, CallFacts DEF ServiceInv, TypeInv
  <1>4. PICK new : new = [reports[n] EXCEPT
                !.result = Admitted(a, r), !.audit = Delivery(a), !.dup = Duplicate(a) \/ at[a].via # "memory"]
    OBVIOUS
  <1>5. reports' = [reports EXCEPT ![n] = new]
    BY <1>2, <1>3, <1>4
  <1>6. Admitted(a, r) \in Results /\ (Admitted(a, r).kind = "completed" => Owns(at[a].cmd, at[a].who, Admitted(a, r).response))
    BY <1>1, AdmittedIsOwn
  <1>7. new \in Reports /\ new.result = Admitted(a, r) /\ new.cmd = reports[n].cmd /\ new.who = reports[n].who
    <2>1. reports[n] \in Reports
      BY <1>3
    <2>2. Delivery(a) \in {"none", "disabled", "delivered", "failed"}
      BY DEF Delivery
    <2>3. (Duplicate(a) \/ at[a].via # "memory") \in BOOLEAN
      OBVIOUS
    <2> QED  BY <1>4, <1>6, <2>1, <2>2, <2>3 DEF Reports
  <1> HIDE DEF n
  <1>8. /\ reports' \in Seq(Reports) /\ Len(reports') = Len(reports) /\ reports'[n] = new
        /\ \A i \in 1..Len(reports) \ {n} : reports'[i] = reports[i]
    BY <1>3, <1>5, <1>7
  <1>9. Owns(new.cmd, new.who, new.result.response) \/ new.result.kind # "completed"
    <2>1. Reported(at[a])
      BY <1>1, CallFacts
    <2>2. new.cmd = at[a].cmd /\ new.who = at[a].who
      BY <1>7, <2>1 DEF Reported, n
    <2> QED  BY <1>6, <1>7, <2>2
  <1>10. ReportsInv'
    <2> SUFFICES ASSUME NEW i \in 1..Len(reports), reports'[i].result.kind = "completed"
                 PROVE  Owns(reports[i].cmd, reports[i].who, reports[i].result.response)'
      BY <1>8 DEF ReportsInv
    <2>1. PICK x : x = reports'[i]
      OBVIOUS
    <2>2. Owns(x.cmd, x.who, x.result.response)
      BY <1>8, <1>9, <2>1 DEF ServiceInv, ReportsInv
    <2> QED  BY <1>1, <2>1, <2>2 DEF Owns, ScopeOf
  <1>11. \A i \in 1..Len(reports) : reports'[i].cmd = reports[i].cmd /\ reports'[i].who = reports[i].who
    BY <1>7, <1>8
  <1>12. Grows
    BY <1>1, SameStore
  <1>13. NoCall.pc = "idle" /\ NoCall \in Calls \cup {NoCall}
    BY DEF NoCall
  <1>14. Len(reports') \in Nat /\ Len(reports) <= Len(reports')
    BY <1>3, <1>8
  <1> QED  BY <1>1, <1>8, <1>10, <1>11, <1>12, <1>13, <1>14, CallKeeps

-----------------------------------------------------------------------------
(* The theorem. *)

LEMMA ServiceInit == Init => ServiceInv
  <1> SUFFICES ASSUME Init PROVE ServiceInv
    OBVIOUS
  <1>1. reports \in Seq(Reports) /\ Len(reports) = 0
    BY DEF Init
  <1>2. \A a \in Slots : ~Running(a)
    BY DEF Init, Running, NoCall
  <1>3. TypeInv /\ CallsInv
    BY <1>1, <1>2 DEF Init, TypeInv, CallsInv
  <1>4. StoreInv
    BY DEF Init, StoreInv
  <1> QED  BY <1>1, <1>3, <1>4 DEF ServiceInv, ReportsInv

LEMMA ServiceStep ==
    ASSUME ProfileAssumption, ServiceInv, [Next]_vars
    PROVE  ServiceInv'
  <1>1. CASE UNCHANGED <<store, at, reports>>
    BY <1>1 DEF ServiceInv, TypeInv, StoreInv, CallsInv, ReportsInv, Running, Sound, Owns, Reported, ScopeOf
  <1>2. ASSUME NEW a \in Slots, Step(a) \/ AuditStored(a) \/ Drop(a) PROVE ServiceInv'
    BY <1>2, PassSteps, LookupStep, ExecuteSteps, ReturnStep, DropStep DEF Step
  <1>3. ASSUME NEW a \in Slots, NEW v \in Ingress, NEW c \in Commands, NEW w \in Callers, Call(a, v, c, w)
        PROVE  ServiceInv'
    BY <1>3, CallStep
  <1>4. ASSUME NEW o \in Operations, Expire(o) PROVE ServiceInv'
    <2>1. Grows /\ UNCHANGED <<at, reports>>
      BY <1>4, ExpireGrows DEF Expire
    <2>2. CASE Slots = {}
      <3>1. reports' \in Seq(Reports) /\ ReportsInv'
        BY <2>1, ReportsStay
      <3> QED  BY <2>1, <2>2, <3>1 DEF ServiceInv, TypeInv, CallsInv, Grows
    <2>3. ASSUME NEW a \in Slots PROVE ServiceInv'
      <3>1. PICK y : y = at[a]
        OBVIOUS
      <3>2. y \in Calls \cup {NoCall} /\ at' = [at EXCEPT ![a] = y]
        BY <2>1, <3>1 DEF ServiceInv, TypeInv
      <3>3. reports' \in Seq(Reports) /\ ReportsInv' /\ Len(reports') \in Nat /\ Len(reports) <= Len(reports')
        <4>1. reports' \in Seq(Reports) /\ ReportsInv'
          BY <2>1, ReportsStay
        <4> QED  BY <2>1, <4>1
      <3>4. y.pc # "idle" => y.id \in 1..Len(reports') /\ Sound(y.cmd, y.who, y.result)' /\ Reported(y)'
        <4> SUFFICES ASSUME y.pc # "idle" PROVE y.id \in 1..Len(reports') /\ Sound(y.cmd, y.who, y.result)' /\ Reported(y)'
          OBVIOUS
        <4>1. /\ y.cmd \in Commands /\ y.id \in 1..Len(reports) /\ Sound(y.cmd, y.who, y.result) /\ Reported(y)
          BY <3>1, CallFacts DEF Running
        <4> QED  BY <2>1, <4>1, OwnsStays DEF Sound, Reported
      <3> QED  BY <2>1, <3>2, <3>3, <3>4, CallKeeps
    <2> QED  BY <2>2, <2>3
  <1>5. ASSUME NEW g \in Grants, ChangePolicy(g) PROVE UNCHANGED <<store, at, reports>>
    BY <1>5 DEF ChangePolicy
  <1>6. ASSUME Clear PROVE UNCHANGED <<store, at, reports>>
    BY <1>6 DEF Clear
  <1> QED  BY <1>1, <1>2, <1>3, <1>4, <1>5, <1>6 DEF Next, vars

\* What a caller is given as the outcome of its command is the permanent decision
\* of that operation, for the same content and under the caller's own scope,
\* however attempts race, are dropped or find expired details, and even behind
\* a service that mixes outcomes up (reconcile_completed, process_authorized,
\* ProcessedCommand::admit).
THEOREM OwnOutcomesOnly ==
    ASSUME ProfileAssumption
    PROVE  Spec => []OutcomesStayInScope
  <1>1. Init => ServiceInv
    BY ServiceInit
  <1>2. ServiceInv /\ [Next]_vars => ServiceInv'
    BY ServiceStep
  <1>3. ServiceInv => OutcomesStayInScope
    BY DEF ServiceInv, ReportsInv, Owns, OutcomesStayInScope
  <1> QED  BY <1>1, <1>2, <1>3, PTL DEF Spec

-----------------------------------------------------------------------------
(* The query bus: the inductive invariant. *)

\* What a caller may be told besides the value it asked for.
BusErrors ==
    {<<"timeout">>, <<"unavailable">>, <<"too_large">>, <<"invalid">>,
     <<"invalid_request">>, <<"failed">>, <<"handler_timeout">>, <<"internal">>}

BusInboxes == {Bus!Nowhere} \cup (Clients \X Nat)
BusRequests ==
    [id : Clients \cup {"none", "other"}, schema : Bus!Schemas, routed : Bus!Names \X Bus!Schemas,
     fits : {q.fits : q \in Queries} \cup {TRUE}]
BusMessages == [subject : Bus!Names, inbox : BusInboxes, request : BusRequests]
BusValues == BusErrors \cup (Bus!Names \X Bus!Schemas)
BusCalls ==
    {Bus!Idle} \cup [pc : {"waiting"}, asks : Queries]
           \cup [pc : {"done"}, asks : Queries, result : BusValues]
BusWork == [message : BusMessages, pc : {"handling", "reply"}, outcome : BusValues \cup {<< >>}, size : Nat]

BusTypeInv ==
    /\ call \in [Clients -> BusCalls]
    /\ asked \in [Clients -> Nat]
    /\ inbox \in [Servers -> Seq(BusMessages)]
    /\ slots \in [Servers -> SUBSET BusWork]
    /\ \A c \in Clients : call[c].pc = "waiting" => asked[c] # 0

BusWanted(c) == <<call[c].asks.query, call[c].asks.schema>>

\* Whatever bears an inbox was asked through it, and while its caller waits it is
\* the request the caller waits for.
BusOurs(m) ==
    \A c \in Clients, n \in Nat : m.inbox = <<c, n>> =>
        /\ n <= asked[c]
        /\ call[c].pc = "waiting" /\ n = asked[c] => m.request.routed = BusWanted(c)

BusQueueInv == \A s \in Servers : \A i \in 1..Len(inbox[s]) : BusOurs(inbox[s][i])

BusSlotInv ==
    \A s \in Servers : \A x \in slots[s] :
        /\ BusOurs(x.message)
        /\ x.pc = "reply" => x.outcome \in BusErrors \cup {x.message.request.routed}

\* A reply under way is an error, the value of the request its inbox stands for, or
\* does not name the request the caller waits for.
BusReplyInv ==
    \A w \in replies : \A c \in Clients, n \in Nat : w.inbox = <<c, n>> =>
        /\ n <= asked[c]
        /\ call[c].pc = "waiting" /\ n = asked[c] =>
              w.reply.outcome \in BusErrors \cup {BusWanted(c)} \/ ~Bus!Matches(c, w.reply)

BusInv == BusTypeInv /\ BusQueueInv /\ BusSlotInv /\ BusReplyInv /\ Bus!AnswersAreOurs

LEMMA BusInitInv == Bus!Init => BusInv
BY DEF Bus!Init, BusInv, BusTypeInv, BusQueueInv, BusSlotInv, BusReplyInv, Bus!AnswersAreOurs, BusCalls, Bus!Idle

LEMMA BusQueryTypes ==
    ASSUME NEW q \in Queries PROVE q.query \in Bus!Names /\ q.schema \in Bus!Schemas /\ <<q.query, q.schema>> \in Bus!Names \X Bus!Schemas
BY DEF Bus!Names, Bus!Schemas

LEMMA BusAskInv ==
    ASSUME BusInv, NEW c \in Clients, NEW q \in Queries, Bus!Ask(c, q) PROVE BusInv'
<1>0. PICK m : m = [subject |-> q.query, inbox |-> <<c, asked[c] + 1>>, request |-> Bus!Encoded(c, q)]
  OBVIOUS
<1>1. PICK R \in Bus!Receivers(q.query) :
         /\ inbox' = [s \in Servers |-> IF s \in R THEN Append(inbox[s], m) ELSE inbox[s]]
         /\ call' = [call EXCEPT ![c] =
                    IF R = {} THEN [pc |-> "done", asks |-> q, result |-> <<"unavailable">>]
                    ELSE [pc |-> "waiting", asks |-> q]]
  BY <1>0 DEF Bus!Ask, Bus!Enqueue
<1>2. asked' = [asked EXCEPT ![c] = @ + 1] /\ slots' = slots /\ replies' = replies
  BY DEF Bus!Ask
<1>3. m \in BusMessages
  <2>1. <<c, asked[c] + 1>> \in BusInboxes
    BY DEF BusInboxes, BusInv, BusTypeInv
  <2>2. Bus!Encoded(c, q) \in BusRequests
    BY BusQueryTypes DEF Bus!Encoded, BusRequests
  <2> QED BY <1>0, <2>1, <2>2, BusQueryTypes DEF BusMessages
<1>4. BusTypeInv'
  <2>1. inbox' \in [Servers -> Seq(BusMessages)]
    BY <1>1, <1>3 DEF BusInv, BusTypeInv
  <2>2. call'[c] \in BusCalls
    BY <1>1 DEF BusCalls, BusValues, BusErrors, BusInv, BusTypeInv
  <2>3. call' \in [Clients -> BusCalls]
    BY <1>1, <2>2 DEF BusInv, BusTypeInv
  <2>4. asked' \in [Clients -> Nat]
    BY <1>2 DEF BusInv, BusTypeInv
  <2>5. \A d \in Clients : call'[d].pc = "waiting" => asked'[d] # 0
    BY <1>1, <1>2 DEF BusInv, BusTypeInv
  <2> QED BY <1>2, <2>1, <2>3, <2>4, <2>5 DEF BusInv, BusTypeInv
<1>5. \A d \in Clients : d # c => call'[d] = call[d] /\ asked'[d] = asked[d]
  BY <1>1, <1>2 DEF BusInv, BusTypeInv
<1>6. asked'[c] = asked[c] + 1 /\ asked[c] \in Nat
  BY <1>2 DEF BusInv, BusTypeInv
<1>7. ASSUME NEW k \in BusMessages, BusOurs(k) PROVE BusOurs(k)'
  BY <1>5, <1>6, <1>7 DEF BusOurs, BusWanted, BusInv, BusTypeInv
<1>8. BusOurs(m)'
  <2>1. call'[c].pc = "waiting" => call'[c].asks = q
    BY <1>1 DEF BusInv, BusTypeInv
  <2>2. m.inbox = <<c, asked[c] + 1>> /\ m.request.routed = <<q.query, q.schema>>
    BY <1>0 DEF Bus!Encoded
  <2> QED BY <2>1, <2>2, <1>6 DEF BusOurs, BusWanted
<1>9. BusQueueInv'
  <2> SUFFICES ASSUME NEW s \in Servers, NEW i \in 1..Len(inbox'[s]) PROVE BusOurs(inbox[s][i])'
    BY DEF BusQueueInv
  <2>1. inbox[s] \in Seq(BusMessages)
    BY DEF BusInv, BusTypeInv
  <2>2. CASE s \in R
    <3>1. inbox'[s] = Append(inbox[s], m) BY <1>1, <2>2
    <3>2. CASE i = Len(inbox[s]) + 1
      <4>1. inbox'[s][i] = m BY <3>1, <3>2, <2>1, <1>3
      <4> QED BY <4>1, <1>8
    <3>3. CASE i \in 1..Len(inbox[s])
      BY <3>1, <3>3, <2>1, <1>7 DEF BusInv, BusQueueInv
    <3> QED BY <3>1, <3>2, <3>3, <2>1
  <2>3. CASE s \notin R
    <3>1. inbox'[s] = inbox[s] BY <1>1, <2>3
    <3> QED BY <3>1, <2>1, <1>7 DEF BusInv, BusQueueInv
  <2> QED BY <2>2, <2>3
<1>10. BusSlotInv'
  <2> SUFFICES ASSUME NEW s \in Servers, NEW x \in slots[s]
               PROVE BusOurs(x.message)' /\ (x.pc = "reply" => x.outcome \in BusErrors \cup {x.message.request.routed})
    BY <1>2 DEF BusSlotInv
  <2>1. x.message \in BusMessages BY DEF BusInv, BusTypeInv, BusWork
  <2> QED BY <2>1, <1>7 DEF BusInv, BusSlotInv
<1>11. BusReplyInv'
  <2> SUFFICES ASSUME NEW w \in replies, NEW d \in Clients, NEW n \in Nat, w.inbox = <<d, n>>
               PROVE /\ n <= asked'[d]
                     /\ call'[d].pc = "waiting" /\ n = asked'[d] =>
                           w.reply.outcome \in BusErrors \cup {BusWanted(d)'} \/ ~Bus!Matches(d, w.reply)'
    BY <1>2 DEF BusReplyInv
  <2>1. n <= asked[d] /\ asked[d] \in Nat BY DEF BusInv, BusReplyInv, BusTypeInv
  <2>2. CASE d = c BY <2>1, <2>2, <1>6
  <2>3. CASE d # c BY <2>1, <2>3, <1>5 DEF BusInv, BusReplyInv, BusWanted, Bus!Matches
  <2> QED BY <2>2, <2>3
<1>12. Bus!AnswersAreOurs'
  BY <1>1, <1>5 DEF Bus!AnswersAreOurs, BusInv, BusTypeInv
<1> QED BY <1>4, <1>9, <1>10, <1>11, <1>12 DEF BusInv

\* A caller that no longer waits is no longer promised anything.
LEMMA BusReturnInv ==
    ASSUME BusInv, NEW c \in Clients, call[c].pc = "waiting", NEW r \in BusErrors \cup {BusWanted(c)}, Bus!Return(c, r),
           asked' = asked, inbox' = inbox, slots' = slots, replies' \subseteq replies
    PROVE  BusInv'
<1>1. call[c] \in [pc : {"waiting"}, asks : Queries]
  BY DEF BusInv, BusTypeInv, BusCalls, Bus!Idle
<1>2. call' = [call EXCEPT ![c] = [pc |-> "done", asks |-> call[c].asks, result |-> r]]
  BY DEF Bus!Return, BusInv, BusTypeInv
<1>3. r \in BusValues
  BY <1>1, BusQueryTypes DEF BusValues, BusWanted
<1>4. BusTypeInv'
  BY <1>1, <1>2, <1>3 DEF BusInv, BusTypeInv, BusCalls
<1>5. \A d \in Clients : d # c => call'[d] = call[d]
  BY <1>2 DEF BusInv, BusTypeInv
<1>6. call'[c].pc = "done" /\ call'[c].result = r /\ call'[c].asks = call[c].asks
  BY <1>2 DEF BusInv, BusTypeInv
<1>7. ASSUME NEW k, BusOurs(k) PROVE BusOurs(k)'
  BY <1>5, <1>6, <1>7 DEF BusOurs, BusWanted
<1>8. BusQueueInv' /\ BusSlotInv'
  BY <1>7 DEF BusQueueInv, BusSlotInv, BusInv
<1>9. BusReplyInv'
  BY <1>5, <1>6 DEF BusReplyInv, BusWanted, Bus!Matches, BusInv
<1>10. Bus!AnswersAreOurs'
  BY <1>5, <1>6 DEF Bus!AnswersAreOurs, BusErrors, BusWanted, BusInv
<1> QED BY <1>4, <1>8, <1>9, <1>10 DEF BusInv

\* Steps that leave callers alone and bring only what is theirs.
LEMMA BusCallersStay ==
    ASSUME BusInv, call' = call, asked' = asked, inbox' \in [Servers -> Seq(BusMessages)], slots' \in [Servers -> SUBSET BusWork],
           \A s \in Servers : \A i \in 1..Len(inbox'[s]) : BusOurs(inbox'[s][i]),
           \A s \in Servers : \A x \in slots'[s] :
              BusOurs(x.message) /\ (x.pc = "reply" => x.outcome \in BusErrors \cup {x.message.request.routed}),
           \A w \in replies' : \A c \in Clients, n \in Nat : w.inbox = <<c, n>> =>
              /\ n <= asked[c]
              /\ call[c].pc = "waiting" /\ n = asked[c] =>
                    w.reply.outcome \in BusErrors \cup {BusWanted(c)} \/ ~Bus!Matches(c, w.reply)
    PROVE  BusInv'
<1>1. ASSUME NEW k, BusOurs(k) PROVE BusOurs(k)'
  BY <1>1 DEF BusOurs, BusWanted
<1>2. BusQueueInv' /\ BusSlotInv'
  BY <1>1 DEF BusQueueInv, BusSlotInv
<1>3. BusReplyInv' /\ Bus!AnswersAreOurs'
  BY DEF BusReplyInv, Bus!AnswersAreOurs, BusWanted, Bus!Matches, BusInv
<1> QED BY <1>2, <1>3 DEF BusInv, BusTypeInv

LEMMA BusSlotsStay ==
    ASSUME BusInv, call' = call, asked' = asked, slots' = slots,
           inbox' \in [Servers -> Seq(BusMessages)],
           \A s \in Servers : \A i \in 1..Len(inbox'[s]) : BusOurs(inbox'[s][i]),
           replies' \subseteq replies
    PROVE  BusInv'
BY BusCallersStay DEF BusInv, BusTypeInv, BusSlotInv, BusReplyInv

LEMMA BusCallInv ==
    ASSUME BusInv, NEW c \in Clients, Bus!Expire(c) \/ \E w \in replies : Bus!Receive(c, w)
    PROVE  BusInv'
<1>1. CASE Bus!Expire(c)
  <2>1. <<"timeout">> \in BusErrors BY DEF BusErrors
  <2> QED BY <1>1, <2>1, BusReturnInv DEF Bus!Expire
<1>2. CASE \E w \in replies : Bus!Receive(c, w)
  <2>1. PICK w \in replies : Bus!Receive(c, w) BY <1>2
  <2>2. PICK r : /\ r = IF w.reply.size > MaxAnswer THEN <<"too_large">>
                        ELSE IF ~Bus!Matches(c, w.reply) THEN <<"invalid">> ELSE w.reply.outcome
    OBVIOUS
  <2>3. call[c].pc = "waiting" /\ w.inbox = <<c, asked[c]>> /\ asked[c] \in Nat
    BY <2>1 DEF Bus!Receive, Bus!Inbox, BusInv, BusTypeInv
  <2>4. w.reply.outcome \in BusErrors \cup {BusWanted(c)} \/ ~Bus!Matches(c, w.reply)
    BY <2>3 DEF BusInv, BusReplyInv
  <2>5. r \in BusErrors \cup {BusWanted(c)}
    BY <2>2, <2>4 DEF BusErrors
  <2>6. Bus!Return(c, r) /\ asked' = asked /\ inbox' = inbox /\ slots' = slots /\ replies' \subseteq replies
    BY <2>1, <2>2 DEF Bus!Receive
  <2> QED BY <2>3, <2>5, <2>6, BusReturnInv
<1> QED BY <1>1, <1>2

LEMMA BusStrayInv ==
    ASSUME BusInv, NEW c \in Clients, NEW r \in Strays, Bus!Stray(c, r)
    PROVE  BusInv'
<1>1. PICK w : /\ w.inbox = Bus!Inbox(c)
               /\ w.reply = [header |-> r.header, id |-> r.id, schema |-> r.schema, outcome |-> <<"stray">>, size |-> 1]
               /\ replies' = replies \cup {w}
  BY DEF Bus!Stray
<1>2. r # [id |-> c, schema |-> call[c].asks.schema, header |-> c]
  BY DEF Bus!Stray
<1>3. r = [id |-> r.id, schema |-> r.schema, header |-> r.header]
  BY BusAssumption DEF Bus!StraysAssumption
<1>4. ~Bus!Matches(c, w.reply)
  BY <1>1, <1>2, <1>3 DEF Bus!Matches
<1>5. \A d \in Clients, n \in Nat : w.inbox = <<d, n>> => d = c /\ n = asked[c]
  BY <1>1 DEF Bus!Inbox
<1>6. \A d \in Clients, n \in Nat : w.inbox = <<d, n>> =>
          /\ n <= asked[d]
          /\ call[d].pc = "waiting" /\ n = asked[d] =>
                w.reply.outcome \in BusErrors \cup {BusWanted(d)} \/ ~Bus!Matches(d, w.reply)
  BY <1>4, <1>5 DEF BusInv, BusTypeInv
<1>7. call' = call /\ asked' = asked /\ inbox' = inbox /\ slots' = slots
  BY DEF Bus!Stray
<1> QED BY <1>1, <1>6, <1>7, BusCallersStay DEF BusInv, BusTypeInv, BusQueueInv, BusSlotInv, BusReplyInv

\* What is left of a queue was in it.
LEMMA BusTailInv ==
    ASSUME BusInv, NEW t \in Servers, inbox[t] # << >>,
           inbox' = [inbox EXCEPT ![t] = Tail(@)]
    PROVE  /\ inbox' \in [Servers -> Seq(BusMessages)]
           /\ \A s \in Servers : \A i \in 1..Len(inbox'[s]) : BusOurs(inbox'[s][i])
           /\ Head(inbox[t]) \in BusMessages
           /\ BusOurs(Head(inbox[t]))
<1>1. inbox[t] \in Seq(BusMessages) /\ inbox \in [Servers -> Seq(BusMessages)]
  BY DEF BusInv, BusTypeInv
<1>2. \A s \in Servers : \A i \in 1..Len(inbox[s]) : BusOurs(inbox[s][i])
  BY DEF BusInv, BusQueueInv
<1>3. /\ Tail(inbox[t]) \in Seq(BusMessages)
      /\ Len(Tail(inbox[t])) = Len(inbox[t]) - 1
      /\ \A i \in 1..Len(Tail(inbox[t])) : Tail(inbox[t])[i] = inbox[t][i + 1] /\ i + 1 \in 1..Len(inbox[t])
      /\ Head(inbox[t]) = inbox[t][1] /\ 1 \in 1..Len(inbox[t])
  BY <1>1
<1>4. \A i \in 1..Len(Tail(inbox[t])) : BusOurs(Tail(inbox[t])[i])
  BY <1>2, <1>3
<1>5. inbox' \in [Servers -> Seq(BusMessages)]
  BY <1>1, <1>3
<1>6. Head(inbox[t]) \in BusMessages /\ BusOurs(Head(inbox[t]))
  BY <1>1, <1>2, <1>3
<1>7. ASSUME NEW s \in Servers, NEW i \in 1..Len(inbox'[s]) PROVE BusOurs(inbox'[s][i])
  <2>1. CASE s = t
    <3>1. inbox'[s] = Tail(inbox[t]) BY <2>1, <1>1
    <3> QED BY <3>1, <1>4
  <2>2. CASE s # t
    <3>1. inbox'[s] = inbox[s] BY <2>2, <1>1
    <3> QED BY <3>1, <1>2
  <2> QED BY <2>1, <2>2
<1> QED BY <1>5, <1>6, <1>7

\* A server's work changes at one place.
LEMMA BusWorkInv ==
    ASSUME BusInv, call' = call, asked' = asked, NEW t \in Servers,
           inbox' \in [Servers -> Seq(BusMessages)],
           \A s \in Servers : \A i \in 1..Len(inbox'[s]) : BusOurs(inbox'[s][i]),
           NEW S \in SUBSET slots[t], NEW D \in SUBSET BusWork,
           slots' = [slots EXCEPT ![t] = S \cup D],
           \A y \in D : BusOurs(y.message) /\ (y.pc = "reply" => y.outcome \in BusErrors \cup {y.message.request.routed}),
           replies' \subseteq replies
    PROVE  BusInv'
<1>1. slots' \in [Servers -> SUBSET BusWork]
  BY DEF BusInv, BusTypeInv
<1>2. \A s \in Servers : slots'[s] \subseteq slots[s] \cup D
  BY DEF BusInv, BusTypeInv
<1>3. \A s \in Servers : \A x \in slots'[s] :
         BusOurs(x.message) /\ (x.pc = "reply" => x.outcome \in BusErrors \cup {x.message.request.routed})
  BY <1>2 DEF BusInv, BusSlotInv
<1>4. \A w \in replies' : \A c \in Clients, n \in Nat : w.inbox = <<c, n>> =>
              /\ n <= asked[c]
              /\ call[c].pc = "waiting" /\ n = asked[c] =>
                    w.reply.outcome \in BusErrors \cup {BusWanted(c)} \/ ~Bus!Matches(c, w.reply)
  BY DEF BusInv, BusReplyInv
<1> QED BY <1>1, <1>3, <1>4, BusCallersStay

LEMMA BusTakeInv ==
    ASSUME BusInv, NEW s \in Servers, Bus!Take(s)
    PROVE  BusInv'
<1>1. inbox[s] # << >> /\ inbox' = [inbox EXCEPT ![s] = Tail(@)] /\ call' = call /\ asked' = asked /\ replies' = replies
  BY DEF Bus!Take
<1>2. PICK m : m = Head(inbox[s]) OBVIOUS
<1>3. m \in BusMessages /\ BusOurs(m)
  BY <1>1, <1>2, BusTailInv
<1>4. CASE slots' = slots
  BY <1>1, <1>4, BusTailInv, BusSlotsStay
<1>5. CASE slots' # slots
  <2>1. PICK y : /\ y \in {Bus!Slot(m, "handling", << >>, 0), Bus!Slot(m, "reply", <<"invalid_request">>, FallbackSize)}
                 /\ slots' = [slots EXCEPT ![s] = @ \cup {y}]
    BY <1>2, <1>5 DEF Bus!Take
  <2>2. y \in BusWork /\ y.message = m /\ (y.pc = "reply" => y.outcome \in BusErrors)
    BY <1>3, <2>1, BusAssumption DEF Bus!Slot, BusWork, BusValues, BusErrors, Bus!BoundsAssumption
  <2>3. slots' = [slots EXCEPT ![s] = slots[s] \cup {y}]
    BY <2>1 DEF BusInv, BusTypeInv
  <2>4. slots[s] \in SUBSET slots[s] /\ {y} \in SUBSET BusWork
    BY <2>2
  <2>5. /\ inbox' \in [Servers -> Seq(BusMessages)]
        /\ \A t \in Servers : \A i \in 1..Len(inbox'[t]) : BusOurs(inbox'[t][i])
    BY <1>1, BusTailInv
  <2>6. \A z \in {y} : BusOurs(z.message) /\ (z.pc = "reply" => z.outcome \in BusErrors \cup {z.message.request.routed})
    BY <1>3, <2>2
  <2> QED BY <1>1, <2>3, <2>4, <2>5, <2>6, BusWorkInv
<1> QED BY <1>4, <1>5

LEMMA BusServeInv ==
    ASSUME BusInv, NEW s \in Servers, NEW x \in slots[s], Bus!Serve(s, x)
    PROVE  BusInv'
<1>1. x \in BusWork /\ x.message \in BusMessages /\ BusOurs(x.message)
  BY DEF BusInv, BusTypeInv, BusSlotInv, BusWork
<1>2. call' = call /\ asked' = asked /\ inbox' = inbox
  BY DEF Bus!Serve, Bus!Returns, Bus!HandlerTimeout, Bus!Reply, Bus!ReplyFails
<1>3. /\ inbox' \in [Servers -> Seq(BusMessages)]
      /\ \A t \in Servers : \A i \in 1..Len(inbox'[t]) : BusOurs(inbox'[t][i])
  BY <1>2 DEF BusInv, BusTypeInv, BusQueueInv
<1>4. CASE Bus!Returns(s, x) \/ Bus!HandlerTimeout(s, x)
  <2>1. PICK y : /\ y \in {Bus!Slot(x.message, "reply", Bus!Value(x.message), 1), Bus!Slot(x.message, "reply", Bus!Value(x.message), BigSize),
                           Bus!Slot(x.message, "reply", <<"failed">>, FallbackSize),
                           Bus!Slot(x.message, "reply", <<"handler_timeout">>, FallbackSize)}
                 /\ slots' = [slots EXCEPT ![s] = (@ \ {x}) \cup {y}]
    BY <1>4 DEF Bus!Returns, Bus!HandlerTimeout, Bus!Replace
  <2>2. Bus!Value(x.message) \in BusValues /\ Bus!Value(x.message) = x.message.request.routed
    BY <1>1 DEF Bus!Value, BusValues, BusMessages, BusRequests
  <2>3. y \in BusWork /\ y.message = x.message /\ y.outcome \in BusErrors \cup {x.message.request.routed}
    BY <1>1, <2>1, <2>2, BusAssumption DEF Bus!Slot, BusWork, BusValues, BusErrors, Bus!BoundsAssumption
  <2>4. slots' = [slots EXCEPT ![s] = (slots[s] \ {x}) \cup {y}]
    BY <2>1 DEF BusInv, BusTypeInv
  <2>5. replies' = replies
    BY <1>4 DEF Bus!Returns, Bus!HandlerTimeout
  <2>6. slots[s] \ {x} \in SUBSET slots[s] /\ {y} \in SUBSET BusWork
    BY <2>3
  <2> QED BY <1>1, <1>2, <1>3, <2>3, <2>4, <2>5, <2>6, BusWorkInv
<1>5. CASE Bus!Reply(s, x)
  <2>1. PICK w : /\ w = [inbox |-> x.message.inbox, reply |-> Bus!ReplyOf(x)]
                 /\ replies' \subseteq replies \cup {w}
    BY <1>5 DEF Bus!Reply
  <2>2. x.outcome \in BusErrors \cup {x.message.request.routed}
    BY <1>5 DEF Bus!Reply, BusInv, BusSlotInv
  <2>3. Bus!Fitted(x).outcome \in {x.outcome, <<"internal">>}
    BY <1>1 DEF Bus!Fitted, BusWork
  <2>4. w.reply.outcome \in BusErrors \cup {x.message.request.routed} /\ w.inbox = x.message.inbox
    BY <2>1, <2>2, <2>3 DEF Bus!ReplyOf, BusErrors
  <2>5. \A c \in Clients, n \in Nat : w.inbox = <<c, n>> =>
          /\ n <= asked[c]
          /\ call[c].pc = "waiting" /\ n = asked[c] =>
                w.reply.outcome \in BusErrors \cup {BusWanted(c)} \/ ~Bus!Matches(c, w.reply)
    BY <1>1, <2>4 DEF BusOurs
  <2>6. \A v \in replies' : \A c \in Clients, n \in Nat : v.inbox = <<c, n>> =>
          /\ n <= asked[c]
          /\ call[c].pc = "waiting" /\ n = asked[c] =>
                v.reply.outcome \in BusErrors \cup {BusWanted(c)} \/ ~Bus!Matches(c, v.reply)
    BY <2>1, <2>5 DEF BusInv, BusReplyInv
  <2>7. slots' = [slots EXCEPT ![s] = @ \ {x}]
    BY <1>5 DEF Bus!Reply, Bus!Free
  <2>8. slots' \in [Servers -> SUBSET BusWork] /\ \A t \in Servers : slots'[t] \subseteq slots[t]
    BY <2>7 DEF BusInv, BusTypeInv
  <2>9. \A t \in Servers : \A y \in slots'[t] :
           BusOurs(y.message) /\ (y.pc = "reply" => y.outcome \in BusErrors \cup {y.message.request.routed})
    BY <2>8 DEF BusInv, BusSlotInv
  <2> QED BY <1>2, <1>3, <2>6, <2>8, <2>9, BusCallersStay
<1>6. CASE Bus!ReplyFails(s, x)
  <2>1. slots' = [slots EXCEPT ![s] = (slots[s] \ {x}) \cup {}] /\ replies' = replies
    BY <1>6 DEF Bus!ReplyFails, Bus!Free, BusInv, BusTypeInv
  <2>2. slots[s] \ {x} \in SUBSET slots[s] /\ {} \in SUBSET BusWork
    OBVIOUS
  <2> QED BY <1>2, <1>3, <2>1, <2>2, BusWorkInv
<1> QED BY <1>4, <1>5, <1>6 DEF Bus!Serve

LEMMA BusServerInv ==
    ASSUME BusInv, NEW s \in Servers, Bus!Ended(s) \/ Bus!Crash(s) \/ Bus!Restart(s) \/ Bus!LoseRequest(s)
    PROVE  BusInv'
<1>1. call' = call /\ asked' = asked /\ replies' = replies
  BY DEF Bus!Ended, Bus!Crash, Bus!Restart, Bus!LoseRequest
<1>2. ASSUME inbox' = [inbox EXCEPT ![s] = << >>]
      PROVE  /\ inbox' \in [Servers -> Seq(BusMessages)]
             /\ \A t \in Servers : \A i \in 1..Len(inbox'[t]) : BusOurs(inbox'[t][i])
  <2>1. \A t \in Servers : inbox'[t] = inbox[t] \/ inbox'[t] = << >>
    BY <1>2 DEF BusInv, BusTypeInv
  <2>2. inbox' \in [Servers -> Seq(BusMessages)]
    BY <1>2 DEF BusInv, BusTypeInv
  <2> QED BY <2>1, <2>2 DEF BusInv, BusQueueInv
<1>3. CASE Bus!Ended(s)
  BY <1>1, <1>2, <1>3, BusSlotsStay DEF Bus!Ended
<1>4. CASE Bus!Crash(s)
  <2>1. slots' = [slots EXCEPT ![s] = {} \cup {}] BY <1>4 DEF Bus!Crash
  <2>2. {} \in SUBSET slots[s] /\ {} \in SUBSET BusWork OBVIOUS
  <2>3. inbox' = [inbox EXCEPT ![s] = << >>] BY <1>4 DEF Bus!Crash
  <2> QED BY <1>1, <1>2, <2>1, <2>2, <2>3, BusWorkInv
<1>5. CASE Bus!Restart(s)
  BY <1>1, <1>5, BusSlotsStay DEF Bus!Restart, BusInv, BusTypeInv, BusQueueInv
<1>6. CASE Bus!LoseRequest(s)
  BY <1>1, <1>6, BusTailInv, BusSlotsStay DEF Bus!LoseRequest
<1> QED BY <1>3, <1>4, <1>5, <1>6

LEMMA BusForeignInv ==
    ASSUME BusInv, NEW n \in Bus!Names, NEW k \in Bus!Names, NEW v \in Bus!Schemas, NEW w \in Bus!Schemas,
           NEW i \in {"none", "other"}, Bus!Foreign(n, <<k, v>>, w, i)
    PROVE  BusInv'
<1>1. PICK m : m = [subject |-> n, inbox |-> Bus!Nowhere, request |-> [id |-> i, schema |-> w, routed |-> <<k, v>>, fits |-> TRUE]]
  OBVIOUS
<1>2. PICK R \in Bus!Receivers(n) : inbox' = [s \in Servers |-> IF s \in R THEN Append(inbox[s], m) ELSE inbox[s]]
  BY <1>1 DEF Bus!Foreign, Bus!Enqueue
<1>3. m \in BusMessages
  BY <1>1 DEF BusMessages, BusInboxes, BusRequests
<1>4. BusOurs(m)
  BY <1>1 DEF BusOurs, Bus!Nowhere, BusInv, BusTypeInv
<1>5. inbox' \in [Servers -> Seq(BusMessages)]
  BY <1>2, <1>3 DEF BusInv, BusTypeInv
<1>6. ASSUME NEW s \in Servers, NEW j \in 1..Len(inbox'[s]) PROVE BusOurs(inbox'[s][j])
  <2>1. inbox[s] \in Seq(BusMessages) /\ \A l \in 1..Len(inbox[s]) : BusOurs(inbox[s][l])
    BY DEF BusInv, BusTypeInv, BusQueueInv
  <2>2. CASE s \in R
    <3>1. inbox'[s] = Append(inbox[s], m) BY <1>2, <2>2
    <3>2. inbox'[s][j] = m \/ (j \in 1..Len(inbox[s]) /\ inbox'[s][j] = inbox[s][j])
      BY <3>1, <2>1, <1>3
    <3> QED BY <3>2, <2>1, <1>4
  <2>3. CASE s \notin R
    BY <1>2, <2>1, <2>3
  <2> QED BY <2>2, <2>3
<1> QED BY <1>5, <1>6, BusSlotsStay DEF Bus!Foreign

\* Whatever is lost, late, repeated or answered by something else, a caller of the
\* query bus gets an error or the value of the query and schema it asked for, for any
\* callers, servers, addresses, groups, bindings and limits.
THEOREM AnswersAreTheirs == Bus!Spec => []AnswersAreOurs
<1>1. BusInv /\ [Bus!Next]_(Bus!vars) => BusInv'
  <2> SUFFICES ASSUME BusInv, [Bus!Next]_(Bus!vars) PROVE BusInv'
    OBVIOUS
  <2>1. CASE UNCHANGED Bus!vars
    BY <2>1, BusCallersStay DEF Bus!vars, BusInv, BusTypeInv, BusQueueInv, BusSlotInv, BusReplyInv
  <2>2. ASSUME NEW c \in Clients, NEW q \in Queries, Bus!Ask(c, q) PROVE BusInv'
    BY <2>2, BusAskInv
  <2>3. ASSUME NEW c \in Clients, Bus!Expire(c) \/ \E w \in replies : Bus!Receive(c, w) PROVE BusInv'
    BY <2>3, BusCallInv
  <2>4. ASSUME NEW c \in Clients, NEW r \in Strays, Bus!Stray(c, r) PROVE BusInv'
    BY <2>4, BusStrayInv
  <2>5. ASSUME NEW w \in replies, Bus!Discard(w) \/ Bus!LoseReply(w) PROVE BusInv'
    BY <2>5, BusSlotsStay DEF Bus!Discard, Bus!LoseReply, BusInv, BusTypeInv, BusQueueInv
  <2>6. ASSUME NEW s \in Servers, Bus!Take(s) PROVE BusInv'
    BY <2>6, BusTakeInv
  <2>7. ASSUME NEW s \in Servers, Bus!Ended(s) \/ Bus!Crash(s) \/ Bus!Restart(s) \/ Bus!LoseRequest(s) PROVE BusInv'
    BY <2>7, BusServerInv
  <2>8. ASSUME NEW s \in Servers, NEW x \in slots[s], Bus!Serve(s, x) PROVE BusInv'
    BY <2>8, BusServeInv
  <2>9. ASSUME NEW n \in Bus!Names, NEW k \in Bus!Names, NEW v \in Bus!Schemas, NEW w \in Bus!Schemas,
               NEW i \in {"none", "other"}, Bus!Foreign(n, <<k, v>>, w, i)
        PROVE BusInv'
    BY <2>9, BusForeignInv
  <2> QED BY <2>1, <2>2, <2>3, <2>4, <2>5, <2>6, <2>7, <2>8, <2>9 DEF Bus!Next
<1>2. BusInv => AnswersAreOurs BY DEF BusInv, AnswersAreOurs
<1> QED BY BusInitInv, <1>1, <1>2, PTL DEF Bus!Spec

-----------------------------------------------------------------------------
(* Fixtures: their plans. *)

\* The instance counts as the theorems on finite sets do.
LEMMA FixtureSameCardinality == \A S : Fixture!Cardinality(S) = Cardinality(S)
BY DEF Fixture!Cardinality, Cardinality

FixtureBefore(plan, i) == {k \in 1..(i - 1) : plan[k].stream = plan[i].stream}

\* Every event has the version after those before it in its stream.
FixtureIsPlan(plan) ==
    /\ Len(plan) \in Nat
    /\ \A i \in 1..Len(plan) :
          /\ plan[i].stream \in Streams
          /\ plan[i].ordinal = Cardinality(FixtureBefore(plan, i))
          /\ plan[i].event.version = plan[i].ordinal + 1

LEMMA FixturePlansArePlans ==
    ASSUME NEW f \in Documents, Fixture!Valid(f)
    PROVE  FixtureIsPlan(Fixture!Plan(f)) /\ Len(Fixture!Plan(f)) = Len(f.messages)
<1>1. PICK n \in Nat : n = Len(f.messages) BY FixtureAssumption DEF Fixture!FixturesAssumption
<1>2. PICK plan : plan = Fixture!Plan(f) OBVIOUS
<1>3. plan = [i \in 1..n |-> Fixture!PlannedEvent(f, i)] BY <1>1, <1>2 DEF Fixture!Plan
<1>4. Len(plan) = n BY <1>1, <1>3
<1>5. \A i \in 1..n : plan[i].stream = f.messages[i].stream /\ plan[i].event.version = f.messages[i].version
  BY <1>3 DEF Fixture!PlannedEvent, Fixture!Recorded
<1>6. ASSUME NEW i \in 1..n PROVE FixtureBefore(plan, i) = {k \in 1..(i - 1) : f.messages[k].stream = f.messages[i].stream}
  <2>1. \A k \in 1..(i - 1) : k \in 1..n BY <1>1
  <2> QED BY <1>5, <2>1 DEF FixtureBefore
<1>7. ASSUME NEW i \in 1..n
      PROVE  /\ plan[i].ordinal = Cardinality(FixtureBefore(plan, i))
             /\ plan[i].event.version = 1 + Cardinality(FixtureBefore(plan, i))
  <2>1. PICK B : B = {k \in 1..(i - 1) : f.messages[k].stream = f.messages[i].stream} OBVIOUS
  <2>2. plan[i].ordinal = Cardinality(B) BY <1>3, <2>1, FixtureSameCardinality DEF Fixture!PlannedEvent
  <2>3. f.messages[i].version = 1 + Cardinality(B) BY <1>1, <2>1, FixtureSameCardinality DEF Fixture!Valid, Fixture!ValidVersions
  <2> QED BY <1>5, <1>6, <2>1, <2>2, <2>3
<1>8. ASSUME NEW i \in 1..n PROVE Cardinality(FixtureBefore(plan, i)) \in Nat
  <2>1. FixtureBefore(plan, i) \subseteq 1..(i - 1) BY DEF FixtureBefore
  <2>2. IsFiniteSet(1..(i - 1)) BY FS_Interval
  <2> QED BY <2>1, <2>2, FS_Subset, FS_CardinalityType
<1>9. \A i \in 1..n : plan[i].stream \in Streams BY <1>1, <1>5, FixtureAssumption DEF Fixture!FixturesAssumption
<1> QED BY <1>1, <1>2, <1>4, <1>7, <1>8, <1>9 DEF FixtureIsPlan

\* The first n events of a stream are n events.
LEMMA FixturePrefixCounts ==
    ASSUME NEW plan, FixtureIsPlan(plan), NEW s
    PROVE  /\ IsFiniteSet(Fixture!Planned(plan, s)) /\ Cardinality(Fixture!Planned(plan, s)) \in Nat
           /\ \A i \in Fixture!Planned(plan, s) : plan[i].ordinal \in 0..(Cardinality(Fixture!Planned(plan, s)) - 1)
           /\ \A n \in 0..Cardinality(Fixture!Planned(plan, s)) :
                 LET P == {i \in Fixture!Planned(plan, s) : plan[i].ordinal < n}
                 IN  IsFiniteSet(P) /\ Cardinality(P) = n
<1>1. PICK S : S = Fixture!Planned(plan, s) OBVIOUS
<1>2. S \subseteq 1..Len(plan) /\ S \subseteq Nat BY <1>1 DEF Fixture!Planned, FixtureIsPlan
<1>3. IsFiniteSet(S)
  <2>1. 1 \in Int /\ Len(plan) \in Int BY DEF FixtureIsPlan
  <2> QED BY <1>2, <2>1, FS_Interval, FS_Subset
<1>4. PICK c \in Nat : c = Cardinality(S) BY <1>3, FS_CardinalityType
<1> DEFINE B(i) == {k \in S : k < i}
<1>5. ASSUME NEW i \in S PROVE plan[i].ordinal = Cardinality(B(i))
  <2>1. FixtureBefore(plan, i) = B(i) BY <1>1, <1>2, <1>5 DEF FixtureBefore, Fixture!Planned, FixtureIsPlan
  <2> QED BY <1>2, <1>5, <2>1 DEF FixtureIsPlan
<1>6. ASSUME NEW i \in S PROVE IsFiniteSet(B(i)) /\ plan[i].ordinal \in 0..(c - 1)
  <2>1. B(i) \subseteq S /\ B(i) # S BY <1>2, <1>6
  <2>2. IsFiniteSet(B(i)) /\ Cardinality(B(i)) <= c /\ Cardinality(B(i)) # c BY <1>3, <1>4, <2>1, FS_Subset
  <2>3. Cardinality(B(i)) \in Nat BY <2>2, FS_CardinalityType
  <2>4. plan[i].ordinal = Cardinality(B(i)) BY <1>5
  <2> HIDE DEF B
  <2> QED BY <1>4, <2>2, <2>3, <2>4
<1>7. ASSUME NEW i \in S, NEW j \in S, i < j PROVE plan[i].ordinal < plan[j].ordinal
  <2>1. B(i) \subseteq B(j) /\ B(i) # B(j)
    <3>1. i \in B(j) /\ i \notin B(i) BY <1>2, <1>7
    <3>2. \A k \in S : k < i => k < j BY <1>2, <1>7
    <3> QED BY <3>1, <3>2
  <2>2. Cardinality(B(i)) <= Cardinality(B(j)) /\ Cardinality(B(i)) # Cardinality(B(j)) BY <1>6, <2>1, FS_Subset
  <2>3. Cardinality(B(i)) \in Nat /\ Cardinality(B(j)) \in Nat BY <1>6, FS_CardinalityType
  <2>4. plan[i].ordinal = Cardinality(B(i)) /\ plan[j].ordinal = Cardinality(B(j)) BY <1>5
  <2> HIDE DEF B
  <2> QED BY <2>2, <2>3, <2>4
<1>8. PICK rank \in [S -> 0..(c - 1)] : \A i \in S : rank[i] = plan[i].ordinal
  <2>1. [i \in S |-> plan[i].ordinal] \in [S -> 0..(c - 1)] BY <1>6
  <2> QED BY <2>1
<1>9. \A i, j \in S : rank[i] = rank[j] => i = j
  <2> SUFFICES ASSUME NEW i \in S, NEW j \in S, i # j PROVE rank[i] # rank[j]
    OBVIOUS
  <2>1. i < j \/ j < i BY <1>2
  <2>2. rank[i] \in Nat /\ rank[j] \in Nat BY <1>6, <1>8
  <2> QED BY <1>7, <1>8, <2>1, <2>2
<1> HIDE DEF B
<1>10. \A n \in 0..c : IsFiniteSet(0..(n - 1)) /\ Cardinality(0..(n - 1)) = n
  <2> SUFFICES ASSUME NEW n \in 0..c PROVE IsFiniteSet(0..(n - 1)) /\ Cardinality(0..(n - 1)) = n
    OBVIOUS
  <2>1. 0 \in Int /\ n - 1 \in Int /\ (IF 0 > n - 1 THEN 0 ELSE n - 1 - 0 + 1) = n BY <1>4
  <2> QED BY <2>1, FS_Interval
<1>11. {rank[i] : i \in S} = 0..(c - 1)
  <2>1. PICK R : R = {rank[i] : i \in S} OBVIOUS
  <2>2. R \subseteq 0..(c - 1) BY <1>8, <2>1
  <2>3. Cardinality(R) = c
    <3>1. rank \in Surjection(S, R) BY <1>8, <2>1 DEF Surjection
    <3>2. rank \in Injection(S, R) BY <1>8, <1>9, <2>1 DEF Injection, IsInjective
    <3>3. ExistsBijection(S, R) BY <3>1, <3>2 DEF Bijection, ExistsBijection
    <3> QED BY <1>3, <1>4, <3>3, FS_Bijection
  <2>4. c \in 0..c BY <1>4
  <2>5. IsFiniteSet(0..(c - 1)) /\ Cardinality(0..(c - 1)) = c BY <1>10, <2>4
  <2>6. R = 0..(c - 1) BY <2>2, <2>3, <2>5, FS_Subset
  <2> QED BY <2>1, <2>6
<1>12. ASSUME NEW n \in 0..c, NEW P, P = {i \in S : plan[i].ordinal < n}
       PROVE  IsFiniteSet(P) /\ Cardinality(P) = n
  <2>1. P \subseteq S /\ IsFiniteSet(P) BY <1>3, <1>12, FS_Subset
  <2>2. PICK r \in [P -> 0..(n - 1)] : \A i \in P : r[i] = rank[i]
    <3>1. \A i \in P : rank[i] \in 0..(n - 1) BY <1>4, <1>8, <1>12
    <3>2. [i \in P |-> rank[i]] \in [P -> 0..(n - 1)] BY <3>1
    <3> QED BY <3>2
  <2>3. r \in Injection(P, 0..(n - 1)) BY <1>9, <2>1, <2>2 DEF Injection, IsInjective
  <2>4. r \in Surjection(P, 0..(n - 1))
    <3> SUFFICES ASSUME NEW k \in 0..(n - 1) PROVE \E i \in P : r[i] = k
      BY <2>2 DEF Surjection
    <3>1. k \in 0..(c - 1) /\ k < n BY <1>4
    <3>2. PICK i \in S : rank[i] = k BY <1>11, <3>1
    <3>3. i \in P BY <1>8, <1>12, <3>1, <3>2
    <3> QED BY <2>2, <3>2, <3>3
  <2>5. ExistsBijection(P, 0..(n - 1)) BY <2>3, <2>4 DEF Bijection, ExistsBijection
  <2> QED BY <1>10, <2>1, <2>5, FS_Bijection
<1> QED BY <1>1, <1>3, <1>4, <1>6, <1>12

-----------------------------------------------------------------------------
(* Fixtures: the inductive invariant. *)

FixtureRecord(pc, f, plan, result, todo, prefix, next, applied, reused) ==
    [pc |-> pc, fixture |-> f, plan |-> plan, result |-> result, todo |-> todo, prefix |-> prefix,
     next |-> next, applied |-> applied, reused |-> reused]

FixtureIsRecord(r) ==
    r = FixtureRecord(r.pc, r.fixture, r.plan, r.result, r.todo, r.prefix, r.next, r.applied, r.reused)

\* Event i of the plan is at its place.
FixtureStored(plan, i) ==
    /\ plan[i].ordinal < Len(stored[plan[i].stream])
    /\ stored[plan[i].stream][plan[i].ordinal + 1] = plan[i].event

\* The events an application has dealt with or found.
FixtureCounted(plan, next, prefix) ==
    {i \in 1..Len(plan) : i < next \/ plan[i].ordinal < prefix[plan[i].stream]}

\* What an application has counted is stored, and it counted each event once.
FixtureHolds(pc, plan, result, todo, prefix, next, applied, reused) ==
    /\ FixtureIsPlan(plan)
    /\ prefix \in [Streams -> Nat] /\ next \in 1..(Len(plan) + 1)
    /\ applied \in Nat /\ reused \in Nat
    /\ \A s \in Streams : s \in todo => prefix[s] = 0
    /\ pc = "load" => next = 1
    /\ result = "report" => next = Len(plan) + 1
    /\ \A i \in FixtureCounted(plan, next, prefix) : FixtureStored(plan, i)
    /\ applied + reused = Cardinality(FixtureCounted(plan, next, prefix))

FixtureSound(r) ==
    FixtureIsRecord(r) /\ FixtureHolds(r.pc, r.plan, r.result, r.todo, r.prefix, r.next, r.applied, r.reused)

FixtureLive(r) == r.pc # "idle" \/ r.result = "report"

\* Every event carries its version.
FixtureStoreInv ==
    /\ stored = [s \in Streams |-> stored[s]]
    /\ \A s \in Streams :
          /\ \E S : stored[s] \in Seq(S)
          /\ \A i \in 1..Len(stored[s]) : stored[s][i].version = i

FixtureRunInv ==
    /\ run = [p \in Appliers |-> run[p]]
    /\ \A p \in Appliers : FixtureLive(run[p]) => FixtureSound(run[p])

FixtureInv == FixtureStoreInv /\ FixtureRunInv

\* A stream only grows.
FixtureStoreGrows ==
    \A s \in Streams :
        /\ Len(stored'[s]) \in Nat /\ Len(stored[s]) <= Len(stored'[s])
        /\ \A i \in 1..Len(stored[s]) : stored'[s][i] = stored[s][i]

LEMMA FixtureLengths ==
    ASSUME FixtureStoreInv
    PROVE  \A s \in Streams : Len(stored[s]) \in Nat
<1> SUFFICES ASSUME NEW s \in Streams PROVE Len(stored[s]) \in Nat
  OBVIOUS
<1>1. PICK S : stored[s] \in Seq(S) BY DEF FixtureStoreInv
<1> QED BY <1>1

LEMMA FixtureOrdinals ==
    ASSUME NEW plan, FixtureIsPlan(plan), NEW i \in 1..Len(plan)
    PROVE  plan[i].ordinal \in Nat /\ plan[i].stream \in Streams /\ plan[i].event.version = plan[i].ordinal + 1
<1>1. i \in Fixture!Planned(plan, plan[i].stream) BY DEF Fixture!Planned
<1>2. PICK c \in Nat : c = Cardinality(Fixture!Planned(plan, plan[i].stream)) BY FixturePrefixCounts
<1>3. plan[i].ordinal \in 0..(c - 1) BY <1>1, <1>2, FixturePrefixCounts
<1> QED BY <1>2, <1>3 DEF FixtureIsPlan

LEMMA FixtureCountedFinite ==
    ASSUME NEW plan, FixtureIsPlan(plan), NEW next, NEW prefix
    PROVE  IsFiniteSet(FixtureCounted(plan, next, prefix)) /\ Cardinality(FixtureCounted(plan, next, prefix)) \in Nat
<1>1. FixtureCounted(plan, next, prefix) \subseteq 1..Len(plan) BY DEF FixtureCounted
<1>2. 1 \in Int /\ Len(plan) \in Int BY DEF FixtureIsPlan
<1> QED BY <1>1, <1>2, FS_Interval, FS_Subset, FS_CardinalityType

LEMMA FixtureHoldsKept ==
    ASSUME FixtureStoreInv, FixtureStoreGrows, NEW pc, NEW plan, NEW result, NEW todo, NEW prefix, NEW next, NEW applied, NEW reused,
           FixtureHolds(pc, plan, result, todo, prefix, next, applied, reused)
    PROVE  FixtureHolds(pc, plan, result, todo, prefix, next, applied, reused)'
<1>1. ASSUME NEW i \in FixtureCounted(plan, next, prefix) PROVE FixtureStored(plan, i)'
  <2>1. PICK s, n : s = plan[i].stream /\ n = plan[i].ordinal OBVIOUS
  <2>2. s \in Streams /\ n \in Nat BY <1>1, <2>1, FixtureOrdinals DEF FixtureCounted, FixtureHolds
  <2>3. n < Len(stored[s]) /\ stored[s][n + 1] = plan[i].event BY <1>1, <2>1 DEF FixtureHolds, FixtureStored
  <2>4. Len(stored[s]) \in Nat BY <2>2, FixtureLengths
  <2>5. n + 1 \in 1..Len(stored[s]) BY <2>2, <2>3, <2>4
  <2>6. stored'[s][n + 1] = stored[s][n + 1] /\ Len(stored[s]) <= Len(stored'[s]) /\ Len(stored'[s]) \in Nat
    BY <2>2, <2>5 DEF FixtureStoreGrows
  <2>7. n < Len(stored'[s]) BY <2>2, <2>3, <2>4, <2>6
  <2> QED BY <2>1, <2>3, <2>6, <2>7 DEF FixtureStored
<1> QED BY <1>1 DEF FixtureHolds

LEMMA FixtureStoreAppends ==
    ASSUME FixtureStoreInv, NEW s \in Streams, NEW e, e.version = Len(stored[s]) + 1,
           stored' = [stored EXCEPT ![s] = Append(stored[s], e)]
    PROVE  /\ FixtureStoreInv' /\ FixtureStoreGrows
           /\ Len(stored'[s]) = Len(stored[s]) + 1 /\ stored'[s][Len(stored[s]) + 1] = e
<1>1. PICK h : h = stored[s] OBVIOUS
<1>2. PICK n \in Nat : n = Len(h) BY <1>1, FixtureLengths
<1>3. PICK S : h \in Seq(S) BY <1>1 DEF FixtureStoreInv
<1>4. PICK T : T = S \cup {e} OBVIOUS
<1>5. h \in Seq(T) BY <1>3, <1>4
<1>6. PICK g : g = Append(h, e) OBVIOUS
<1>7. g \in Seq(T) /\ Len(g) = n + 1 /\ g[n + 1] = e /\ \A i \in 1..n : g[i] = h[i]
  BY <1>2, <1>4, <1>5, <1>6, AppendProperties
<1>8. stored' = [t \in Streams |-> IF t = s THEN g ELSE stored[t]] BY <1>1, <1>6 DEF FixtureStoreInv
<1>9. \A i \in 1..(n + 1) : g[i].version = i
  <2>1. \A i \in 1..n : h[i].version = i BY <1>1, <1>2 DEF FixtureStoreInv
  <2>2. e.version = n + 1 BY <1>1, <1>2
  <2>3. \A i \in 1..(n + 1) : i \in 1..n \/ i = n + 1 BY <1>2
  <2> QED BY <1>7, <2>1, <2>2, <2>3
<1>10. FixtureStoreInv'
  <2>1. stored' = [t \in Streams |-> stored'[t]] BY <1>8
  <2>2. ASSUME NEW t \in Streams
        PROVE  (\E U : stored'[t] \in Seq(U)) /\ \A i \in 1..Len(stored'[t]) : stored'[t][i].version = i
    <3>1. CASE t = s
      <4>1. stored'[t] = g BY <1>8, <3>1
      <4> QED BY <1>7, <1>9, <4>1
    <3>2. CASE t # s
      <4>1. stored'[t] = stored[t] BY <1>8, <3>2
      <4> QED BY <4>1 DEF FixtureStoreInv
    <3> QED BY <3>1, <3>2
  <2> QED BY <2>1, <2>2 DEF FixtureStoreInv
<1>11. FixtureStoreGrows
  <2> SUFFICES ASSUME NEW t \in Streams
               PROVE  /\ Len(stored'[t]) \in Nat /\ Len(stored[t]) <= Len(stored'[t])
                      /\ \A i \in 1..Len(stored[t]) : stored'[t][i] = stored[t][i]
    BY DEF FixtureStoreGrows
  <2>1. CASE t = s
    <3>1. stored'[t] = g /\ stored[t] = h BY <1>1, <1>8, <2>1
    <3> QED BY <1>2, <1>7, <3>1
  <2>2. CASE t # s
    <3>1. stored'[t] = stored[t] BY <1>8, <2>2
    <3>2. Len(stored[t]) \in Nat BY FixtureLengths
    <3> QED BY <3>1, <3>2
  <2> QED BY <2>1, <2>2
<1> QED BY <1>1, <1>2, <1>7, <1>8, <1>10, <1>11

\* A store that is left alone.
LEMMA FixtureStoreRests ==
    ASSUME FixtureStoreInv, stored' = stored
    PROVE  FixtureStoreInv' /\ FixtureStoreGrows
<1>1. FixtureStoreInv' BY DEF FixtureStoreInv
<1>2. \A s \in Streams : Len(stored[s]) \in Nat BY FixtureLengths
<1> QED BY <1>1, <1>2 DEF FixtureStoreGrows

\* The application of p becomes r.
LEMMA FixtureBecomes ==
    ASSUME FixtureInv, FixtureStoreInv', FixtureStoreGrows, NEW p \in Appliers, NEW r, run' = [run EXCEPT ![p] = r],
           FixtureLive(r) => FixtureSound(r)'
    PROVE  FixtureInv'
<1>1. run' = [q \in Appliers |-> IF q = p THEN r ELSE run[q]] BY DEF FixtureInv, FixtureRunInv
<1>2. ASSUME NEW q \in Appliers, FixtureLive(run'[q]) PROVE FixtureSound(run[q])'
  <2>1. CASE q = p
    <3>1. run'[q] = r BY <1>1, <2>1
    <3> QED BY <1>2, <3>1 DEF FixtureSound, FixtureIsRecord, FixtureHolds, FixtureStored
  <2>2. CASE q # p
    <3>1. PICK x : x = run[q] OBVIOUS
    <3>2. run'[q] = x BY <1>1, <2>2, <3>1
    <3>3. FixtureSound(x) BY <1>2, <3>1, <3>2 DEF FixtureInv, FixtureRunInv
    <3>4. FixtureHolds(x.pc, x.plan, x.result, x.todo, x.prefix, x.next, x.applied, x.reused)'
      BY <3>3, FixtureHoldsKept DEF FixtureInv, FixtureSound
    <3>5. FixtureSound(x)' BY <3>3, <3>4 DEF FixtureSound
    <3> QED BY <3>2, <3>5, ZenonT(30) DEF FixtureSound, FixtureIsRecord, FixtureHolds, FixtureStored
  <2> QED BY <2>1, <2>2
<1>3. run' = [q \in Appliers |-> run'[q]] BY <1>1
<1> QED BY <1>2, <1>3 DEF FixtureInv, FixtureRunInv, FixtureLive

\* An application under way, by its parts.
LEMMA FixtureParts ==
    ASSUME FixtureInv, NEW p \in Appliers, run[p].pc # "idle"
    PROVE  \E pc, f, plan, result, todo, prefix, next, applied, reused :
              /\ run[p] = FixtureRecord(pc, f, plan, result, todo, prefix, next, applied, reused)
              /\ FixtureHolds(pc, plan, result, todo, prefix, next, applied, reused)
<1>1. FixtureSound(run[p]) BY DEF FixtureInv, FixtureRunInv, FixtureLive
<1> QED BY <1>1 DEF FixtureSound, FixtureIsRecord

\* The parts of an application make it.
LEMMA FixtureMade ==
    ASSUME NEW pc, NEW f, NEW plan, NEW result, NEW todo, NEW prefix, NEW next, NEW applied, NEW reused,
           FixtureHolds(pc, plan, result, todo, prefix, next, applied, reused)'
    PROVE  FixtureSound(FixtureRecord(pc, f, plan, result, todo, prefix, next, applied, reused))'
<1>1. PICK r : r = FixtureRecord(pc, f, plan, result, todo, prefix, next, applied, reused) OBVIOUS
<1>2. /\ r.pc = pc /\ r.fixture = f /\ r.plan = plan /\ r.result = result /\ r.todo = todo
      /\ r.prefix = prefix /\ r.next = next /\ r.applied = applied /\ r.reused = reused
  BY <1>1 DEF FixtureRecord
<1>3. FixtureIsRecord(r) BY <1>1, <1>2 DEF FixtureIsRecord
<1>4. FixtureSound(r)' BY <1>2, <1>3 DEF FixtureSound
<1> QED BY <1>1, <1>4

\* What an ended application that gave no report holds does not matter.
LEMMA FixtureEnding ==
    ASSUME FixtureInv, FixtureStoreInv', FixtureStoreGrows, NEW p \in Appliers, NEW result, run[p].pc # "idle", result # "report",
           run' = [run EXCEPT ![p] = Fixture!Ended(run[p], result)]
    PROVE  FixtureInv'
<1>1. PICK pc, f, plan, was, todo, prefix, next, applied, reused :
         run[p] = FixtureRecord(pc, f, plan, was, todo, prefix, next, applied, reused)
  BY FixtureParts
<1>2. PICK r : r = Fixture!Ended(run[p], result) OBVIOUS
<1>3. r.pc = "idle" /\ r.result = result BY <1>1, <1>2 DEF Fixture!Ended, FixtureRecord
<1> QED BY <1>2, <1>3, FixtureBecomes DEF FixtureLive

-----------------------------------------------------------------------------
(* Fixtures: every step keeps it. *)

LEMMA FixtureBeginStep ==
    ASSUME FixtureInv, NEW p \in Appliers, NEW f \in Documents, Fixture!Begin(p, f)
    PROVE  FixtureInv'
<1>1. FixtureStoreInv' /\ FixtureStoreGrows BY FixtureStoreRests DEF FixtureInv, Fixture!Begin
<1>2. CASE ~Fixture!Valid(f)
  <2>1. PICK r : r = [pc |-> "idle", result |-> "invalid"] OBVIOUS
  <2>2. run' = [run EXCEPT ![p] = r] /\ ~FixtureLive(r) BY <1>2, <2>1 DEF Fixture!Begin, FixtureLive
  <2> QED BY <1>1, <2>2, FixtureBecomes
<1>3. CASE Fixture!Valid(f)
  <2>1. PICK plan, todo, prefix :
          /\ plan = Fixture!Plan(f) /\ todo = {f.messages[i].stream : i \in 1..Len(f.messages)}
          /\ prefix = [s \in Streams |-> 0]
    OBVIOUS
  <2>2. PICK r : r = FixtureRecord("load", f, plan, "none", todo, prefix, 1, 0, 0) OBVIOUS
  <2>3. run' = [run EXCEPT ![p] = r] BY <1>3, <2>1, <2>2 DEF Fixture!Begin, FixtureRecord
  <2>4. FixtureIsPlan(plan) BY <1>3, <2>1, FixturePlansArePlans
  <2>5. FixtureCounted(plan, 1, prefix) = {}
    <3> SUFFICES ASSUME NEW i \in 1..Len(plan) PROVE ~(i < 1) /\ ~(plan[i].ordinal < prefix[plan[i].stream])
      BY DEF FixtureCounted
    <3>1. plan[i].ordinal \in Nat /\ plan[i].stream \in Streams BY <2>4, FixtureOrdinals
    <3>2. prefix[plan[i].stream] = 0 BY <2>1, <3>1
    <3>3. i \in Nat /\ i >= 1 BY <2>4 DEF FixtureIsPlan
    <3> QED BY <3>1, <3>2, <3>3
  <2>6. Cardinality(FixtureCounted(plan, 1, prefix)) = 0 BY <2>5, FS_EmptySet
  <2>7. 1 \in 1..(Len(plan) + 1) BY <2>4 DEF FixtureIsPlan
  <2>8. prefix \in [Streams -> Nat] /\ \A s \in Streams : prefix[s] = 0 BY <2>1
  <2>9. FixtureHolds("load", plan, "none", todo, prefix, 1, 0, 0)' BY <2>4, <2>5, <2>6, <2>7, <2>8 DEF FixtureHolds
  <2>10. FixtureSound(r)' BY <2>2, <2>9, FixtureMade
  <2> QED BY <1>1, <2>3, <2>10, FixtureBecomes
<1> QED BY <1>2, <1>3

LEMMA FixtureLoadStep ==
    ASSUME FixtureInv, NEW p \in Appliers, NEW s \in Streams, Fixture!Load(p, s)
    PROVE  FixtureInv'
<1>1. stored' = stored /\ FixtureStoreInv /\ FixtureStoreInv' /\ FixtureStoreGrows BY FixtureStoreRests DEF FixtureInv, Fixture!Load
<1>2. run[p].pc # "idle" BY DEF Fixture!Load
<1>3. CASE ~Fixture!Agrees(s, run[p].plan)
  <2>1. run' = [run EXCEPT ![p] = Fixture!Ended(run[p], "conflicting-history")] BY <1>3 DEF Fixture!Load, Fixture!End
  <2> QED BY <1>1, <1>2, <2>1, FixtureEnding
<1>4. CASE Fixture!Agrees(s, run[p].plan)
  <2>1. PICK pc, f, plan, result, todo, prefix, next, applied, reused :
           /\ run[p] = FixtureRecord(pc, f, plan, result, todo, prefix, next, applied, reused)
           /\ FixtureHolds(pc, plan, result, todo, prefix, next, applied, reused)
    BY <1>2, FixtureParts
  <2>2. pc = "load" /\ s \in todo BY <2>1 DEF Fixture!Load, FixtureRecord
  <2>3. FixtureIsPlan(plan) /\ next = 1 /\ prefix[s] = 0 /\ prefix \in [Streams -> Nat] BY <2>1, <2>2 DEF FixtureHolds
  <2>4. PICK all, long \in Nat : all = Cardinality(Fixture!Planned(plan, s)) /\ long = Len(stored[s])
    BY <1>1, <2>3, FixturePrefixCounts, FixtureLengths
  <2>5. PICK shared : shared = Fixture!Least(long, all) OBVIOUS
  <2>6. shared \in 0..all /\ shared <= long BY <2>4, <2>5 DEF Fixture!Least
  <2>7. run[p].plan = plan BY <2>1 DEF FixtureRecord
  <2>8. PICK new : new = [prefix EXCEPT ![s] = shared] OBVIOUS
  <2>9. PICK r : r = FixtureRecord(pc, f, plan, result, todo \ {s}, new, next, applied, reused + shared) OBVIOUS
  <2>10. run' = [run EXCEPT ![p] = r]
    <3>1. shared = Fixture!Least(Len(stored[s]), Fixture!Cardinality(Fixture!Planned(run[p].plan, s)))
      BY <2>4, <2>5, <2>7, FixtureSameCardinality
    <3>2. run' = [run EXCEPT ![p].todo = @ \ {s}, ![p].prefix[s] = shared, ![p].reused = @ + shared]
      BY <1>4, <3>1 DEF Fixture!Load
    <3>3. run = [q \in Appliers |-> run[q]] BY DEF FixtureInv, FixtureRunInv
    <3>4. PICK r1 : r1 = FixtureRecord(pc, f, plan, result, todo \ {s}, prefix, next, applied, reused) OBVIOUS
    <3>5. PICK r2 : r2 = FixtureRecord(pc, f, plan, result, todo \ {s}, new, next, applied, reused) OBVIOUS
    <3>6. PICK g1 : g1 = [run EXCEPT ![p].todo = @ \ {s}] OBVIOUS
    <3>7. PICK g2 : g2 = [g1 EXCEPT ![p].prefix[s] = shared] OBVIOUS
    <3>8. g1 = [q \in Appliers |-> IF q = p THEN r1 ELSE run[q]]
      <4>1. [run[p] EXCEPT !.todo = @ \ {s}] = r1 BY <2>1, <3>4 DEF FixtureRecord
      <4> QED BY <3>3, <3>6, <4>1
    <3>9. g2 = [q \in Appliers |-> IF q = p THEN r2 ELSE run[q]]
      <4>1. [r1 EXCEPT !.prefix = new] = r2 BY <3>4, <3>5 DEF FixtureRecord
      <4>2. r1.prefix = prefix /\ g1[p] = r1 BY <3>4, <3>8 DEF FixtureRecord
      <4>3. [r1.prefix EXCEPT ![s] = shared] = new BY <2>8, <4>2
      <4>4. [g1[p] EXCEPT !.prefix = [@ EXCEPT ![s] = shared]] = r2 BY <4>1, <4>2, <4>3
      <4> QED BY <3>7, <3>8, <4>4
    <3>10. run' = [g2 EXCEPT ![p].reused = @ + shared] BY <3>2, <3>6, <3>7
    <3>11. [r2 EXCEPT !.reused = @ + shared] = r BY <2>9, <3>5 DEF FixtureRecord
    <3> QED BY <3>3, <3>9, <3>10, <3>11
  <2>11. PICK C, D, P : /\ C = FixtureCounted(plan, next, prefix) /\ D = FixtureCounted(plan, next, new)
                       /\ P = {i \in Fixture!Planned(plan, s) : plan[i].ordinal < shared}
    OBVIOUS
  <2>12. new \in [Streams -> Nat] /\ \A t \in Streams : new[t] = IF t = s THEN shared ELSE prefix[t]
    BY <2>3, <2>6, <2>8
  <2>13. ASSUME NEW i \in 1..Len(plan)
         PROVE  /\ i \in D <=> i \in C \/ i \in P
                /\ ~(i \in C /\ i \in P)
    <3>1. plan[i].ordinal \in Nat /\ plan[i].stream \in Streams BY <2>3, FixtureOrdinals
    <3>2. ~(i < next) BY <2>3 DEF FixtureIsPlan
    <3>3. i \in D <=> plan[i].ordinal < new[plan[i].stream] BY <2>11, <3>2 DEF FixtureCounted
    <3>4. i \in C <=> plan[i].ordinal < prefix[plan[i].stream] BY <2>11, <3>2 DEF FixtureCounted
    <3>5. i \in P <=> plan[i].stream = s /\ plan[i].ordinal < shared BY <2>11 DEF Fixture!Planned
    <3> QED BY <2>3, <2>12, <3>1, <3>3, <3>4, <3>5
  <2>14. D = C \cup P /\ C \cap P = {} BY <2>11, <2>13 DEF FixtureCounted, Fixture!Planned
  <2>15. IsFiniteSet(P) /\ Cardinality(P) = shared BY <2>3, <2>4, <2>6, <2>11, FixturePrefixCounts
  <2>16. IsFiniteSet(C) /\ Cardinality(C) \in Nat /\ Cardinality(C) = applied + reused
    BY <2>1, <2>3, <2>11, FixtureCountedFinite DEF FixtureHolds
  <2>17. Cardinality(D) = applied + (reused + shared)
    <3>1. Cardinality(C \cap P) = 0 BY <2>14, FS_EmptySet
    <3>2. Cardinality(D) = Cardinality(C) + Cardinality(P) - Cardinality(C \cap P) BY <2>14, <2>15, <2>16, FS_Union
    <3>3. applied \in Nat /\ reused \in Nat BY <2>1 DEF FixtureHolds
    <3> QED BY <2>6, <2>15, <2>16, <3>1, <3>2, <3>3
  <2>18. ASSUME NEW i \in D PROVE FixtureStored(plan, i)
    <3>1. CASE i \in C BY <2>1, <2>11, <3>1 DEF FixtureHolds
    <3>2. CASE i \in P
      <4>1. i \in Fixture!Planned(plan, s) /\ plan[i].stream = s /\ plan[i].ordinal < shared /\ i \in 1..Len(plan)
        BY <2>11, <3>2 DEF Fixture!Planned
      <4>2. plan[i].ordinal \in Nat BY <2>3, <4>1, FixtureOrdinals
      <4>3. plan[i].ordinal < Len(stored[s]) BY <2>4, <2>6, <4>1, <4>2
      <4>4. stored[s][plan[i].ordinal + 1] = plan[i].event BY <1>4, <2>7, <4>1, <4>3 DEF Fixture!Agrees
      <4> QED BY <4>1, <4>3, <4>4 DEF FixtureStored
    <3> QED BY <2>14, <3>1, <3>2
  <2>19. FixtureHolds(pc, plan, result, todo \ {s}, new, next, applied, reused + shared)
    <3>1. reused + shared \in Nat BY <2>1, <2>4, <2>6 DEF FixtureHolds
    <3>2. \A t \in Streams : t \in todo \ {s} => new[t] = 0 BY <2>1, <2>12 DEF FixtureHolds
    <3> QED BY <2>1, <2>11, <2>12, <2>17, <2>18, <3>1, <3>2 DEF FixtureHolds
  <2>20. FixtureHolds(pc, plan, result, todo \ {s}, new, next, applied, reused + shared)'
    BY <1>1, <2>19 DEF FixtureHolds, FixtureStored
  <2>21. FixtureSound(r)' BY <2>9, <2>20, FixtureMade
  <2> QED BY <1>1, <2>10, <2>21, FixtureBecomes
<1> QED BY <1>3, <1>4

LEMMA FixturePreflightedStep ==
    ASSUME FixtureInv, NEW p \in Appliers, Fixture!Preflighted(p)
    PROVE  FixtureInv'
<1>1. stored' = stored /\ FixtureStoreInv /\ FixtureStoreInv' /\ FixtureStoreGrows BY FixtureStoreRests DEF FixtureInv, Fixture!Preflighted
<1>2. PICK pc, f, plan, result, todo, prefix, next, applied, reused :
         /\ run[p] = FixtureRecord(pc, f, plan, result, todo, prefix, next, applied, reused)
         /\ FixtureHolds(pc, plan, result, todo, prefix, next, applied, reused)
  BY FixtureParts DEF Fixture!Preflighted
<1>3. PICK r : r = FixtureRecord("append", f, plan, result, todo, prefix, next, applied, reused) OBVIOUS
<1>4. run' = [run EXCEPT ![p] = r]
  <2>1. [run[p] EXCEPT !.pc = "append"] = r BY <1>2, <1>3 DEF FixtureRecord
  <2>2. run = [q \in Appliers |-> run[q]] BY DEF FixtureInv, FixtureRunInv
  <2> QED BY <2>1, <2>2 DEF Fixture!Preflighted
<1>5. FixtureHolds("append", plan, result, todo, prefix, next, applied, reused)' BY <1>1, <1>2 DEF FixtureHolds, FixtureStored
<1>6. FixtureSound(r)' BY <1>3, <1>5, FixtureMade
<1> QED BY <1>1, <1>4, <1>6, FixtureBecomes

LEMMA FixtureSkipStep ==
    ASSUME FixtureInv, NEW p \in Appliers, Fixture!Skip(p)
    PROVE  FixtureInv'
<1>1. stored' = stored /\ FixtureStoreInv /\ FixtureStoreInv' /\ FixtureStoreGrows BY FixtureStoreRests DEF FixtureInv, Fixture!Skip
<1>2. PICK pc, f, plan, result, todo, prefix, next, applied, reused :
         /\ run[p] = FixtureRecord(pc, f, plan, result, todo, prefix, next, applied, reused)
         /\ FixtureHolds(pc, plan, result, todo, prefix, next, applied, reused)
  BY FixtureParts DEF Fixture!Skip
<1>3. /\ pc = "append" /\ next <= Len(plan)
      /\ plan[next].ordinal < prefix[plan[next].stream]
  BY <1>2 DEF Fixture!Skip, Fixture!Skipped, FixtureRecord
<1>4. PICK r : r = FixtureRecord(pc, f, plan, result, todo, prefix, next + 1, applied, reused) OBVIOUS
<1>5. run' = [run EXCEPT ![p] = r]
  <2>1. [run[p] EXCEPT !.next = @ + 1] = r BY <1>2, <1>4 DEF FixtureRecord
  <2>2. run = [q \in Appliers |-> run[q]] BY DEF FixtureInv, FixtureRunInv
  <2> QED BY <2>1, <2>2 DEF Fixture!Skip
<1>6. next \in 1..Len(plan) /\ Len(plan) \in Nat BY <1>2, <1>3 DEF FixtureHolds, FixtureIsPlan
<1>7. FixtureCounted(plan, next + 1, prefix) = FixtureCounted(plan, next, prefix)
  <2>1. \A i \in 1..Len(plan) : i < next + 1 <=> i < next \/ i = next BY <1>6
  <2> QED BY <1>3, <2>1 DEF FixtureCounted
<1>8. result # "report" BY <1>2, <1>3, <1>6 DEF FixtureHolds
<1>9. FixtureHolds(pc, plan, result, todo, prefix, next + 1, applied, reused)'
  <2>1. next + 1 \in 1..(Len(plan) + 1) BY <1>6
  <2> QED BY <1>1, <1>2, <1>3, <1>7, <1>8, <2>1 DEF FixtureHolds, FixtureStored
<1>10. FixtureSound(r)' BY <1>4, <1>9, FixtureMade
<1> QED BY <1>1, <1>5, <1>10, FixtureBecomes

\* An event that was not found before is counted once it is stored.
LEMMA FixtureCountsNext ==
    ASSUME FixtureStoreInv, FixtureStoreInv', FixtureStoreGrows,
           NEW plan, NEW result, NEW todo, NEW prefix, NEW next, NEW applied, NEW reused,
           FixtureHolds("append", plan, result, todo, prefix, next, applied, reused),
           next <= Len(plan), ~(plan[next].ordinal < prefix[plan[next].stream]), FixtureStored(plan, next)',
           NEW more \in Nat, NEW again \in Nat, more + again = applied + reused + 1
    PROVE  FixtureHolds("append", plan, result, todo, prefix, next + 1, more, again)'
<1>1. next \in 1..Len(plan) /\ Len(plan) \in Nat /\ FixtureIsPlan(plan) BY DEF FixtureHolds, FixtureIsPlan
<1>2. FixtureHolds("append", plan, result, todo, prefix, next, applied, reused)' BY FixtureHoldsKept
<1>3. PICK C, D : C = FixtureCounted(plan, next, prefix) /\ D = FixtureCounted(plan, next + 1, prefix) OBVIOUS
<1>4. D = C \cup {next} /\ next \notin C
  <2>1. \A i \in 1..Len(plan) : i < next + 1 <=> i < next \/ i = next BY <1>1
  <2>2. ~(next < next) BY <1>1
  <2> QED BY <1>1, <1>3, <2>1, <2>2 DEF FixtureCounted
<1>5. IsFiniteSet(C) /\ Cardinality(C) \in Nat /\ Cardinality(C) = applied + reused
  BY <1>1, <1>3, FixtureCountedFinite DEF FixtureHolds
<1>6. Cardinality(D) = more + again BY <1>4, <1>5, FS_AddElement
<1>7. \A i \in D : FixtureStored(plan, i)' BY <1>2, <1>3, <1>4 DEF FixtureHolds
<1>8. result # "report" BY <1>1 DEF FixtureHolds
<1>9. next + 1 \in 1..(Len(plan) + 1) BY <1>1
<1> QED BY <1>2, <1>3, <1>6, <1>7, <1>8, <1>9 DEF FixtureHolds

LEMMA FixtureAppendNextStep ==
    ASSUME FixtureInv, NEW p \in Appliers, Fixture!AppendNext(p)
    PROVE  FixtureInv'
<1>1. FixtureStoreInv BY DEF FixtureInv
<1>2. PICK pc, f, plan, result, todo, prefix, next, applied, reused :
         /\ run[p] = FixtureRecord(pc, f, plan, result, todo, prefix, next, applied, reused)
         /\ FixtureHolds(pc, plan, result, todo, prefix, next, applied, reused)
  BY FixtureParts DEF Fixture!AppendNext
<1>3. /\ pc = "append" /\ next <= Len(plan) /\ run[p].plan = plan /\ run[p].next = next
      /\ ~(plan[next].ordinal < prefix[plan[next].stream])
  BY <1>2 DEF Fixture!AppendNext, Fixture!Skipped, FixtureRecord
<1>4. next \in 1..Len(plan) /\ FixtureIsPlan(plan) /\ applied \in Nat /\ reused \in Nat BY <1>2, <1>3 DEF FixtureHolds, FixtureIsPlan
<1>5. PICK s, e, n : s = plan[next].stream /\ e = plan[next].event /\ n = plan[next].ordinal OBVIOUS
<1>6. s \in Streams /\ n \in Nat /\ e.version = n + 1 BY <1>4, <1>5, FixtureOrdinals
<1>7. PICK long \in Nat : long = Len(stored[s]) BY <1>1, <1>6, FixtureLengths
<1>8. run = [q \in Appliers |-> run[q]] BY DEF FixtureInv, FixtureRunInv
<1>9. run[p].pc # "idle" BY DEF Fixture!AppendNext
<1>10. CASE /\ Fixture!Replayed(s, e) /\ stored' = stored
            /\ run' = [run EXCEPT ![p].next = @ + 1, ![p].reused = @ + 1]
  <2>1. FixtureStoreInv' /\ FixtureStoreGrows BY <1>1, <1>10, FixtureStoreRests
  <2>2. PICK i \in 1..long : stored[s][i] = e BY <1>7, <1>10 DEF Fixture!Replayed
  <2>3. stored[s][i].version = i BY <1>1, <1>6, <1>7 DEF FixtureStoreInv
  <2>4. i = n + 1 /\ n < long BY <1>6, <1>7, <2>2, <2>3
  <2>5. FixtureStored(plan, next)' BY <1>5, <1>7, <1>10, <2>2, <2>4 DEF FixtureStored
  <2>6. FixtureHolds(pc, plan, result, todo, prefix, next + 1, applied, reused + 1)'
    BY <1>1, <1>2, <1>3, <1>4, <2>1, <2>5, FixtureCountsNext
  <2>7. PICK r : r = FixtureRecord(pc, f, plan, result, todo, prefix, next + 1, applied, reused + 1) OBVIOUS
  <2>8. run' = [run EXCEPT ![p] = r]
    <3>1. PICK x : x = FixtureRecord(pc, f, plan, result, todo, prefix, next + 1, applied, reused) OBVIOUS
    <3>2. [run[p] EXCEPT !.next = @ + 1] = x BY <1>2, <3>1 DEF FixtureRecord
    <3>3. [x EXCEPT !.reused = @ + 1] = r BY <2>7, <3>1 DEF FixtureRecord
    <3>4. PICK g : g = [run EXCEPT ![p].next = @ + 1] OBVIOUS
    <3>5. g = [q \in Appliers |-> IF q = p THEN x ELSE run[q]] BY <1>8, <3>2, <3>4
    <3>6. run' = [g EXCEPT ![p].reused = @ + 1] BY <1>10, <3>4
    <3> QED BY <1>8, <3>3, <3>5, <3>6
  <2>9. FixtureSound(r)' BY <2>6, <2>7, FixtureMade
  <2> QED BY <2>1, <2>8, <2>9, FixtureBecomes
<1>11. ASSUME Fixture!Fits(s, e), stored' = [stored EXCEPT ![s] = Append(stored[s], e)]
       PROVE  FixtureStoreInv' /\ FixtureStoreGrows /\ FixtureStored(plan, next)'
  <2>1. long = n BY <1>6, <1>7, <1>11 DEF Fixture!Fits
  <2>2. e.version = Len(stored[s]) + 1 BY <1>6, <1>7, <2>1
  <2>3. FixtureStoreInv' /\ FixtureStoreGrows /\ Len(stored'[s]) = n + 1 /\ stored'[s][n + 1] = e
    BY <1>1, <1>6, <1>7, <1>11, <2>1, <2>2, FixtureStoreAppends
  <2>4. n < Len(stored'[s]) BY <1>6, <2>3
  <2> QED BY <1>5, <2>3, <2>4 DEF FixtureStored
<1>12. CASE /\ Fixture!Fits(s, e) /\ stored' = [stored EXCEPT ![s] = Append(stored[s], e)]
            /\ run' = [run EXCEPT ![p].next = @ + 1, ![p].applied = @ + 1]
  <2>1. FixtureHolds(pc, plan, result, todo, prefix, next + 1, applied + 1, reused)'
    <3>1. applied + 1 \in Nat /\ (applied + 1) + reused = applied + reused + 1 BY <1>4
    <3>2. FixtureStoreInv' /\ FixtureStoreGrows /\ FixtureStored(plan, next)' BY <1>11, <1>12
    <3> QED BY <1>1, <1>2, <1>3, <1>4, <3>1, <3>2, FixtureCountsNext
  <2>2. PICK r : r = FixtureRecord(pc, f, plan, result, todo, prefix, next + 1, applied + 1, reused) OBVIOUS
  <2>3. run' = [run EXCEPT ![p] = r]
    <3>1. PICK x : x = FixtureRecord(pc, f, plan, result, todo, prefix, next + 1, applied, reused) OBVIOUS
    <3>2. [run[p] EXCEPT !.next = @ + 1] = x BY <1>2, <3>1 DEF FixtureRecord
    <3>3. [x EXCEPT !.applied = @ + 1] = r BY <2>2, <3>1 DEF FixtureRecord
    <3>4. PICK g : g = [run EXCEPT ![p].next = @ + 1] OBVIOUS
    <3>5. g = [q \in Appliers |-> IF q = p THEN x ELSE run[q]] BY <1>8, <3>2, <3>4
    <3>6. run' = [g EXCEPT ![p].applied = @ + 1] BY <1>12, <3>4
    <3> QED BY <1>8, <3>3, <3>5, <3>6
  <2>4. FixtureSound(r)' BY <2>1, <2>2, FixtureMade
  <2> QED BY <1>11, <1>12, <2>3, <2>4, FixtureBecomes
<1>13. CASE stored' = stored /\ run' = [run EXCEPT ![p] = Fixture!Ended(run[p], "store")]
  BY <1>1, <1>9, <1>13, FixtureStoreRests, FixtureEnding
<1>14. CASE /\ Fixture!Fits(s, e) /\ stored' = [stored EXCEPT ![s] = Append(stored[s], e)]
            /\ run' = [run EXCEPT ![p] = Fixture!Ended(run[p], "store")]
  BY <1>9, <1>11, <1>14, FixtureEnding
<1>15. \/ /\ Fixture!Replayed(s, e) /\ stored' = stored
          /\ run' = [run EXCEPT ![p].next = @ + 1, ![p].reused = @ + 1]
       \/ /\ Fixture!Fits(s, e) /\ stored' = [stored EXCEPT ![s] = Append(stored[s], e)]
          /\ run' = [run EXCEPT ![p].next = @ + 1, ![p].applied = @ + 1]
       \/ stored' = stored /\ run' = [run EXCEPT ![p] = Fixture!Ended(run[p], "store")]
       \/ /\ Fixture!Fits(s, e) /\ stored' = [stored EXCEPT ![s] = Append(stored[s], e)]
          /\ run' = [run EXCEPT ![p] = Fixture!Ended(run[p], "store")]
  <2>1. run[p].plan[run[p].next].stream = s /\ run[p].plan[run[p].next].event = e BY <1>3, <1>5
  <2> QED BY <2>1 DEF Fixture!AppendNext, Fixture!End
<1> QED BY <1>10, <1>12, <1>13, <1>14, <1>15

LEMMA FixtureReportStep ==
    ASSUME FixtureInv, NEW p \in Appliers, Fixture!Report(p)
    PROVE  FixtureInv'
<1>1. stored' = stored /\ FixtureStoreInv /\ FixtureStoreInv' /\ FixtureStoreGrows BY FixtureStoreRests DEF FixtureInv, Fixture!Report
<1>2. PICK pc, f, plan, result, todo, prefix, next, applied, reused :
         /\ run[p] = FixtureRecord(pc, f, plan, result, todo, prefix, next, applied, reused)
         /\ FixtureHolds(pc, plan, result, todo, prefix, next, applied, reused)
  BY FixtureParts DEF Fixture!Report
<1>3. pc = "append" /\ next > Len(plan) BY <1>2 DEF Fixture!Report, FixtureRecord
<1>4. next = Len(plan) + 1 BY <1>2, <1>3 DEF FixtureHolds, FixtureIsPlan
<1>5. PICK r : r = FixtureRecord("idle", f, plan, "report", todo, prefix, next, applied, reused) OBVIOUS
<1>6. run' = [run EXCEPT ![p] = r]
  <2>1. PICK x : x = FixtureRecord("idle", f, plan, result, todo, prefix, next, applied, reused) OBVIOUS
  <2>2. [run[p] EXCEPT !.pc = "idle"] = x BY <1>2, <2>1 DEF FixtureRecord
  <2>3. [x EXCEPT !.result = "report"] = r BY <1>5, <2>1 DEF FixtureRecord
  <2>4. Fixture!Ended(run[p], "report") = r BY <2>2, <2>3 DEF Fixture!Ended
  <2> QED BY <2>4 DEF Fixture!Report, Fixture!End
<1>7. FixtureHolds("idle", plan, "report", todo, prefix, next, applied, reused)' BY <1>1, <1>2, <1>4 DEF FixtureHolds, FixtureStored
<1>8. FixtureSound(r)' BY <1>5, <1>7, FixtureMade
<1> QED BY <1>1, <1>6, <1>8, FixtureBecomes

LEMMA FixtureCutOffStep ==
    ASSUME FixtureInv, NEW p \in Appliers, Fixture!CutOff(p)
    PROVE  FixtureInv'
<1>1. FixtureStoreInv' /\ FixtureStoreGrows BY FixtureStoreRests DEF FixtureInv, Fixture!CutOff
<1> QED BY <1>1, FixtureEnding DEF Fixture!CutOff, Fixture!End

LEMMA FixtureRunsRest ==
    ASSUME FixtureInv, FixtureStoreInv', FixtureStoreGrows, run' = run
    PROVE  FixtureInv'
<1>1. ASSUME NEW q \in Appliers, FixtureLive(run[q]) PROVE FixtureSound(run[q])'
  <2>1. PICK x : x = run[q] OBVIOUS
  <2>2. FixtureSound(x) BY <1>1, <2>1 DEF FixtureInv, FixtureRunInv
  <2>3. FixtureHolds(x.pc, x.plan, x.result, x.todo, x.prefix, x.next, x.applied, x.reused)'
    BY <2>2, FixtureHoldsKept DEF FixtureInv, FixtureSound
  <2>4. run'[q] = x BY <2>1
  <2> QED BY <2>2, <2>3, <2>4 DEF FixtureSound, FixtureIsRecord, FixtureHolds, FixtureStored
<1> QED BY <1>1 DEF FixtureInv, FixtureRunInv, FixtureLive

LEMMA FixtureForeignStep ==
    ASSUME FixtureInv, NEW s \in Streams, Fixture!Foreign(s)
    PROVE  FixtureInv'
<1>1. PICK e : e = [id |-> [foreign |-> foreign], version |-> Len(stored[s]) + 1, cause |-> {}] OBVIOUS
<1>2. e.version = Len(stored[s]) + 1 /\ stored' = [stored EXCEPT ![s] = Append(stored[s], e)] BY <1>1 DEF Fixture!Foreign
<1>3. FixtureStoreInv' /\ FixtureStoreGrows BY <1>2, FixtureStoreAppends DEF FixtureInv
<1> QED BY <1>3, FixtureRunsRest DEF Fixture!Foreign

LEMMA FixtureNextStep ==
    ASSUME FixtureInv, [Fixture!Next]_(Fixture!vars)
    PROVE  FixtureInv'
<1>1. CASE UNCHANGED Fixture!vars
  <2>1. FixtureStoreInv' /\ FixtureStoreGrows BY <1>1, FixtureStoreRests DEF FixtureInv, Fixture!vars
  <2> QED BY <1>1, <2>1, FixtureRunsRest DEF Fixture!vars
<1>2. CASE Fixture!Next
  <2>1. CASE \E s \in Streams : Fixture!Foreign(s) BY <2>1, FixtureForeignStep
  <2>2. CASE \E p \in Appliers : (\E f \in Documents : Fixture!Begin(p, f)) \/ Fixture!Step(p) \/ Fixture!CutOff(p)
    <3>1. PICK p \in Appliers : (\E f \in Documents : Fixture!Begin(p, f)) \/ Fixture!Step(p) \/ Fixture!CutOff(p) BY <2>2
    <3>2. CASE \E f \in Documents : Fixture!Begin(p, f) BY <3>2, FixtureBeginStep
    <3>3. CASE Fixture!Step(p)
      BY <3>3, FixtureLoadStep, FixturePreflightedStep, FixtureSkipStep, FixtureAppendNextStep, FixtureReportStep DEF Fixture!Step
    <3>4. CASE Fixture!CutOff(p) BY <3>4, FixtureCutOffStep
    <3> QED BY <3>1, <3>2, <3>3, <3>4
  <2> QED BY <1>2, <2>1, <2>2 DEF Fixture!Next
<1> QED BY <1>1, <1>2

LEMMA FixtureInitStep ==
    ASSUME Fixture!Init
    PROVE  FixtureInv
<1>1. FixtureStoreInv
  <2>1. stored = [s \in Streams |-> << >>] BY DEF Fixture!Init
  <2>2. ASSUME NEW s \in Streams PROVE stored[s] \in Seq({}) /\ Len(stored[s]) = 0 BY <2>1
  <2> QED BY <2>1, <2>2 DEF FixtureStoreInv
<1>2. FixtureRunInv BY DEF Fixture!Init, FixtureRunInv, Fixture!Idle, FixtureLive
<1> QED BY <1>1, <1>2 DEF FixtureInv

LEMMA FixtureTruthful ==
    ASSUME FixtureInv
    PROVE  Fixture!ReportIsTrue
<1> SUFFICES ASSUME NEW p \in Appliers, run[p].result = "report", NEW plan, plan = run[p].plan
             PROVE  /\ run[p].applied + run[p].reused = Len(plan)
                    /\ \A i \in 1..Len(plan) :
                          /\ Fixture!Place(plan, i) <= Len(stored[plan[i].stream])
                          /\ stored[plan[i].stream][Fixture!Place(plan, i)] = plan[i].event
  BY Zenon DEF Fixture!ReportIsTrue
<1>1. PICK r : r = run[p] OBVIOUS
<1>2. FixtureSound(r) BY <1>1 DEF FixtureInv, FixtureRunInv, FixtureLive
<1>3. FixtureIsPlan(plan) /\ Len(plan) \in Nat /\ r.next = Len(plan) + 1 BY <1>1, <1>2 DEF FixtureSound, FixtureHolds, FixtureIsPlan
<1>4. FixtureCounted(plan, r.next, r.prefix) = 1..Len(plan)
  <2>1. \A i \in 1..Len(plan) : i < Len(plan) + 1 BY <1>3
  <2> QED BY <1>3, <2>1 DEF FixtureCounted
<1>5. r.applied + r.reused = Len(plan)
  <2>1. Cardinality(1..Len(plan)) = Len(plan)
    <3>1. 1 \in Int /\ Len(plan) \in Int /\ (IF 1 > Len(plan) THEN 0 ELSE Len(plan) - 1 + 1) = Len(plan) BY <1>3
    <3> QED BY <3>1, FS_Interval
  <2> QED BY <1>1, <1>2, <1>4, <2>1 DEF FixtureSound, FixtureHolds
<1>6. ASSUME NEW i \in 1..Len(plan)
      PROVE  /\ Fixture!Place(plan, i) <= Len(stored[plan[i].stream])
             /\ stored[plan[i].stream][Fixture!Place(plan, i)] = plan[i].event
  <2>1. plan[i].ordinal \in Nat /\ plan[i].stream \in Streams BY <1>3, FixtureOrdinals
  <2>2. Fixture!Place(plan, i) = plan[i].ordinal + 1
    <3>1. PICK B : B = {k \in 1..(i - 1) : plan[k].stream = plan[i].stream} OBVIOUS
    <3>2. plan[i].ordinal = Cardinality(B) BY <1>3, <3>1 DEF FixtureIsPlan, FixtureBefore
    <3>3. Fixture!Place(plan, i) = 1 + Cardinality(B) BY <3>1, FixtureSameCardinality DEF Fixture!Place
    <3> QED BY <2>1, <3>2, <3>3
  <2>3. FixtureStored(plan, i) BY <1>1, <1>2, <1>4 DEF FixtureSound, FixtureHolds
  <2>4. Len(stored[plan[i].stream]) \in Nat BY <2>1, FixtureLengths DEF FixtureInv
  <2> QED BY <2>1, <2>2, <2>3, <2>4 DEF FixtureStored
<1> QED BY <1>1, <1>5, <1>6

\* Whatever other appliers and the application itself write to the same streams,
\* wherever an application is cut off or its answer lost and however often it is tried
\* again, one that reports has all its events at their places and counted each once,
\* for any valid documents, streams and appliers.
THEOREM ReportsAreTrue == Fixture!Spec => []ReportIsTrue
<1>1. Fixture!Init => FixtureInv BY FixtureInitStep
<1>2. FixtureInv /\ [Fixture!Next]_(Fixture!vars) => FixtureInv' BY FixtureNextStep
<1>3. FixtureInv => ReportIsTrue BY FixtureTruthful DEF ReportIsTrue
<1> QED BY <1>1, <1>2, <1>3, PTL DEF Fixture!Spec

-----------------------------------------------------------------------------
(* The host: the inductive invariant. *)

HostWorkers == Runtime!Groups \X Runtime!Kinds
HostCalling == [pc : {"idle", "gate", "running", "done"}, on : Nat]
\* Where an administrative task is while it holds the gate.
HostInside == {"close", "take", "join", "clear", "delete", "provision", "replace", "extend", "apply", "check", "prepare", "flag"}
HostDoing ==
    [op : {Runtime!None, "start", "attach", "stop", "reset", "apply"}, pc : {"idle", "gate", "done"} \cup HostInside,
     fixture : Fixtures \cup {Runtime!None}, joining : SUBSET HostWorkers, ok : BOOLEAN]

HostTypes ==
    /\ readers \subseteq Invokers /\ writer \in Runtime!Tasks \cup {Runtime!None}
    /\ available \in BOOLEAN /\ shuttingDown \in BOOLEAN /\ resetRequired \in BOOLEAN
    /\ incarnation \in Nat /\ created \in Nat /\ backend \in Nat
    /\ started \in Nat /\ owned \subseteq HostWorkers
    /\ task \in [Runtime!Tasks -> HostDoing]
    /\ caller \in [Invokers -> HostCalling]

\* Whoever is inside holds the gate alone, and an invocation runs with a share of it.
HostGateInv ==
    /\ writer # Runtime!None => readers = {}
    /\ \A t \in Runtime!Tasks : task[t].pc \in HostInside => writer = t
    /\ \A c \in Invokers : caller[c].pc = "running" => c \in readers

\* What each operation has behind it at each of its steps.
HostStepInv ==
    \A t \in Runtime!Tasks :
        /\ task[t].pc = "gate" => task[t].op # Runtime!None
        /\ task[t].pc \in {"clear", "delete", "provision", "replace", "flag"} => task[t].op = "reset"
        /\ task[t].pc \in {"extend", "apply"} => task[t].op \in {"reset", "apply"}
        /\ task[t].pc \in {"close", "take", "join"} => task[t].op \in {"stop", "attach", "reset"}
        /\ task[t].pc \in {"check", "prepare"} => task[t].op \in {"start", "attach", "reset"}
        /\ task[t].pc \in HostInside /\ task[t].op = "reset" => resetRequired
        /\ task[t].pc \in HostInside /\ task[t].op \in {"start", "attach"} => ~resetRequired
        /\ task[t].pc \in {"extend", "apply", "check", "prepare", "flag"} /\ task[t].op = "reset" => backend = incarnation

\* The streams are whole unless a reset is owed, and while one is owed the runtime
\* is closed, but for a reset that has not closed it yet or has just opened it.
HostWholeInv ==
    /\ ~resetRequired => backend = incarnation
    /\ available /\ resetRequired =>
          \E t \in Runtime!Tasks : task[t].pc \in {"close", "flag"} /\ task[t].op = "reset"

HostCallsInv == \A c \in Invokers : Runtime!Running(c) => caller[c].on = incarnation /\ ~resetRequired

HostInv == HostTypes /\ HostGateInv /\ HostStepInv /\ HostWholeInv /\ HostCallsInv

LEMMA HostInitStep == Runtime!Init => HostInv
<1> SUFFICES ASSUME Runtime!Init PROVE HostInv OBVIOUS
<1>1. HostTypes
  BY RuntimeAssumption DEF Runtime!HostAssumption, Runtime!Init, HostTypes, Runtime!Idle, HostDoing, HostInside, HostCalling, HostWorkers
<1> QED BY <1>1 DEF Runtime!Init, HostInv, HostGateInv, HostStepInv, HostWholeInv, HostCallsInv, Runtime!Running, Runtime!Idle, HostInside

\* Steps of the workers and of the broker.
LEMMA HostFrameStep ==
    ASSUME HostInv, readers' = readers, writer' = writer, available' \in BOOLEAN, available' => available, shuttingDown' \in BOOLEAN,
           resetRequired' = resetRequired, incarnation' = incarnation, created' = created, backend' = backend,
           started' = started, owned' \subseteq owned, task' = task, caller' = caller
    PROVE  HostInv'
<1>1. HostTypes' BY DEF HostInv, HostTypes
<1>2. HostGateInv' BY DEF HostInv, HostGateInv
<1>3. HostStepInv' BY DEF HostInv, HostStepInv
<1>4. HostWholeInv' BY DEF HostInv, HostWholeInv
<1>5. HostCallsInv' BY DEF HostInv, HostCallsInv, Runtime!Running
<1> QED BY <1>1, <1>2, <1>3, <1>4, <1>5 DEF HostInv

\* An operation is asked for: it waits.
LEMMA HostRequestStep ==
    ASSUME HostInv, NEW t \in Runtime!Tasks, NEW op \in {"start", "attach", "stop", "reset", "apply"},
           NEW f \in Fixtures \cup {Runtime!None}, Runtime!Request(t, op, f),
           readers' = readers, writer' = writer, shuttingDown' = shuttingDown, resetRequired' = resetRequired,
           incarnation' = incarnation, created' = created, backend' = backend,
           started' = started, owned' = owned, caller' = caller
    PROVE  HostInv'
<1>1. /\ task[t].pc \in {"idle", "done"}
      /\ task' = [task EXCEPT ![t] = [Runtime!Idle EXCEPT !.op = op, !.pc = "gate", !.fixture = f]]
      /\ available' \in BOOLEAN /\ (available' => available)
  BY DEF Runtime!Request, HostInv, HostTypes
<1>2. [Runtime!Idle EXCEPT !.op = op, !.pc = "gate", !.fixture = f] \in HostDoing
  BY DEF Runtime!Idle, HostDoing
<1>3. task'[t].pc = "gate" /\ task'[t].op = op /\ op # Runtime!None /\ \A u \in Runtime!Tasks : u # t => task'[u] = task[u]
  BY <1>1 DEF HostInv, HostTypes, Runtime!Idle, Runtime!None
<1>4. HostTypes' BY <1>1, <1>2 DEF HostInv, HostTypes
<1>5. HostGateInv' BY <1>3 DEF HostInv, HostGateInv, HostInside
<1>6. HostStepInv' BY <1>3 DEF HostInv, HostStepInv, HostInside
<1>7. HostWholeInv' BY <1>1, <1>3 DEF HostInv, HostWholeInv
<1>8. HostCallsInv' BY DEF HostInv, HostCallsInv, Runtime!Running
<1> QED BY <1>4, <1>5, <1>6, <1>7, <1>8 DEF HostInv

LEMMA HostGrantStep == ASSUME HostInv, Runtime!Grant PROVE HostInv'
<1>1. /\ writer = Runtime!None
      /\ \/ \E c \in Invokers : readers' = readers \cup {c} /\ writer' = writer
         \/ \E t \in Runtime!Tasks : readers = {} /\ writer' = t /\ readers' = readers
  BY DEF Runtime!Grant
<1>2. \A t \in Runtime!Tasks : task[t].pc \notin HostInside
  BY <1>1, RuntimeAssumption DEF Runtime!HostAssumption, HostInv, HostGateInv
<1>3. /\ UNCHANGED <<available, shuttingDown, resetRequired, incarnation, created, backend, started, owned, task, caller>>
  BY DEF Runtime!Grant, Runtime!flags, Runtime!broker, Runtime!group
<1>4. HostTypes' BY <1>1, <1>3 DEF HostInv, HostTypes
<1>5. HostGateInv' BY <1>1, <1>2, <1>3 DEF HostInv, HostGateInv
<1>6. HostStepInv' BY <1>3 DEF HostInv, HostStepInv
<1>7. HostWholeInv' BY <1>3 DEF HostInv, HostWholeInv
<1>8. HostCallsInv' BY <1>3 DEF HostInv, HostCallsInv, Runtime!Running
<1> QED BY <1>4, <1>5, <1>6, <1>7, <1>8 DEF HostInv

\* Without anybody inside, an open runtime is whole.
LEMMA HostOpenIsWhole ==
    ASSUME HostInv, NEW c \in readers, available
    PROVE  ~resetRequired /\ backend = incarnation
<1>1. writer = Runtime!None BY DEF HostInv, HostGateInv
<1>2. \A t \in Runtime!Tasks : task[t].pc \notin HostInside BY <1>1, RuntimeAssumption DEF Runtime!HostAssumption, HostInv, HostGateInv
<1> QED BY <1>2 DEF HostInv, HostWholeInv, HostInside

LEMMA HostCallerStep ==
    ASSUME HostInv, NEW c \in Invokers, Runtime!Invoke(c) \/ Runtime!Begin(c) \/ Runtime!End(c)
    PROVE  HostInv'
<1>1. UNCHANGED <<available, shuttingDown, resetRequired, incarnation, created, backend, started, owned, task>>
  BY DEF Runtime!Invoke, Runtime!Begin, Runtime!End, Runtime!flags, Runtime!broker, Runtime!group
<1>2. PICK x \in HostCalling : /\ caller' = [caller EXCEPT ![c] = x]
                               /\ x.pc = "running" => c \in readers /\ x.on = incarnation /\ ~resetRequired
                               /\ \/ readers' = readers
                                  \/ readers' = readers \ {c} /\ x.pc # "running"
  <2>1. CASE Runtime!Invoke(c)
    BY <2>1 DEF Runtime!Invoke, Runtime!Answer, HostCalling
  <2>2. CASE Runtime!Begin(c)
    <3>1. CASE Runtime!Admitted
      BY <2>2, <3>1, HostOpenIsWhole DEF Runtime!Begin, Runtime!Admitted, HostCalling, Runtime!gate, HostInv, HostTypes
    <3>2. CASE ~Runtime!Admitted
      BY <2>2, <3>2 DEF Runtime!Begin, Runtime!Answer, Runtime!Release, HostCalling
    <3> QED BY <3>1, <3>2
  <2>3. CASE Runtime!End(c)
    <3>1. [pc |-> "done", on |-> 0] \in HostCalling BY DEF HostCalling
    <3> QED BY <2>3, <3>1 DEF Runtime!End, Runtime!Answer, Runtime!Release
  <2> QED BY <2>1, <2>2, <2>3
<1>3. writer' = writer
  <2>1. writer = c => c = Runtime!None
    BY RuntimeAssumption DEF Runtime!HostAssumption, HostInv, HostTypes
  <2> QED BY <2>1 DEF Runtime!Invoke, Runtime!Begin, Runtime!End, Runtime!Release, Runtime!gate
<1>4. \A d \in Invokers : caller'[d] = IF d = c THEN x ELSE caller[d]
  BY <1>2 DEF HostInv, HostTypes
<1>5. HostTypes' BY <1>1, <1>2, <1>3 DEF HostInv, HostTypes
<1>6. HostGateInv' BY <1>1, <1>2, <1>3, <1>4 DEF HostInv, HostGateInv
<1>7. HostStepInv' BY <1>1 DEF HostInv, HostStepInv
<1>8. HostWholeInv' BY <1>1 DEF HostInv, HostWholeInv
<1>9. HostCallsInv' BY <1>1, <1>2, <1>4 DEF HostInv, HostCallsInv, Runtime!Running
<1> QED BY <1>5, <1>6, <1>7, <1>8, <1>9 DEF HostInv

\* The task that holds the gate moves on, or ends and lets go of it.
LEMMA HostMoveStep ==
    ASSUME HostInv, NEW t \in Runtime!Tasks, writer = t, NEW x \in HostDoing, task' = [task EXCEPT ![t] = x],
           \/ readers' = readers /\ writer' = writer
           \/ readers' = readers \ {t} /\ writer' = Runtime!None /\ x.pc \notin HostInside,
           available' \in BOOLEAN, shuttingDown' = shuttingDown, resetRequired' \in BOOLEAN,
           incarnation' \in Nat, created' \in Nat, backend' \in Nat, started' \in Nat, owned' \subseteq HostWorkers,
           caller' = caller,
           x.pc # "gate",
           x.pc \in {"clear", "delete", "provision", "replace", "flag"} => x.op = "reset",
           x.pc \in {"extend", "apply"} => x.op \in {"reset", "apply"},
           x.pc \in {"close", "take", "join"} => x.op \in {"stop", "attach", "reset"},
           x.pc \in {"check", "prepare"} => x.op \in {"start", "attach", "reset"},
           x.pc \in HostInside /\ x.op = "reset" => resetRequired',
           x.pc \in HostInside /\ x.op \in {"start", "attach"} => ~resetRequired',
           x.pc \in {"extend", "apply", "check", "prepare", "flag"} /\ x.op = "reset" => backend' = incarnation',
           ~resetRequired' => backend' = incarnation',
           available' /\ resetRequired' => x.pc \in {"close", "flag"} /\ x.op = "reset"
    PROVE  HostInv'
<1>1. readers = {} /\ t # Runtime!None
  BY RuntimeAssumption DEF Runtime!HostAssumption, HostInv, HostGateInv
<1>2. \A u \in Runtime!Tasks : u # t => task[u].pc \notin HostInside /\ task'[u] = task[u]
  BY DEF HostInv, HostGateInv, HostTypes
<1>3. task'[t] = x
  BY DEF HostInv, HostTypes
<1>4. \A c \in Invokers : caller[c].pc # "running"
  BY <1>1 DEF HostInv, HostGateInv
<1>5. HostTypes' BY <1>1 DEF HostInv, HostTypes
<1>6. HostGateInv' BY <1>1, <1>2, <1>3, <1>4 DEF HostGateInv
<1>7. HostStepInv'
  <2> SUFFICES ASSUME NEW u \in Runtime!Tasks
      PROVE /\ task'[u].pc = "gate" => task'[u].op # Runtime!None
            /\ task'[u].pc \in {"clear", "delete", "provision", "replace", "flag"} => task'[u].op = "reset"
            /\ task'[u].pc \in {"extend", "apply"} => task'[u].op \in {"reset", "apply"}
            /\ task'[u].pc \in {"close", "take", "join"} => task'[u].op \in {"stop", "attach", "reset"}
            /\ task'[u].pc \in {"check", "prepare"} => task'[u].op \in {"start", "attach", "reset"}
            /\ task'[u].pc \in HostInside /\ task'[u].op = "reset" => resetRequired'
            /\ task'[u].pc \in HostInside /\ task'[u].op \in {"start", "attach"} => ~resetRequired'
            /\ task'[u].pc \in {"extend", "apply", "check", "prepare", "flag"} /\ task'[u].op = "reset" => backend' = incarnation'
    BY DEF HostStepInv
  <2>1. CASE u = t BY <2>1, <1>3
  <2>2. CASE u # t BY <2>2, <1>2 DEF HostInside, HostInv, HostStepInv
  <2> QED BY <2>1, <2>2
<1>8. HostWholeInv' BY <1>3 DEF HostWholeInv
<1>9. HostCallsInv' BY <1>4 DEF HostCallsInv, Runtime!Running
<1> QED BY <1>5, <1>6, <1>7, <1>8, <1>9 DEF HostInv

LEMMA HostFinishStep ==
    ASSUME HostInv, NEW t \in Runtime!Tasks, writer = t, NEW ok \in BOOLEAN, Runtime!Finish(t, ok),
           available' \in BOOLEAN, shuttingDown' = shuttingDown, resetRequired' \in BOOLEAN,
           incarnation' = incarnation, created' = created, backend' = backend, started' \in Nat, owned' \subseteq HostWorkers,
           caller' = caller,
           ~resetRequired' => backend = incarnation,
           ~(available' /\ resetRequired')
    PROVE  HostInv'
<1>1. PICK x : x = [Runtime!Idle EXCEPT !.pc = "done", !.ok = ok] OBVIOUS
<1>2. x \in HostDoing /\ x.pc = "done" BY <1>1 DEF Runtime!Idle, HostDoing
<1>3. task' = [task EXCEPT ![t] = x] /\ readers' = readers \ {t} /\ writer' = Runtime!None
  BY <1>1 DEF Runtime!Finish, Runtime!Release
<1>4. incarnation' \in Nat /\ created' \in Nat /\ backend' \in Nat BY DEF HostInv, HostTypes
<1> QED BY <1>2, <1>3, <1>4, HostMoveStep DEF HostInside

LEMMA HostGotoDoing ==
    ASSUME HostInv, NEW t \in Runtime!Tasks, NEW p \in HostInside, Runtime!Goto(t, p)
    PROVE  \E x \in HostDoing : task' = [task EXCEPT ![t] = x] /\ x.pc = p /\ x.op = task[t].op
<1>1. task[t] \in HostDoing BY DEF HostInv, HostTypes
<1>2. PICK x : x = [task[t] EXCEPT !.pc = p] OBVIOUS
<1>3. x \in HostDoing /\ x.pc = p /\ x.op = task[t].op BY <1>1, <1>2 DEF HostDoing
<1>4. task' = [task EXCEPT ![t] = x] BY <1>2 DEF Runtime!Goto, HostInv, HostTypes
<1> QED BY <1>3, <1>4

\* What holds of the task inside.
LEMMA HostInsideStep ==
    ASSUME HostInv, NEW t \in Runtime!Tasks, task[t].pc \in HostInside
    PROVE  /\ writer = t
           /\ available /\ resetRequired => task[t].pc \in {"close", "flag"} /\ task[t].op = "reset"
<1>1. writer = t BY DEF HostInv, HostGateInv
<1>2. \A u \in Runtime!Tasks : task[u].pc \in HostInside => u = t BY <1>1 DEF HostInv, HostGateInv
<1> QED BY <1>1, <1>2 DEF HostInv, HostWholeInv, HostInside

LEMMA HostEnterStep == ASSUME HostInv, NEW t \in Runtime!Tasks, Runtime!Enter(t) PROVE HostInv'
<1>1. /\ writer = t /\ task[t].pc = "gate"
      /\ UNCHANGED <<available, shuttingDown, incarnation, created, backend, started, owned, caller>>
  BY DEF Runtime!Enter, Runtime!Pc, Runtime!broker, Runtime!group
<1>2. \A u \in Runtime!Tasks : task[u].pc \notin HostInside
  BY <1>1 DEF HostInv, HostGateInv, HostInside
<1>3. available /\ resetRequired => FALSE
  BY <1>2 DEF HostInv, HostWholeInv, HostInside
<1>4. CASE task[t].op \in {"start", "attach"} /\ resetRequired
  <2>1. Runtime!Finish(t, FALSE) /\ resetRequired' = resetRequired
    BY <1>4 DEF Runtime!Enter
  <2> QED BY <1>1, <1>3, <2>1, HostFinishStep DEF HostInv, HostTypes, HostWholeInv
<1>5. CASE ~(task[t].op \in {"start", "attach"} /\ resetRequired)
  <2>1. PICK p \in {"extend", "check", "close"} :
           /\ Runtime!Goto(t, p)
           /\ p = IF task[t].op = "apply" THEN "extend" ELSE IF task[t].op = "start" THEN "check" ELSE "close"
           /\ resetRequired' = (resetRequired \/ task[t].op = "reset")
           /\ readers' = readers /\ writer' = writer
    BY <1>5 DEF Runtime!Enter, Runtime!gate
  <2>2. PICK x \in HostDoing : task' = [task EXCEPT ![t] = x] /\ x.pc = p /\ x.op = task[t].op
    BY <2>1, HostGotoDoing DEF HostInside
  <2>3. task[t].op \in {Runtime!None, "start", "attach", "stop", "reset", "apply"}
    BY DEF HostInv, HostTypes, HostDoing
  <2>4. task[t].op # Runtime!None
    BY <1>1 DEF HostInv, HostStepInv
  <2>5. /\ x.pc \in HostInside /\ x.op = "reset" => resetRequired'
        /\ x.pc \in HostInside /\ x.op \in {"start", "attach"} => ~resetRequired'
        /\ x.pc \in {"extend", "apply", "check", "prepare", "flag"} => x.op # "reset"
        /\ ~resetRequired' => backend' = incarnation'
        /\ available' /\ resetRequired' => x.pc \in {"close", "flag"} /\ x.op = "reset"
        /\ resetRequired' \in BOOLEAN
    BY <1>1, <1>3, <1>5, <2>1, <2>2, <2>3 DEF HostInv, HostTypes, HostWholeInv
  <2>6. /\ x.pc \in {"extend", "apply"} => x.op \in {"reset", "apply"}
        /\ x.pc \in {"close", "take", "join"} => x.op \in {"stop", "attach", "reset"}
        /\ x.pc \in {"check", "prepare"} => x.op \in {"start", "attach", "reset"}
        /\ x.pc \notin {"clear", "delete", "provision", "replace", "flag"}
    BY <2>1, <2>2, <2>3, <2>4
  <2>7. /\ available' \in BOOLEAN /\ incarnation' \in Nat /\ created' \in Nat /\ backend' \in Nat /\ started' \in Nat
        /\ owned' \subseteq HostWorkers /\ shuttingDown' = shuttingDown /\ caller' = caller
    BY <1>1 DEF HostInv, HostTypes
  <2> QED BY <1>1, <2>1, <2>2, <2>5, <2>6, <2>7, HostMoveStep
<1> QED BY <1>4, <1>5

\* A step inside that neither opens the runtime nor settles what a reset owes.
LEMMA HostProceedStep ==
    ASSUME HostInv, NEW t \in Runtime!Tasks, task[t].pc \in HostInside, NEW p \in HostInside, NEW x \in HostDoing,
           task' = [task EXCEPT ![t] = x], x.pc = p, x.op = task[t].op,
           readers' = readers, writer' = writer, shuttingDown' = shuttingDown, resetRequired' = resetRequired,
           started' = started, caller' = caller, owned' \subseteq HostWorkers,
           available' \in BOOLEAN, available' => available /\ task[t].pc # "close",
           incarnation' \in Nat, created' \in Nat, backend' \in Nat,
           resetRequired \/ backend' = incarnation',
           p \in {"clear", "delete", "provision", "replace"} => x.op = "reset",
           p \in {"extend", "apply"} => x.op \in {"reset", "apply"},
           p \in {"close", "take", "join"} => x.op \in {"stop", "attach", "reset"},
           p \in {"check", "prepare"} => x.op \in {"start", "attach", "reset"},
           p \in {"extend", "apply", "check", "prepare"} /\ x.op = "reset" => backend' = incarnation',
           p # "flag", task[t].pc # "flag"
    PROVE  HostInv'
<1>1. writer = t /\ (available /\ resetRequired => task[t].pc \in {"close", "flag"})
  BY HostInsideStep
<1>2. /\ task[t].op = "reset" => resetRequired
      /\ task[t].op \in {"start", "attach"} => ~resetRequired
      /\ resetRequired \in BOOLEAN /\ started \in Nat
      /\ x.pc # "gate"
  BY DEF HostInv, HostStepInv, HostTypes, HostInside
<1> QED BY <1>1, <1>2, HostMoveStep

LEMMA HostStopStep ==
    ASSUME HostInv, NEW t \in Runtime!Tasks, Runtime!Close(t) \/ Runtime!Take(t) \/ Runtime!Join(t)
    PROVE  HostInv'
<1> USE DEF Runtime!Pc
<1>1. /\ task[t].pc \in {"close", "take", "join"} /\ task[t].pc \in HostInside
      /\ UNCHANGED <<shuttingDown, resetRequired, incarnation, created, backend, started, caller>>
  BY DEF Runtime!Close, Runtime!Take, Runtime!Join, HostInside, Runtime!flags, Runtime!broker, Runtime!group
<1>2. /\ available \in BOOLEAN /\ incarnation \in Nat /\ created \in Nat /\ backend \in Nat /\ owned \subseteq HostWorkers
      /\ resetRequired \/ backend = incarnation
      /\ task[t].op \in {"stop", "attach", "reset"} /\ task[t] \in HostDoing /\ task \in [Runtime!Tasks -> HostDoing]
  BY <1>1 DEF HostInv, HostTypes, HostWholeInv, HostStepInv
<1>3. CASE Runtime!Close(t)
  <2>1. Runtime!Goto(t, "take") /\ "take" \in HostInside BY <1>3 DEF Runtime!Close, HostInside
  <2>2. PICK x \in HostDoing : task' = [task EXCEPT ![t] = x] /\ x.pc = "take" /\ x.op = task[t].op
    BY <2>1, HostGotoDoing
  <2>3. available' = FALSE /\ readers' = readers /\ writer' = writer /\ owned' = owned
    BY <1>3 DEF Runtime!Close, Runtime!gate, Runtime!group
  <2> QED BY <1>1, <1>2, <1>3, <2>1, <2>2, <2>3, HostProceedStep DEF Runtime!Close
<1>4. CASE Runtime!Take(t)
  <2>1. PICK x : x = [task[t] EXCEPT !.pc = "join", !.joining = owned] OBVIOUS
  <2>2. x \in HostDoing /\ x.pc = "join" /\ x.op = task[t].op
    BY <1>2, <2>1 DEF HostDoing, HostInside
  <2>3. task' = [task EXCEPT ![t] = x]
    BY <1>2, <1>4, <2>1 DEF Runtime!Take
  <2>4. owned' = {} /\ available' = available /\ readers' = readers /\ writer' = writer /\ task[t].pc = "take"
    BY <1>4 DEF Runtime!Take, Runtime!gate, Runtime!flags
  <2>5. "join" \in HostInside BY DEF HostInside
  <2> QED BY <1>1, <1>2, <2>2, <2>3, <2>4, <2>5, HostProceedStep
<1>5. CASE Runtime!Join(t)
  <2>1. task[t].pc = "join" /\ owned' = owned /\ available' = available
    BY <1>5 DEF Runtime!Join, Runtime!flags, Runtime!group
  <2>2. CASE task[t].op = "stop"
    <3>1. Runtime!Finish(t, TRUE) BY <1>5, <2>2 DEF Runtime!Join
    <3>2. writer = t /\ ~(available /\ resetRequired) BY <1>1, <2>1, HostInsideStep
    <3> QED BY <1>1, <1>2, <2>1, <3>1, <3>2, HostFinishStep DEF HostInv, HostTypes
  <2>3. CASE task[t].op \in {"attach", "reset"}
    <3>1. PICK p \in {"check", "clear"} : Runtime!Goto(t, p) /\ readers' = readers /\ writer' = writer
                                          /\ p = IF task[t].op = "attach" THEN "check" ELSE "clear"
      BY <1>5, <2>3 DEF Runtime!Join, Runtime!gate
    <3>2. p \in HostInside BY <3>1 DEF HostInside
    <3>3. PICK x \in HostDoing : task' = [task EXCEPT ![t] = x] /\ x.pc = p /\ x.op = task[t].op
      BY <3>1, <3>2, HostGotoDoing
    <3> QED BY <1>1, <1>2, <2>1, <2>3, <3>1, <3>2, <3>3, HostProceedStep
  <2> QED BY <1>2, <2>2, <2>3
<1> QED BY <1>3, <1>4, <1>5

LEMMA HostResetStep ==
    ASSUME HostInv, NEW t \in Runtime!Tasks, Runtime!Clear(t) \/ Runtime!Delete(t) \/ Runtime!Provision(t) \/ Runtime!Replace(t)
    PROVE  HostInv'
<1> USE DEF Runtime!Pc
<1>1. /\ task[t].pc \in {"clear", "delete", "provision", "replace"} /\ task[t].pc \in HostInside
      /\ UNCHANGED <<readers, writer, available, shuttingDown, resetRequired, started, owned, caller>>
  BY DEF Runtime!Clear, Runtime!Delete, Runtime!Provision, Runtime!Replace, HostInside, Runtime!gate, Runtime!flags, Runtime!broker, Runtime!group
<1>2. /\ available \in BOOLEAN /\ incarnation \in Nat /\ created \in Nat /\ backend \in Nat /\ owned \subseteq HostWorkers
      /\ task[t].op = "reset" /\ resetRequired
  BY <1>1 DEF HostInv, HostTypes, HostStepInv
<1>3. PICK p \in {"delete", "provision", "replace", "extend"} :
        /\ Runtime!Goto(t, p)
        /\ incarnation' \in Nat /\ created' \in Nat /\ backend' \in Nat
        /\ p = "extend" => backend' = incarnation'
  BY <1>2 DEF Runtime!Clear, Runtime!Delete, Runtime!Provision, Runtime!Replace, Runtime!broker
<1>4. p \in HostInside BY <1>3 DEF HostInside
<1>5. PICK x \in HostDoing : task' = [task EXCEPT ![t] = x] /\ x.pc = p /\ x.op = task[t].op
  BY <1>3, <1>4, HostGotoDoing
<1> QED BY <1>1, <1>2, <1>3, <1>4, <1>5, HostProceedStep

\* Where nobody is inside, or only a task that is not about to close or to settle.
LEMMA HostClosedStep ==
    ASSUME HostInv, NEW t \in Runtime!Tasks, task[t].pc \in HostInside \ {"close", "flag"}
    PROVE  writer = t /\ ~(available /\ resetRequired)
BY HostInsideStep

LEMMA HostApplyStep ==
    ASSUME HostInv, NEW t \in Runtime!Tasks, Runtime!Extend(t) \/ Runtime!Apply(t) \/ Runtime!ApplyFails(t)
    PROVE  HostInv'
<1> USE DEF Runtime!Pc
<1>1. /\ task[t].pc \in {"extend", "apply"} /\ task[t].pc \in HostInside \ {"close", "flag"}
      /\ UNCHANGED <<available, shuttingDown, resetRequired, incarnation, created, backend, started, owned, caller>>
  BY DEF Runtime!Extend, Runtime!Apply, Runtime!ApplyFails, HostInside, Runtime!flags, Runtime!broker, Runtime!group
<1>2. /\ available \in BOOLEAN /\ incarnation \in Nat /\ created \in Nat /\ backend \in Nat /\ owned \subseteq HostWorkers
      /\ started \in Nat /\ resetRequired \in BOOLEAN
      /\ resetRequired \/ backend = incarnation
      /\ task[t].op \in {"reset", "apply"} /\ (task[t].op = "reset" => backend = incarnation)
  BY <1>1 DEF HostInv, HostTypes, HostWholeInv, HostStepInv
<1>3. CASE \E ok \in BOOLEAN : Runtime!Finish(t, ok)
  <2>1. PICK ok \in BOOLEAN : Runtime!Finish(t, ok) BY <1>3
  <2> QED BY <1>1, <1>2, <2>1, HostClosedStep, HostFinishStep
<1>4. CASE ~\E ok \in BOOLEAN : Runtime!Finish(t, ok)
  <2>1. PICK p \in {"apply", "check"} : Runtime!Goto(t, p) /\ readers' = readers /\ writer' = writer
                                        /\ (p = "check" => task[t].op = "reset")
    BY <1>4 DEF Runtime!Extend, Runtime!Apply, Runtime!ApplyFails, Runtime!gate
  <2>2. p \in HostInside BY <2>1 DEF HostInside
  <2>3. PICK x \in HostDoing : task' = [task EXCEPT ![t] = x] /\ x.pc = p /\ x.op = task[t].op
    BY <2>1, <2>2, HostGotoDoing
  <2> QED BY <1>1, <1>2, <2>1, <2>2, <2>3, HostProceedStep
<1> QED BY <1>3, <1>4

LEMMA HostCheckStep == ASSUME HostInv, NEW t \in Runtime!Tasks, Runtime!Check(t) PROVE HostInv'
<1> USE DEF Runtime!Pc
<1>1. /\ task[t].pc = "check" /\ task[t].pc \in HostInside \ {"close", "flag"}
      /\ UNCHANGED <<available, shuttingDown, resetRequired, incarnation, created, backend, started, owned, caller>>
  BY DEF Runtime!Check, HostInside, Runtime!flags, Runtime!broker, Runtime!group
<1>2. /\ available \in BOOLEAN /\ incarnation \in Nat /\ created \in Nat /\ backend \in Nat /\ owned \subseteq HostWorkers
      /\ started \in Nat /\ resetRequired \in BOOLEAN
      /\ resetRequired \/ backend = incarnation
      /\ task[t].op \in {"start", "attach", "reset"} /\ (task[t].op = "reset" => backend = incarnation)
  BY <1>1 DEF HostInv, HostTypes, HostWholeInv, HostStepInv
<1>3. CASE \E ok \in BOOLEAN : Runtime!Finish(t, ok)
  <2>1. PICK ok \in BOOLEAN : Runtime!Finish(t, ok) BY <1>3
  <2> QED BY <1>1, <1>2, <2>1, HostClosedStep, HostFinishStep
<1>4. CASE ~\E ok \in BOOLEAN : Runtime!Finish(t, ok)
  <2>1. (\A w \in owned : ~Runtime!Finished(w)) \in BOOLEAN OBVIOUS
  <2>2. Runtime!Goto(t, "prepare") /\ readers' = readers /\ writer' = writer
    BY <1>4, <2>1 DEF Runtime!Check, Runtime!gate
  <2>3. "prepare" \in HostInside BY DEF HostInside
  <2>4. PICK x \in HostDoing : task' = [task EXCEPT ![t] = x] /\ x.pc = "prepare" /\ x.op = task[t].op
    BY <2>2, <2>3, HostGotoDoing
  <2> QED BY <1>1, <1>2, <2>2, <2>3, <2>4, HostProceedStep
<1> QED BY <1>3, <1>4

LEMMA HostSpawnStep == ASSUME HostInv, NEW t \in Runtime!Tasks, Runtime!Spawn(t) PROVE HostInv'
<1> USE DEF Runtime!Pc
<1>1. /\ task[t].pc = "prepare" /\ task[t].pc \in HostInside \ {"close", "flag"}
      /\ UNCHANGED <<shuttingDown, resetRequired, incarnation, created, backend, caller>>
      /\ started < MaxStarts /\ started' = started + 1 /\ available' = TRUE /\ owned' = {started + 1} \X Runtime!Kinds
  BY DEF Runtime!Spawn, HostInside, Runtime!broker
<1>2. /\ incarnation \in Nat /\ created \in Nat /\ backend \in Nat
      /\ started \in Nat /\ resetRequired \in BOOLEAN
      /\ resetRequired \/ backend = incarnation
      /\ task[t].op \in {"start", "attach", "reset"}
      /\ (task[t].op = "reset" => backend = incarnation /\ resetRequired)
      /\ (task[t].op # "reset" => ~resetRequired)
      /\ writer = t
  BY <1>1, HostClosedStep DEF HostInv, HostTypes, HostWholeInv, HostStepInv
<1>3. started' \in Nat /\ owned' \subseteq HostWorkers
  BY <1>1, <1>2, RuntimeAssumption DEF HostWorkers, Runtime!Groups, Runtime!HostAssumption
<1>4. CASE task[t].op = "reset"
  <2>1. Runtime!Goto(t, "flag") /\ readers' = readers /\ writer' = writer
    BY <1>4 DEF Runtime!Spawn, Runtime!gate
  <2>2. PICK x \in HostDoing : task' = [task EXCEPT ![t] = x] /\ x.pc = "flag" /\ x.op = task[t].op
    BY <2>1, HostGotoDoing DEF HostInside
  <2> QED BY <1>1, <1>2, <1>3, <1>4, <2>1, <2>2, HostMoveStep DEF HostInside
<1>5. CASE task[t].op # "reset"
  <2>1. Runtime!Finish(t, TRUE) BY <1>5 DEF Runtime!Spawn
  <2> QED BY <1>1, <1>2, <1>3, <1>5, <2>1, HostFinishStep
<1> QED BY <1>4, <1>5

LEMMA HostFlagStep == ASSUME HostInv, NEW t \in Runtime!Tasks, Runtime!Flag(t) PROVE HostInv'
<1> USE DEF Runtime!Pc
<1>1. /\ task[t].pc = "flag" /\ task[t].pc \in HostInside /\ Runtime!Finish(t, TRUE) /\ resetRequired' = FALSE
      /\ UNCHANGED <<available, shuttingDown, incarnation, created, backend, started, owned, caller>>
  BY DEF Runtime!Flag, HostInside, Runtime!broker, Runtime!group
<1>2. writer = t /\ backend = incarnation /\ available \in BOOLEAN /\ started \in Nat /\ owned \subseteq HostWorkers
  BY <1>1, HostInsideStep DEF HostInv, HostStepInv, HostTypes
<1> QED BY <1>1, <1>2, HostFinishStep

LEMMA HostFailStep == ASSUME HostInv, NEW t \in Runtime!Tasks, Runtime!Fail(t) PROVE HostInv'
<1>1. /\ Runtime!Finish(t, FALSE)
      /\ UNCHANGED <<available, shuttingDown, resetRequired, incarnation, created, backend, started, owned, caller>>
      /\ task[t].pc \in {"delete", "provision", "replace", "prepare", "gate", "join"}
  BY DEF Runtime!Fail, Runtime!flags, Runtime!broker, Runtime!group
<1>2. /\ available \in BOOLEAN /\ started \in Nat /\ owned \subseteq HostWorkers /\ resetRequired \in BOOLEAN
      /\ ~resetRequired => backend = incarnation
  BY DEF HostInv, HostTypes, HostWholeInv
<1>3. CASE task[t].pc # "gate"
  <2>1. task[t].pc \in HostInside \ {"close", "flag"} BY <1>1, <1>3 DEF HostInside
  <2> QED BY <1>1, <1>2, <2>1, HostClosedStep, HostFinishStep
<1>4. CASE task[t].pc = "gate" /\ writer = t
  <2>1. \A u \in Runtime!Tasks : task[u].pc \notin HostInside BY <1>4 DEF HostInv, HostGateInv, HostInside
  <2>2. ~(available /\ resetRequired) BY <2>1 DEF HostInv, HostWholeInv, HostInside
  <2> QED BY <1>1, <1>2, <1>4, <2>2, HostFinishStep
<1>5. CASE task[t].pc = "gate" /\ writer # t
  <2>1. PICK x : x = [Runtime!Idle EXCEPT !.pc = "done", !.ok = FALSE] OBVIOUS
  <2>2. x \in HostDoing /\ x.pc = "done" BY <2>1 DEF Runtime!Idle, HostDoing
  <2>3. task' = [task EXCEPT ![t] = x] /\ readers' = readers /\ writer' = writer
    BY <1>1, <1>5, <2>1, RuntimeAssumption DEF Runtime!Finish, Runtime!Release, Runtime!HostAssumption, HostInv, HostTypes
  <2>4. task'[t] = x /\ \A u \in Runtime!Tasks : u # t => task'[u] = task[u]
    BY <2>3 DEF HostInv, HostTypes
  <2>5. HostTypes' BY <1>1, <2>2, <2>3 DEF HostInv, HostTypes
  <2>6. HostGateInv' BY <1>1, <2>2, <2>3, <2>4 DEF HostInv, HostGateInv, HostInside
  <2>7. HostStepInv' BY <1>1, <2>2, <2>4 DEF HostInv, HostStepInv, HostInside
  <2>8. HostWholeInv' BY <1>1, <1>5, <2>4 DEF HostInv, HostWholeInv
  <2>9. HostCallsInv' BY <1>1 DEF HostInv, HostCallsInv, Runtime!Running
  <2> QED BY <2>5, <2>6, <2>7, <2>8, <2>9 DEF HostInv
<1> QED BY <1>3, <1>4, <1>5

LEMMA HostAppStep ==
    ASSUME HostInv, Runtime!Booted \/ Runtime!Report \/ Runtime!BeginShutdown \/ Runtime!Drain \/ Runtime!Ended
    PROVE  HostInv'
<1> USE DEF Runtime!Pc
<1>0. Runtime!Host \in Runtime!Tasks BY DEF Runtime!Tasks
<1>1. CASE Runtime!Booted
  <2>1. UNCHANGED <<readers, writer, shuttingDown, resetRequired, incarnation, created, backend, started, owned, caller>>
    BY <1>1 DEF Runtime!Booted, Runtime!broker, Runtime!group
  <2>2. CASE \E op \in {"stop", "attach"} : Runtime!Request(Runtime!Host, op, Runtime!None)
    BY <1>0, <2>1, <2>2, HostRequestStep
  <2>3. CASE UNCHANGED <<task, queue, available>>
    BY <2>1, <2>3, HostFrameStep DEF HostInv, HostTypes
  <2> QED BY <1>1, <2>2, <2>3 DEF Runtime!Booted
<1>2. CASE Runtime!Drain
  <2>1. UNCHANGED <<readers, writer, shuttingDown, resetRequired, incarnation, created, backend, started, owned, caller>>
    BY <1>2 DEF Runtime!Drain, Runtime!broker, Runtime!group
  <2> QED BY <1>0, <1>2, <2>1, HostRequestStep DEF Runtime!Drain
<1>3. CASE Runtime!Report \/ Runtime!BeginShutdown \/ Runtime!Ended
  <2>1. /\ UNCHANGED <<readers, writer, resetRequired, incarnation, created, backend, started, owned, task, caller>>
        /\ available' = FALSE /\ shuttingDown' \in BOOLEAN
    BY <1>3 DEF Runtime!Report, Runtime!BeginShutdown, Runtime!Ended, Runtime!gate, Runtime!broker, Runtime!group, HostInv, HostTypes
  <2> QED BY <2>1, HostFrameStep
<1> QED BY <1>1, <1>2, <1>3

\* Under any interleaving of invocations, starts, stops, resets, fixtures, failures at
\* every await and a shutdown, an invocation runs only on streams that were reset
\* completely, for any number of callers and administrative tasks.
THEOREM InvocationsOnWhole == Runtime!Spec => []InvokedOnWhole
<1>1. HostInv /\ [Runtime!Next]_(Runtime!vars) => HostInv'
  <2> SUFFICES ASSUME HostInv, [Runtime!Next]_(Runtime!vars) PROVE HostInv'
    OBVIOUS
  <2>1. CASE UNCHANGED Runtime!vars
    BY <2>1, HostFrameStep DEF Runtime!vars, Runtime!gate, Runtime!flags, Runtime!broker, Runtime!group, HostInv, HostTypes
  <2>2. CASE Runtime!Grant BY <2>2, HostGrantStep
  <2>3. ASSUME NEW c \in Invokers, Runtime!Invoke(c) \/ Runtime!Begin(c) \/ Runtime!End(c) PROVE HostInv'
    BY <2>3, HostCallerStep
  <2>4. ASSUME NEW t \in Admins, NEW op \in Ops, NEW f \in Fixtures \cup {Runtime!None}, Runtime!Call(t, op, f) PROVE HostInv'
    <3>1. UNCHANGED <<readers, writer, shuttingDown, resetRequired, incarnation, created, backend, started, owned, caller>>
      BY <2>4 DEF Runtime!Call, Runtime!broker, Runtime!group
    <3>2. t \in Runtime!Tasks /\ op \in {"start", "attach", "stop", "reset", "apply"} BY RuntimeAssumption DEF Runtime!HostAssumption, Runtime!Tasks
    <3> QED BY <2>4, <3>1, <3>2, HostRequestStep DEF Runtime!Call
  <2>5. ASSUME NEW t \in Runtime!Tasks, Runtime!TaskStep(t) \/ Runtime!ApplyFails(t) \/ Runtime!Fail(t) PROVE HostInv'
    BY <2>5, HostEnterStep, HostStopStep, HostResetStep, HostApplyStep, HostCheckStep, HostSpawnStep, HostFlagStep, HostFailStep DEF Runtime!TaskStep
  <2>6. ASSUME NEW w \in DOMAIN state, Runtime!Work(w) PROVE HostInv'
    <3>1. /\ UNCHANGED <<readers, writer, available, shuttingDown, resetRequired, incarnation, created, backend, started, task, caller>>
          /\ owned' \subseteq owned
      BY <2>6 DEF Runtime!Work, Runtime!Exit, Runtime!Publish, Runtime!AbortEnds, Runtime!Reap, Runtime!Deliver, Runtime!Commit, Runtime!gate, Runtime!flags, Runtime!broker, Runtime!group
    <3> QED BY <3>1, HostFrameStep DEF HostInv, HostTypes
  <2>7. ASSUME NEW op \in {"start", "reset"}, NEW f \in Fixtures \cup {Runtime!None}, Runtime!Boot(op, f) PROVE HostInv'
    <3>1. UNCHANGED <<readers, writer, shuttingDown, resetRequired, incarnation, created, backend, started, owned, caller>>
      BY <2>7 DEF Runtime!Boot, Runtime!broker, Runtime!group
    <3>2. Runtime!Host \in Runtime!Tasks BY DEF Runtime!Tasks
    <3> QED BY <2>7, <3>1, <3>2, HostRequestStep DEF Runtime!Boot
  <2>8. CASE Runtime!Booted \/ Runtime!Report \/ Runtime!BeginShutdown \/ Runtime!Drain \/ Runtime!Ended BY <2>8, HostAppStep
  <2> QED BY <2>1, <2>2, <2>3, <2>4, <2>5, <2>6, <2>7, <2>8 DEF Runtime!Next
<1>2. HostInv => InvokedOnWhole
  BY DEF HostInv, HostTypes, HostCallsInv, InvokedOnWhole, Runtime!InvokedOnWhole
<1> QED BY HostInitStep, <1>1, <1>2, PTL DEF Runtime!Spec
===============================================================================
