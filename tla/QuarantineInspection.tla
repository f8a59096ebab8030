-------------------------- MODULE QuarantineInspection --------------------------
(* Reading quarantined deliveries: clients list the retained records page by page *)
(* with a cursor, and open single records, while records arrive, expire, and the  *)
(* stream is deleted and recreated by a Test reset or by somebody else.  A request*)
(* takes a permit, waits for a reset to end (Test only), looks at the stream,     *)
(* reads, and looks again before it answers; every await is a step of its own.    *)
EXTENDS Naturals, Sequences, FiniteSets

CONSTANTS
    Scope,        \* "test" or "production"
    Clients,
    Records,      \* what may be quarantined: [kind, shape, size, content]
    Filters,      \* "all" or a kind
    Limit,        \* records of a page
    Budget,       \* PAGE_BYTE_BUDGET
    Permits,      \* concurrent requests of a scope
    MaxGen, MaxLen, MaxFaults   \* bounds of the model

BoundsAssumption ==
    /\ {Limit, Budget, Permits, MaxGen, MaxLen, MaxFaults} \subseteq Nat
    /\ Limit > 0

VARIABLES
    exists, stored, gone,   \* the stream: records of each creation, and those removed
    resetting,              \* whether a reset holds the scenario gate
    req,                    \* each client's request
    seen,                   \* each client's traversal so far, in order
    start,                  \* history: the stream as the traversal found it
    faults

broker == <<exists, stored, gone, resetting>>
vars == <<exists, stored, gone, resetting, req, seen, start, faults>>

None == [none |-> TRUE]
Idle == [pc |-> "idle", answer |-> "none", cursor |-> None, details |-> {}]
Gen == Len(stored)
Id(g, n) == [gen |-> g, number |-> n]
Last == Len(stored[Gen])
Retained == {n \in 1..Last : Id(Gen, n) \notin gone}
First == IF Retained = {} THEN Last + 1 ELSE CHOOSE n \in Retained : \A k \in Retained : n <= k

Init ==
    /\ exists = TRUE /\ stored = << << >> >> /\ gone = {}
    /\ resetting = FALSE
    /\ req = [c \in Clients |-> Idle]
    /\ seen = [c \in Clients |-> << >>]
    /\ start = [c \in Clients |-> [gen |-> 1, retained |-> {}, last |-> 0, filter |-> "all"]]
    /\ faults = 0

Fails == faults < MaxFaults /\ faults' = faults + 1

-----------------------------------------------------------------------------
(* What a record looks like to a reader. *)

\* An entry of a record: decoded, or a bounded prefix of what cannot be decoded.
Entry(id, r) ==
    [id |-> id, subject |-> r.kind,
     decoded |-> r.shape \notin {"oversize", "undecodable"},
     diagnostics |->
        CASE r.shape = "oversize" -> {"record-too-large"}
          [] r.shape = "undecodable" -> {"invalid-record"}
          [] r.shape = "misplaced" -> {"invalid-source-address"}
          [] r.shape = "garbled" -> {"invalid-payload-encoding"}
          [] r.shape = "truncated" -> {"payload-truncated"}
          [] OTHER -> {},
     truncated |-> r.shape \in {"oversize", "truncated"},
     record |-> r]

\* QuarantinePayload::redacted.
Redacted(p) ==
    [p EXCEPT !.status = "redacted", !.base64 = "absent", !.json = "absent", !.sha256 = "absent"]

PayloadView(e) ==
    LET status == IF e.truncated THEN "truncated"
                  ELSE IF e.record.shape = "garbled" THEN "invalid-base64"
                  ELSE IF e.decoded /\ e.record.shape # "binary" THEN "json"
                  ELSE "binary-or-invalid-json"
    IN [status |-> status, truncated |-> e.truncated, base64 |-> e.record.content,
        json |-> IF status = "json" THEN e.record.content ELSE "absent",
        size |-> IF e.decoded THEN e.record.size ELSE 0,
        sha256 |-> IF e.decoded THEN e.record.content ELSE "absent"]

\* The policy's default: content only within Test.
Visible(v) == IF Scope = "test" THEN v ELSE "absent"

Summary(e) ==
    [id |-> e.id, subject |-> e.subject, diagnostics |-> e.diagnostics, truncated |-> e.truncated,
     reason |-> IF e.decoded THEN Visible(e.record.content) ELSE "absent"]

Detail(e) ==
    [summary |-> Summary(e),
     metadata |-> IF e.decoded THEN Visible(e.record.content) ELSE "absent",
     payload |-> IF Scope = "test" THEN PayloadView(e) ELSE Redacted(PayloadView(e))]

-----------------------------------------------------------------------------
(* The stream. *)

Quarantine(r) ==
    /\ exists /\ Last < MaxLen
    /\ stored' = [stored EXCEPT ![Gen] = Append(@, r)]
    /\ UNCHANGED <<exists, gone, resetting, req, seen, start, faults>>

\* Retention or an operator removes a record.
Remove(n) ==
    /\ exists /\ n \in Retained /\ Fails
    /\ gone' = gone \cup {Id(Gen, n)}
    /\ UNCHANGED <<exists, stored, resetting, req, seen, start>>

\* Deleted, and created again, by a reset or by somebody else.
Delete == exists /\ exists' = FALSE /\ UNCHANGED <<stored, gone>>
Create ==
    /\ ~exists /\ Gen < MaxGen
    /\ exists' = TRUE
    /\ stored' = Append(stored, << >>)
    /\ UNCHANGED gone

Recreation ==
    /\ \/ Delete /\ resetting /\ UNCHANGED faults
       \/ Delete /\ ~resetting /\ Fails
       \/ Create /\ UNCHANGED faults
    /\ UNCHANGED <<resetting, req, seen, start>>

Reading == {c \in Clients : req[c].pc \in {"open", "read", "failing", "fetch", "verify"}}

\* A reset takes the gate when no Test inspection is inside it, and may fail half way.
ResetStarts ==
    /\ Scope = "test" /\ ~resetting /\ Reading = {}
    /\ Gen < MaxGen
    /\ resetting' = TRUE
    /\ UNCHANGED <<exists, stored, gone, req, seen, start, faults>>

ResetEnds ==
    /\ resetting
    /\ resetting' = FALSE
    /\ UNCHANGED <<exists, stored, gone, req, seen, start, faults>>

-----------------------------------------------------------------------------
(* Requests. *)

Active == {c \in Clients : req[c].pc # "idle"}

Answer(c, a) == req' = [req EXCEPT ![c] = [pc |-> "idle", answer |-> a, cursor |-> None,
                                           details |-> req[c].details]]

Admitted == Cardinality(Active) < Permits

\* A page, or a detail, is asked for; without a permit the request is refused at once.
Ask(c, r) ==
    /\ req[c].pc = "idle"
    /\ req' = IF Admitted THEN [req EXCEPT ![c] = r]
              ELSE [req EXCEPT ![c].answer = "capacity"]

\* A traversal begins, if the request is admitted.
List(c, f) ==
    /\ Ask(c, [pc |-> "gate", op |-> "list", filter |-> f, cursor |-> None,
               details |-> req[c].details])
    /\ seen' = IF Admitted THEN [seen EXCEPT ![c] = << >>] ELSE seen
    /\ UNCHANGED <<broker, start, faults>>

\* The link of the last page is followed, perhaps with another filter put in.
Follow(c, f) ==
    /\ req[c].cursor # None
    /\ Ask(c, [pc |-> "gate", op |-> "list", filter |-> f,
               cursor |-> req[c].cursor, details |-> req[c].details])
    /\ UNCHANGED <<broker, seen, start, faults>>

Get(c, id) ==
    /\ Ask(c, [pc |-> "gate", op |-> "get", id |-> id, cursor |-> req[c].cursor,
               details |-> req[c].details])
    /\ UNCHANGED <<broker, seen, start, faults>>

\* Within Test a request waits for an active reset.
Pass(c) ==
    /\ req[c].pc = "gate"
    /\ Scope = "test" => ~resetting
    /\ req' = [req EXCEPT ![c].pc = "open"]
    /\ UNCHANGED <<broker, seen, start, faults>>

\* list_inner up to its loop: the stream is looked up, and a cursor of an earlier
\* creation is refused.
OpenList(c) ==
    /\ req[c].pc = "open" /\ req[c].op = "list"
    /\ LET r == req[c]
           fresh == r.cursor = None
           cursor == IF fresh THEN [gen |-> Gen, next |-> First, last |-> Last, filter |-> r.filter]
                     ELSE r.cursor
       IN IF ~exists THEN Answer(c, IF fresh THEN "unavailable" ELSE "stale") /\ UNCHANGED start
          ELSE IF cursor.gen # Gen THEN Answer(c, "stale") /\ UNCHANGED start
          ELSE IF cursor.filter # r.filter \/ cursor.last > Last THEN Answer(c, "invalid-cursor") /\ UNCHANGED start
          ELSE /\ req' = [req EXCEPT ![c] = [pc |-> "read", op |-> "list", filter |-> r.filter,
                             cursor |-> cursor, items |-> << >>, bytes |-> 0,
                             finished |-> cursor.next > cursor.last, details |-> r.details]]
               /\ start' = IF fresh THEN [start EXCEPT ![c] = [gen |-> Gen, retained |-> Retained,
                                                               last |-> Last, filter |-> r.filter]]
                           ELSE start
    /\ UNCHANGED <<broker, seen, faults>>

\* get_first_raw_message_by_subject: of whatever stream has the name now.
Matches(f, r) == f = "all" \/ r.kind = f
Candidates(f, next) == {n \in Retained : n >= next /\ Matches(f, stored[Gen][n])}

\* Fault: a page that is full of bytes is taken for the last.
FinishedByBudget(n, r, size) == n = r.cursor.last \/ size >= Budget

Finished(n, r, size) == n = r.cursor.last

\* Whether the page loop goes on.
More(r) == ~r.finished /\ Len(r.items) < Limit /\ r.bytes < Budget

Read(c) ==
    /\ req[c].pc = "read" /\ More(req[c])
    /\ exists
    /\ LET r == req[c]
           found == Candidates(r.filter, r.cursor.next)
           n == CHOOSE k \in found : \A j \in found : k <= j
           record == stored[Gen][n]
           size == r.bytes + record.size
       IN req' = [req EXCEPT ![c] =
             IF found = {} \/ n > r.cursor.last THEN [r EXCEPT !.finished = TRUE]
             ELSE [r EXCEPT !.bytes = size,
                            !.finished = Finished(n, r, size),
                            !.cursor.next = n + 1,
                            !.items = Append(@, Entry(Id(r.cursor.gen, n), record))]]
    /\ UNCHANGED <<broker, seen, start, faults>>

\* A read fails, always so while the stream is missing: stale, or unavailable.
ReadFails(c) ==
    /\ req[c].pc \in {"read", "fetch"}
    /\ req[c].pc = "read" => More(req[c])
    /\ \/ ~exists /\ UNCHANGED faults
       \/ exists /\ Fails
    /\ req' = [req EXCEPT ![c].pc = "failing"]
    /\ UNCHANGED <<broker, seen, start>>

Current(g) == exists /\ Gen = g
Expected(c) == IF req[c].op = "list" THEN req[c].cursor.gen ELSE req[c].id.gen

Failing(c) ==
    /\ req[c].pc = "failing"
    /\ Answer(c, IF Current(Expected(c)) THEN "unavailable" ELSE "stale")
    /\ UNCHANGED <<broker, seen, start, faults>>

PageDone(c) ==
    /\ req[c].pc = "read" /\ ~More(req[c])
    /\ req' = [req EXCEPT ![c].pc = "verify"]
    /\ UNCHANGED <<broker, seen, start, faults>>

\* get_inner.
OpenGet(c) ==
    /\ req[c].pc = "open" /\ req[c].op = "get"
    /\ IF Current(req[c].id.gen) THEN req' = [req EXCEPT ![c].pc = "fetch"]
       ELSE Answer(c, "stale")
    /\ UNCHANGED <<broker, seen, start, faults>>

Fetch(c) ==
    /\ req[c].pc = "fetch" /\ exists
    /\ LET n == req[c].id.number
       IN req' = [req EXCEPT ![c] =
             [pc |-> "verify", op |-> "get", id |-> req[c].id, cursor |-> req[c].cursor,
              details |-> req[c].details,
              items |-> IF n \in Retained THEN << Entry(req[c].id, stored[Gen][n]) >> ELSE << >>]]
    /\ UNCHANGED <<broker, seen, start, faults>>

\* check_generation, before the answer.
Still(g) == Current(g)

Summaries(items) == [i \in 1..Len(items) |-> [entry |-> items[i], summary |-> Summary(items[i])]]

Verify(c) ==
    /\ req[c].pc = "verify"
    /\ LET r == req[c]
       IN IF ~Still(Expected(c)) THEN Answer(c, "stale") /\ UNCHANGED seen
          ELSE IF r.op = "list"
          THEN /\ seen' = [seen EXCEPT ![c] = @ \o Summaries(r.items)]
               /\ req' = [req EXCEPT ![c] =
                     [pc |-> "idle", answer |-> IF r.finished THEN "complete" ELSE "page",
                      cursor |-> IF r.finished THEN None ELSE r.cursor, details |-> r.details]]
          ELSE /\ req' = [req EXCEPT ![c] =
                     [pc |-> "idle", answer |-> IF r.items = << >> THEN "not-found" ELSE "detail",
                      cursor |-> r.cursor,
                      details |-> IF r.items = << >> THEN {}
                                  ELSE {[entry |-> r.items[1], detail |-> Detail(r.items[1])]}]]
               /\ UNCHANGED seen
    /\ UNCHANGED <<broker, start, faults>>

\* The deadline of a request covers its wait for a reset.
Due(c) == req[c].pc # "idle"

Deadline(c) ==
    /\ Due(c)
    /\ Answer(c, "timeout")
    /\ UNCHANGED <<broker, seen, start, faults>>

-----------------------------------------------------------------------------
Next ==
    \/ \E r \in Records : Quarantine(r)
    \/ \E n \in 1..MaxLen : Remove(n)
    \/ Recreation \/ ResetStarts \/ ResetEnds
    \/ \E c \in Clients :
          \/ \E f \in Filters : List(c, f) \/ Follow(c, f)
          \/ \E i \in 1..Len(seen[c]) : Get(c, seen[c][i].summary.id)
          \/ Pass(c) \/ OpenList(c) \/ Read(c) \/ ReadFails(c) \/ Failing(c) \/ PageDone(c)
          \/ OpenGet(c) \/ Fetch(c) \/ Verify(c) \/ Deadline(c)

Spec == Init /\ [][Next]_vars

-----------------------------------------------------------------------------
(* Properties. *)

\* A completed traversal showed, once and oldest first, exactly the matching
\* records of one snapshot of one stream: none that came later, and each that was
\* there and has not been removed since.
TraversalIsExact ==
    \A c \in Clients :
        LET shown == [i \in 1..Len(seen[c]) |-> seen[c][i].entry.id]
            s == start[c]
            wanted == {n \in s.retained : Matches(s.filter, stored[s.gen][n])}
        IN /\ \A i, j \in 1..Len(shown) : i < j => shown[i].number < shown[j].number
           /\ \A i \in 1..Len(shown) : shown[i].gen = s.gen /\ shown[i].number \in wanted
           /\ req[c].pc = "idle" /\ req[c].answer = "complete" =>
                 \A n \in wanted : Id(s.gen, n) \in gone \/ \E i \in 1..Len(shown) : shown[i] = Id(s.gen, n)
================================================================================
