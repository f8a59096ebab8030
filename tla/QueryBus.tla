-------------------------------- MODULE QueryBus --------------------------------
(* Queries over core NATS: a caller sends a request with an inbox of its own and *)
(* takes the first reply; servers subscribe to an address, alone or in a queue   *)
(* group, and handle a bounded number of requests at a time.  Nothing is stored: *)
(* a request or a reply may be lost, arrive after the caller gave up, or come    *)
(* from something else that answers on the address.                              *)
EXTENDS Naturals, Sequences, FiniteSets

CONSTANTS
    Callers, Servers,
    Queries,      \* what callers may ask: [query, schema, fits]
    SubjectOf,    \* the address each server subscribes to
    GroupOf,      \* its queue group; a server without one is a group of its own
    Bound,        \* <<query, schema>> pairs registered with its processor
    Slots,        \* concurrency
    MaxReply,     \* the servers' maximum_response_bytes
    MaxAnswer,    \* the callers' maximum_response_bytes
    FallbackSize, BigSize,  \* sizes of an error reply and of a large payload
    Strays,       \* replies something else may send: [id, schema, header]
    MaxAsked,     \* bound of the model: requests per caller
    MaxFaults     \* bound of the model: losses, strays, foreign requests, crashes

BoundsAssumption ==
    {Slots, MaxReply, MaxAnswer, FallbackSize, BigSize, MaxAsked, MaxFaults} \subseteq Nat
StraysAssumption == \A r \in Strays : r = [id |-> r.id, schema |-> r.schema, header |-> r.header]

VARIABLES
    call,     \* each caller's request
    asked,    \* requests it made
    queue,    \* each server's subscription
    slots,    \* requests each server is working on
    up,       \* servers that are subscribed
    replies,  \* replies under way: [inbox, reply]
    faults

vars == <<call, asked, queue, slots, up, replies, faults>>

Idle == [pc |-> "idle"]
Nowhere == <<"elsewhere", 0>>

Init ==
    /\ call = [c \in Callers |-> Idle]
    /\ asked = [c \in Callers |-> 0]
    /\ queue = [s \in Servers |-> << >>]
    /\ slots = [s \in Servers |-> {}]
    /\ up = Servers
    /\ replies = {}
    /\ faults = 0

Fails == faults < MaxFaults /\ faults' = faults + 1

-----------------------------------------------------------------------------
(* QueryBus::request and NatsQueryRequester::request. *)

\* QueryBus::encode_dynamic: route and envelope agree; the identity (message and
\* correlation) is the caller's, the same again when it asks again.
Encoded(c, q) ==
    [id |-> c, schema |-> q.schema, routed |-> <<q.query, q.schema>>, fits |-> q.fits]

\* Servers that get one copy of a message: one of each group on the address.
Receivers(subject) ==
    LET listening == {s \in up : SubjectOf[s] = subject}
    IN {R \in SUBSET listening :
           \A s \in listening : Cardinality({t \in R : GroupOf[t] = GroupOf[s]}) = 1}

Enqueue(R, m) == queue' = [s \in Servers |-> IF s \in R THEN Append(queue[s], m) ELSE queue[s]]

Inbox(c) == <<c, asked[c]>>

\* The message is published; the broker hands it out or, without a server on the
\* address, says so.
Ask(c, q) ==
    /\ call[c].pc # "waiting"
    /\ asked[c] < MaxAsked
    /\ asked' = [asked EXCEPT ![c] = @ + 1]
    /\ \E R \in Receivers(q.query) :
          LET m == [subject |-> q.query, inbox |-> <<c, asked[c] + 1>>, request |-> Encoded(c, q)]
          IN /\ Enqueue(R, m)
             /\ call' = [call EXCEPT ![c] =
                    IF R = {} THEN [pc |-> "done", asks |-> q, result |-> <<"unavailable">>]
                    ELSE [pc |-> "waiting", asks |-> q]]
    /\ UNCHANGED <<slots, up, replies, faults>>

Return(c, r) == call' = [call EXCEPT ![c] = [pc |-> "done", asks |-> @.asks, result |-> r]]

\* The request's timeout passes, however close an answer is.
Expire(c) ==
    /\ call[c].pc = "waiting"
    /\ Return(c, <<"timeout">>)
    /\ UNCHANGED <<asked, queue, slots, up, replies, faults>>

\* Fault: the schema of the reply is not compared.
MatchesIdentity(c, r) == r.header = c /\ r.id = c

\* Headers and body name the request, by the requester and again by the bus.
Matches(c, r) == r.header = c /\ r.id = c /\ r.schema = call[c].asks.schema

\* The first reply on the inbox decides the call.
Receive(c, w) ==
    /\ call[c].pc = "waiting"
    /\ w \in replies /\ w.inbox = Inbox(c)
    /\ replies' = replies \ {w}
    /\ Return(c, IF w.reply.size > MaxAnswer THEN <<"too_large">>
                 ELSE IF ~Matches(c, w.reply) THEN <<"invalid">>
                 ELSE w.reply.outcome)
    /\ UNCHANGED <<asked, queue, slots, up, faults>>

\* Nobody waits on that inbox any more.
Discard(w) ==
    /\ w \in replies
    /\ ~\E c \in Callers : call[c].pc = "waiting" /\ w.inbox = Inbox(c)
    /\ replies' = replies \ {w}
    /\ UNCHANGED <<call, asked, queue, slots, up, faults>>

-----------------------------------------------------------------------------
(* NatsQueryServer::run and process_request. *)

Slot(m, pc, outcome, size) == [message |-> m, pc |-> pc, outcome |-> outcome, size |-> size]

\* QueryProcessor::process: the address, the route and the envelope agree.
Consistent(m) ==
    /\ m.request.routed[1] = m.subject
    /\ m.request.routed[2] = m.request.schema

\* A free slot takes the next request.  One without identity or inbox is
\* dropped, an inconsistent or unknown one is answered, the rest is handled.
Take(s) ==
    /\ s \in up
    /\ queue[s] # << >>
    /\ Cardinality(slots[s]) < Slots
    /\ queue' = [queue EXCEPT ![s] = Tail(@)]
    /\ LET m == Head(queue[s])
           known == Consistent(m) /\ m.request.routed \in Bound[s]
       IN IF m.request.id = "none"
          THEN UNCHANGED slots
          ELSE /\ slots' = [slots EXCEPT ![s] = @ \cup
                      {IF known THEN Slot(m, "handling", << >>, 0)
                       ELSE Slot(m, "reply", <<"invalid_request">>, FallbackSize)}]
    /\ UNCHANGED <<call, asked, up, replies, faults>>

Replace(s, x, y) == slots' = [slots EXCEPT ![s] = (@ \ {x}) \cup {y}]

\* The value a binding computes.
Value(m) == m.request.routed

\* The application's handler returns a value, small or large, or an error.
Returns(s, x) ==
    /\ x \in slots[s] /\ x.pc = "handling"
    /\ \/ Replace(s, x, Slot(x.message, "reply", Value(x.message),
                             IF x.message.request.fits THEN 1 ELSE BigSize))
       \/ Replace(s, x, Slot(x.message, "reply", <<"failed">>, FallbackSize))
    /\ UNCHANGED <<call, asked, queue, up, replies, faults>>

\* The handler's timeout passes: it is dropped and the caller told.
HandlerTimeout(s, x) ==
    /\ x \in slots[s] /\ x.pc = "handling"
    /\ Replace(s, x, Slot(x.message, "reply", <<"handler_timeout">>, FallbackSize))
    /\ UNCHANGED <<call, asked, queue, up, replies, faults>>

\* A reply over the limit is replaced by fallback_response.
Fitted(x) == IF x.size <= MaxReply THEN x
             ELSE [x EXCEPT !.outcome = <<"internal">>, !.size = FallbackSize]

ReplyOf(x) ==
    [header |-> x.message.request.id, id |-> x.message.request.id,
     schema |-> x.message.request.schema, outcome |-> Fitted(x).outcome, size |-> Fitted(x).size]

Free(s, x) == slots' = [slots EXCEPT ![s] = @ \ {x}]

\* The reply is published, or not even the fallback fits.
Reply(s, x) ==
    /\ x \in slots[s] /\ x.pc = "reply"
    /\ Free(s, x)
    /\ replies' = IF Fitted(x).size <= MaxReply /\ x.message.inbox # Nowhere
                  THEN replies \cup {[inbox |-> x.message.inbox, reply |-> ReplyOf(x)]}
                  ELSE replies
    /\ UNCHANGED <<call, asked, queue, up, faults>>

\* Publishing fails or takes too long.
ReplyFails(s, x) ==
    /\ x \in slots[s] /\ x.pc = "reply"
    /\ Fails
    /\ Free(s, x)
    /\ UNCHANGED <<call, asked, queue, up, replies>>

\* The subscription ends: what was taken is finished, run returns Ended.
Ended(s) ==
    /\ s \in up
    /\ Fails
    /\ up' = up \ {s}
    /\ queue' = [queue EXCEPT ![s] = << >>]
    /\ UNCHANGED <<call, asked, slots, replies>>

\* The process dies, or is stopped.
Crash(s) ==
    /\ s \in up
    /\ Fails
    /\ up' = up \ {s}
    /\ queue' = [queue EXCEPT ![s] = << >>]
    /\ slots' = [slots EXCEPT ![s] = {}]
    /\ UNCHANGED <<call, asked, replies>>

\* The application runs the server again.
Restart(s) ==
    /\ s \notin up
    /\ slots[s] = {}
    /\ up' = up \cup {s}
    /\ UNCHANGED <<call, asked, queue, slots, replies, faults>>

-----------------------------------------------------------------------------
(* The rest of the world. *)

\* A copy of a request, or a reply, is lost.
LoseRequest(s) ==
    /\ queue[s] # << >>
    /\ Fails
    /\ queue' = [queue EXCEPT ![s] = Tail(@)]
    /\ UNCHANGED <<call, asked, slots, up, replies>>

LoseReply(w) ==
    /\ w \in replies
    /\ Fails
    /\ replies' = replies \ {w}
    /\ UNCHANGED <<call, asked, queue, slots, up>>

\* Something else answers on a waiting caller's inbox, with another identity.
Stray(c, r) ==
    /\ call[c].pc = "waiting"
    /\ r # [id |-> c, schema |-> call[c].asks.schema, header |-> c]
    /\ Fails
    /\ replies' = replies \cup {[inbox |-> Inbox(c), reply |->
           [header |-> r.header, id |-> r.id, schema |-> r.schema, outcome |-> <<"stray">>, size |-> 1]]}
    /\ UNCHANGED <<call, asked, queue, slots, up>>

\* Another client's message: any route on any address, perhaps without identity.
Foreign(subject, routed, schema, id) ==
    /\ Fails
    /\ \E R \in Receivers(subject) :
          Enqueue(R, [subject |-> subject, inbox |-> Nowhere,
                      request |-> [id |-> id, schema |-> schema, routed |-> routed, fits |-> TRUE]])
    /\ UNCHANGED <<call, asked, slots, up, replies>>

-----------------------------------------------------------------------------
Names == {q.query : q \in Queries}
Schemas == {q.schema : q \in Queries}

Serve(s, x) == Returns(s, x) \/ HandlerTimeout(s, x) \/ Reply(s, x) \/ ReplyFails(s, x)

Next ==
    \/ \E c \in Callers :
          \/ \E q \in Queries : Ask(c, q)
          \/ Expire(c)
          \/ \E w \in replies : Receive(c, w)
          \/ \E r \in Strays : Stray(c, r)
    \/ \E w \in replies : Discard(w) \/ LoseReply(w)
    \/ \E s \in Servers :
          \/ Take(s) \/ Ended(s) \/ Crash(s) \/ Restart(s) \/ LoseRequest(s)
          \/ \E x \in slots[s] : Serve(s, x)
    \/ \E n, k \in Names : \E v, w \in Schemas : \E i \in {"none", "other"} :
          Foreign(n, <<k, v>>, w, i)

Spec == Init /\ [][Next]_vars

-----------------------------------------------------------------------------
(* Properties. *)

\* A value that reaches a caller was computed by the binding of the query and
\* schema it asked for, whoever else answers on its inbox, although identities
\* repeat when it asks again and late replies of earlier requests are under way.
AnswersAreOurs ==
    \A c \in Callers : call[c].pc = "done" =>
        \/ call[c].result = <<call[c].asks.query, call[c].asks.schema>>
        \/ call[c].result \in {<<"timeout">>, <<"unavailable">>, <<"too_large">>, <<"invalid">>,
                               <<"invalid_request">>, <<"failed">>, <<"handler_timeout">>, <<"internal">>}
================================================================================
