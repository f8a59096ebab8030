------------------------------ MODULE MCServices ------------------------------
(* The command service, the query bus, fixtures and the NATS host on small  *)
(* instances. The parts share no state: a behaviour is about the one that   *)
(* `part` names, and the others rest in their first state.                  *)
EXTENDS Services, TLC

CONSTANTS a, b   \* interchangeable calls, appliers and administrative tasks

VARIABLE part

allVars == <<part, vars, query, fixtures, host>>

Alike == Permutations({a, b})

-----------------------------------------------------------------------------
(* The command service: admission, outcomes and audit. *)

Cmd(o, i, t, h) == [op |-> o, ident |-> i, stamp |-> t, home |-> h]
\* One operation: the command, its retry a moment later, and another content.
OneOperation == {Cmd("o", "i", 1, TRUE), Cmd("o", "i", 2, TRUE), Cmd("o", "j", 1, TRUE)}
\* A command, one of another operation, and one for another application.
TwoOperations == {Cmd("o", "i", 1, TRUE), Cmd("p", "i", 1, TRUE), Cmd("o", "j", 1, FALSE)}
OneCommand == {Cmd("o", "i", 1, TRUE)}

Who(p, s) == [principal |-> p, scope |-> s]
\* Two tenants, of which the second may at most read.
Tenants == {Who("p", "s"), Who("q", "t")}
Alone == {Who("p", "s")}
\* A trusted call has no context: no scope.
Unscoped == {Who("p", "none")}
Accesses == {<<"p", "read">>, <<"p", "execute">>, <<"q", "read">>}
AloneAccesses == {<<"p", "read">>, <<"p", "execute">>}

Access == INSTANCE CommandService
Proxy == INSTANCE CommandService WITH
    Slots <- {a, b}, Commands <- TwoOperations, Callers <- Tenants, Grants <- Accesses,
    Ingress <- {"http"}, Decisions <- {"accepted", "rejected"}, Trusted <- FALSE,
    Proxied <- TRUE, Audited <- FALSE, Maximum <- 1, MaxAttempts <- 2, MaxChanges <- 0
TrustedCalls == INSTANCE CommandService WITH
    Slots <- {a, b}, Commands <- OneOperation, Callers <- Unscoped,
    Grants <- AloneAccesses, Ingress <- {"memory"}, Decisions <- {"accepted"},
    Trusted <- TRUE, Proxied <- FALSE, Audited <- FALSE, Maximum <- 1, MaxAttempts <- 3,
    MaxChanges <- 0
Audit == INSTANCE CommandService WITH
    Slots <- {a, b}, Commands <- OneCommand, Callers <- Alone, Grants <- AloneAccesses,
    Ingress <- {"http", "lookup"}, Decisions <- {"accepted"}, Trusted <- FALSE,
    Proxied <- FALSE, Audited <- TRUE, Maximum <- 2, MaxAttempts <- 2, MaxChanges <- 1

-----------------------------------------------------------------------------
(* The query bus. *)

TwoServers == {"s", "t"}
Query(n, v, f) == [query |-> n, schema |-> v, fits |-> f]
TwoQueries == {Query("a", 1, TRUE), Query("a", 2, FALSE)}
TwoNames == {Query("a", 1, TRUE), Query("b", 1, FALSE)}

\* Two replicas in a group, one of them of the next release.
Rolling == "s" :> {<<"a", 1>>} @@ "t" :> {<<"a", 1>>, <<"a", 2>>}
\* Two servers of one processor on two addresses.
OwnSubjects == "s" :> "a" @@ "t" :> "b"
OneSubject == [s \in TwoServers |-> "a"]
OneGroup == [s \in TwoServers |-> "g"]

Stray(i, v, h) == [id |-> i, schema |-> v, header |-> h]
SomeStrays == {Stray("c", 2, "c"), Stray("d", 1, "c"), Stray("c", 1, "d")}

Routing == INSTANCE QueryBus WITH
    Callers <- Clients, Slots <- Concurrency, Queries <- TwoNames, SubjectOf <- OwnSubjects,
    GroupOf <- [s \in Servers |-> s], Bound <- [s \in Servers |-> {<<"a", 1>>, <<"b", 1>>}],
    MaxReply <- 4, MaxFaults <- 2, queue <- inbox

-----------------------------------------------------------------------------
(* Fixtures over two streams. *)

M(i, c, s, v, x) == [id |-> i, corr |-> "k", cause |-> c, stream |-> s, version |-> v, payload |-> x]
\* A cause in one stream, effects in both, and an effect of an effect.
Braid(r, x) ==
    [id |-> "f", revision |-> r,
     messages |-> << M("m1", "none", "a", 1, x), M("m2", "m1", "b", 1, 0), M("m3", "m2", "a", 2, 0) >>]
\* Its last message names a cause that only follows.
Twisted ==
    [id |-> "t", revision |-> "1",
     messages |-> << M("m1", "m2", "a", 1, 0), M("m2", "none", "b", 1, 0) >>]
\* One event of a stream the others use too.
Single == [id |-> "s", revision |-> "1", messages |-> << M("m1", "none", "b", 1, 0) >>]
\* The same revision was edited: only the first payload differs.
Edited == {Braid("1", 0), Braid("1", 1), Single, Twisted}

-----------------------------------------------------------------------------
(* One runtime under resets, starts, observers and a shutdown. *)

Publication == INSTANCE NatsHost WITH
    Callers <- {}, Admins <- {"t"}, Ops <- {"reset", "apply"}, Fixtures <- {"f1", "f2"},
    Events <- {"e1"}, MaxStarts <- 2, MaxOps <- 2

-----------------------------------------------------------------------------
\* The instances satisfy what the modules assume of their constants.
ASSUME InstancesAssumption ==
    /\ Access!BoundsAssumption
    /\ TrustedCalls!ProfileAssumption
    /\ Audit!ProfileAssumption
    /\ Proxy!ProfileAssumption
    /\ Routing!BoundsAssumption
    /\ Publication!HostAssumption

-----------------------------------------------------------------------------
PartInit ==
    /\ part \in
        {"access", "proxied", "trusted", "audit", "group", "routing", "fixtures",
         "lifecycle", "published"}
    /\ IF part = "access" THEN Access!Init ELSE IF part = "trusted" THEN TrustedCalls!Init ELSE IF part = "audit" THEN Audit!Init ELSE Proxy!Init
    /\ part \notin {"access", "proxied", "trusted", "audit"} => policy = {}
    /\ Bus!Init
    /\ Fixture!Init
    /\ IF part = "lifecycle" THEN Runtime!Init ELSE Publication!Init

PartNext ==
    \/ /\ \/ part = "access" /\ Access!Next
          \/ part = "proxied" /\ Proxy!Next
          \/ part = "trusted" /\ TrustedCalls!Next
          \/ part = "audit" /\ Audit!Next
       /\ UNCHANGED <<part, query, fixtures, host>>
    \/ /\ \/ part = "group" /\ Bus!Next
          \/ part = "routing" /\ Routing!Next
       /\ UNCHANGED <<part, vars, fixtures, host>>
    \/ /\ part = "fixtures" /\ Fixture!Next
       /\ UNCHANGED <<part, vars, query, host>>
    \/ /\ \/ part = "lifecycle" /\ Runtime!Next
          \/ part = "published" /\ Publication!Next
       /\ UNCHANGED <<part, vars, query, fixtures>>

PartSpec == PartInit /\ [][PartNext]_allVars
=============================================================================
