------------------------------- MODULE Services --------------------------------
(* What an application offers: the command service, the query bus, fixtures and *)
(* the host that supervises its runtime.  They share no state; each promises    *)
(* its callers something of its own.                                            *)
EXTENDS CommandService

CONSTANTS
    Clients,     \* callers of the query bus
    Servers, Queries, SubjectOf, GroupOf, Bound, Strays,
    Concurrency, \* requests a query server handles at a time
    MaxReply, MaxAnswer, FallbackSize, BigSize, MaxAsked, MaxFaults,
    Documents,   \* the fixtures that are applied
    Streams, Appliers, MaxRuns, MaxOutages, MaxForeign,
    Invokers,    \* concurrent invocations of the host's scoped transport
    Admins, Ops, Fixtures, Events, MaxStarts, MaxOps

VARIABLES
    call, asked, inbox, slots, up, replies, faults,
    stored, run, runs, foreign, outages,
    queue, readers, writer, available, shuttingDown, resetRequired, incarnation, created,
    backend, journal, suppressed, state, holding, started, owned, task, calls, caller,
    stage, watcher, published

query == <<call, asked, inbox, slots, up, replies, faults>>
fixtures == <<stored, run, runs, foreign, outages>>
host ==
    <<queue, readers, writer, available, shuttingDown, resetRequired, incarnation, created,
      backend, journal, suppressed, state, holding, started, owned, task, calls, caller,
      stage, watcher, published>>

Bus == INSTANCE QueryBus WITH Callers <- Clients, Slots <- Concurrency, queue <- inbox
Fixture == INSTANCE FixtureApplication WITH
    Fixtures <- Documents, MaxFaults <- MaxOutages, store <- stored, faults <- outages
Runtime == INSTANCE NatsHost WITH Callers <- Invokers

ASSUME BusAssumption == Bus!BoundsAssumption /\ Bus!StraysAssumption
ASSUME FixtureAssumption == Fixture!BoundsAssumption /\ Fixture!FixturesAssumption
ASSUME RuntimeAssumption == Runtime!HostAssumption

-----------------------------------------------------------------------------
\* A value that reaches a caller was computed by the binding of the query and
\* schema it asked for, whoever else answers on its inbox, although identities
\* repeat when it asks again and late replies of earlier requests are under way.
AnswersAreOurs == Bus!AnswersAreOurs

\* A report is true when it is given and stays so: every stream begins with the
\* fixture's events, all of them, and each was counted once, as applied or as reused.
ReportIsTrue == Fixture!ReportIsTrue

\* An invocation runs only on the streams that exist and were reset completely: no
\* reset deletes them under it, and after a reset that failed or was dropped at any
\* step nothing is submitted until another one succeeds, whatever is started between.
InvokedOnWhole == Runtime!InvokedOnWhole
================================================================================
