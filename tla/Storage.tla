-------------------------------- MODULE Storage --------------------------------
(* What is stored besides the journal's appends: the namespaces a store lives in, *)
(* the window of what was observed in its streams, the records of quarantined     *)
(* messages, and the files of agent skills.  They share no state; each promises   *)
(* its readers something of its own.                                              *)
EXTENDS StreamAppend

CONSTANTS
    Configs, Found, Actors, Operations, MaxInc, MaxTasks, MaxFaults,
    Streams,       \* what the observer follows
    MaxGenerations, MaxMessages, MaxOutages,
    Scope, Clients, Records, Filters, Limit, Budget, Permits,
    MaxCreations, MaxRecords, MaxFailures,
    Tools, Skills, Files, Kits, Initial, MaxEdits

VARIABLES
    names, clock, actor, handle, written, misses, tasks, faults,
    exists, stored, up, task, cons, source, reset, held, late, collecting, window,
    since, loose, outages,
    created, records, gone, resetting, req, viewed, start, failures,
    disk, base, lock, tool, edits, kept

namespace == <<names, clock, actor, handle, written, misses, tasks, faults>>
observer ==
    <<exists, stored, up, task, cons, source, reset, held, late, collecting, window,
      since, loose, outages>>
quarantine == <<created, records, gone, resetting, req, viewed, start, failures>>
skills == <<disk, base, lock, tool, edits, kept>>

Space == INSTANCE StoreNamespace WITH streams <- names
Watch == INSTANCE StreamObserver WITH
    MaxGen <- MaxGenerations, MaxLen <- MaxMessages, MaxFaults <- MaxOutages,
    mode <- collecting, faults <- outages
Inspect == INSTANCE QuarantineInspection WITH
    MaxGen <- MaxCreations, MaxLen <- MaxRecords, MaxFaults <- MaxFailures,
    exists <- created, stored <- records, seen <- viewed, faults <- failures
Install == INSTANCE SkillsInstall

ASSUME SpaceAssumption == Space!BoundsAssumption /\ Space!ConfigsAssumption
ASSUME WatchAssumption == Watch!BoundsAssumption
ASSUME InspectAssumption == Inspect!BoundsAssumption
ASSUME InstallAssumption == Install!SkillsAssumption

-----------------------------------------------------------------------------
\* However provisioning is repeated, cut off and raced, a handle stays within its
\* namespace.  It writes to a stream of its own epoch only, command outcomes only where
\* there is one and imports only where there is none; a split journal and its state
\* stream belong to each other, so that no state stream serves two journals; and an
\* operation is called missing only if the handle's journal did not hold its outcome.
NamespacesStayApart == Space!NamespacesStayApart

\* After a reset the window holds nothing of the streams it deleted, although
\* the task may have had a message in hand when the reset began; only a task that a
\* cancelled reset had aborted and not waited for can still add the one it held.
NothingFromBefore == Watch!NothingFromBefore

\* A completed traversal showed, once and oldest first, exactly the matching
\* records of one snapshot of one stream: none that came later, and each that was
\* there and has not been removed since.
TraversalIsExact == Inspect!TraversalIsExact

\* An edit the consumer made before a tool's second look is where it was made, or
\* in the backup of a tool that is not done with it or left it for recovery.
EditsSurvive == Install!EditsSurvive
================================================================================
