-------------------------------- MODULE Tracer --------------------------------
(* What the tracer promises its clients: an operation identity is carried once,  *)
(* a test passes on settled evidence only, and a subscriber of the observation   *)
(* window that has nothing left to be told has been shown it.  Operations,       *)
(* evaluations and the window share no state.                                    *)
EXTENDS TracerOperations

CONSTANTS
    Readers, Expected, Extra, Wrong, Within, SettleFor, MaxTime, MaxChanges,
    Names, Observable,  \* the sources of the window and the messages they may observe
    Contents, Subscribers, MaxFlows, MaxMessages, MaxBytes, MaxSubs, MaxGuards,
    MaxRevision

VARIABLES
    now, status, evidence, changed, open, ev, cap,
    sources, guards, flows, evicted, discarded, mode, feedGeneration, revision,
    identity, subs

evaluation == <<now, status, evidence, changed, open, ev, cap>>
feed ==
    <<sources, guards, flows, evicted, discarded, mode, feedGeneration, revision,
      identity, subs>>

Verdict == INSTANCE TestEvaluation
Feed == INSTANCE ObservationFeed WITH Messages <- Observable, generation <- feedGeneration

ASSUME VerdictAssumption == Verdict!EvaluationAssumption
ASSUME FeedAssumption == Feed!BoundsAssumption

-----------------------------------------------------------------------------
\* A test passes only on evidence that is what the correlation holds at that
\* moment, has not changed for the whole settling window, and is exactly what was
\* expected of an operation that completed.
PassedIsSettled == Verdict!PassedIsSettled

\* A subscriber with nothing left to be told has been shown the current window.
ToldMeansShown == Feed!ToldMeansShown
================================================================================
