---------------------------- MODULE TestEvaluation ----------------------------
(* The evaluation of a behavioral test and the finite capture of an operation's  *)
(* message series.  Both read an operation's status and its evidence at          *)
(* different moments while observers still add to the evidence, and both decide  *)
(* against deadlines when it has settled.                                        *)
EXTENDS Naturals, Sequences, FiniteSets, SequencesExt

CONSTANTS
    Readers,    \* which of "run" and "capture" there are
    Expected,   \* the messages the test's graph expects
    Extra,      \* messages it does not expect
    Wrong,      \* those of them that are an outcome other than the expected one
    Within,     \* the deadline of the run and of the capture
    SettleFor,  \* how long evidence must stay as it is
    MaxTime,    \* bound of the model: when the clock stops
    MaxChanges  \* bound of the model: changes of the evidence

EvaluationAssumption ==
    /\ Readers \subseteq {"run", "capture"}
    /\ Expected \cap Extra = {} /\ Wrong \subseteq Extra
    /\ {Within, SettleFor} \subseteq Nat \ {0} /\ Within < MaxTime

VARIABLES
    now,       \* tokio's clock
    status,    \* the operation's status
    evidence,  \* the correlation's evidence
    changed,   \* when the evidence last changed (history)
    open,      \* whether the correlation is still registered
    ev,        \* evaluate_test_subject
    cap        \* operation_message_series

vars == <<now, status, evidence, changed, open, ev, cap>>

Terminal == {"completed", "failed", "indeterminate"}

NoComparison == [revision |-> 0, passed |-> FALSE]

NoReport == [status |-> "none"]

\* op and seen are the snapshots of a round, at the time read after them; settle
\* is 0 until settling started, boundary the number of observations at its start.
NewEvaluation ==
    [pc |-> "operation", op |-> "running", seen |-> [items |-> <<>>, conflicts |-> 0, failed |-> FALSE, revision |-> 0],
     at |-> 0, settle |-> 0, boundary |-> 0, final |-> FALSE, wake |-> 0, last |-> NoComparison, report |-> NoReport]

NewCapture == [pc |-> "waiting", revision |-> 0, idle |-> 0, report |-> NoReport]

Init ==
    /\ now = 1 /\ status = "running" /\ changed = 1 /\ open = TRUE
    /\ evidence = [items |-> <<>>, conflicts |-> 0, failed |-> FALSE, revision |-> 1]
    /\ ev = [NewEvaluation EXCEPT !.pc = IF "run" \in Readers THEN "operation" ELSE "done"]
    /\ cap = [NewCapture EXCEPT !.pc = IF "capture" \in Readers THEN "waiting" ELSE "done", !.revision = 1]

-----------------------------------------------------------------------------
(* The clock, the operation and the observers. *)

Tick == now < MaxTime /\ now' = now + 1 /\ UNCHANGED <<status, evidence, changed, open, ev, cap>>

\* A deadline's abort has asked for the end; otherwise the operation may go on.
OperationEnds ==
    /\ status = "running"
    /\ status' \in Terminal
    /\ UNCHANGED <<now, evidence, changed, open, ev, cap>>

Evidence(next) ==
    /\ open
    /\ evidence.revision <= MaxChanges
    /\ evidence' = [next EXCEPT !.revision = @ + 1]
    /\ changed' = now
    /\ UNCHANGED <<now, status, open, ev, cap>>

ObserveMessage ==
    \E m \in (Expected \cup Extra) \ Range(evidence.items) :
        Evidence([evidence EXCEPT !.items = Append(@, m)])

ObserveConflict == evidence.items # <<>> /\ Evidence([evidence EXCEPT !.conflicts = @ + 1])

ObservationFails == ~evidence.failed /\ Evidence([evidence EXCEPT !.failed = TRUE])

\* A reset closes the correlation of a test that nobody evaluates any more.
CloseCorrelation ==
    /\ open /\ ev.pc = "done"
    /\ open' = FALSE
    /\ UNCHANGED <<now, status, evidence, changed, ev, cap>>

-----------------------------------------------------------------------------
(* evaluate_test_subject *)

At(pc) == ev.pc = pc

Evaluating(next) == ev' = next /\ UNCHANGED <<now, status, evidence, changed, open, cap>>

Report(result, of, basis, why) ==
    [ev EXCEPT !.pc = "done",
               !.report = [status |-> result, evidence |-> of, op |-> ev.op, basis |-> basis, why |-> why, at |-> now]]

\* compare_evidence_snapshot: everything expected and nothing else, before the
\* settling boundary, without conflict or failure.
Passes(seen) ==
    /\ Range(seen.items) = Expected
    /\ ev.settle # 0 => Len(seen.items) <= ev.boundary
    /\ seen.conflicts = 0 /\ ~seen.failed

SnapshotOperation == At("operation") /\ Evaluating([ev EXCEPT !.pc = "evidence", !.op = status])

SnapshotEvidence == At("evidence") /\ Evaluating([ev EXCEPT !.pc = "decide", !.seen = evidence])

\* The branches of a round, in the code's order.
Decide ==
    /\ At("decide")
    /\ CASE ev.op \in {"failed", "indeterminate"} ->
              Evaluating(Report("error", ev.seen, 0, "operation"))
         [] ev.op \notin {"failed", "indeterminate"} /\ ev.seen.failed ->
              Evaluating(Report("failed", ev.seen, ev.seen.revision, "failure"))
         [] ev.op \notin {"failed", "indeterminate"} /\ ~ev.seen.failed /\ now >= Within ->
              Evaluating([ev EXCEPT !.pc = "abort"])
         [] OTHER ->
              Evaluating([ev EXCEPT !.pc = "compare", !.at = now,
                                    !.final = ev.settle # 0 /\ ev.settle <= Within /\ now >= ev.settle])

\* Fault: the verdict is reported whatever arrived during the comparison.
StillCurrentAssumed == TRUE

StillCurrent == evidence.revision = ev.seen.revision

\* The comparison after the settling window: reported only if nothing changed.
CompareFinal ==
    /\ At("compare") /\ ev.final
    /\ IF StillCurrent
       THEN Evaluating(Report(IF Passes(ev.seen) THEN "passed" ELSE "failed", ev.seen, ev.seen.revision, "settled"))
       ELSE Evaluating([ev EXCEPT !.pc = "operation"])

Earliest(S) == CHOOSE t \in S : \A u \in S : t <= u

StartsSettling == ev.settle = 0 /\ ev.op = "completed" /\ Passes(ev.seen)

Hopeless ==
    \/ ev.settle # 0 /\ ~Passes(ev.seen)
    \/ ev.op = "completed" /\ Range(ev.seen.items) \cap Wrong # {}

\* A comparison during the run: it ends the run where settled evidence changed or
\* the command's outcome is the wrong one, starts the settling window, or sleeps
\* until the next poll.
Compare ==
    /\ At("compare") /\ ~ev.final
    /\ LET compared == [ev EXCEPT !.last = [revision |-> ev.seen.revision, passed |-> Passes(ev.seen)]]
       IN  IF Hopeless
           THEN Evaluating(Report("failed", ev.seen, ev.seen.revision, "settling"))
           ELSE IF StartsSettling
           THEN Evaluating([compared EXCEPT !.pc = "operation", !.boundary = Len(ev.seen.items),
                                            !.settle = ev.at + SettleFor])
           ELSE Evaluating([compared EXCEPT !.pc = "sleep",
                                            !.wake = Earliest({ev.at + 1, Within}
                                                              \cup IF ev.settle = 0 THEN {} ELSE {ev.settle})])

\* The comparison reaches its work limit.
ComparisonGivesUp ==
    /\ At("compare") /\ (ev.final => StillCurrent)
    /\ Evaluating(Report("failed", ev.seen, ev.seen.revision, "limit"))

Wake == At("sleep") /\ now >= ev.wake /\ Evaluating([ev EXCEPT !.pc = "operation"])

\* The comparison does not finish before the deadline.
ComparisonTimesOut == At("compare") /\ now >= Within /\ Evaluating([ev EXCEPT !.pc = "abort"])

\* The last comparison is reported only with the evidence it describes.
LastDescribing == IF ev.last.revision = evidence.revision THEN ev.last.revision ELSE 0

\* timed_out_test_evaluation: waits for the aborted operation, then reports.
TimedOut ==
    /\ At("abort") /\ status \in Terminal
    /\ Evaluating([Report("failed", evidence, LastDescribing, "timeout") EXCEPT !.report.op = status])

-----------------------------------------------------------------------------
(* operation_message_series *)

Capturing(next) == cap' = next /\ UNCHANGED <<now, status, evidence, changed, open, ev>>

Captured(settled) ==
    [cap EXCEPT !.pc = "done", !.report = [status |-> settled, evidence |-> evidence, op |-> status, at |-> now]]

\* The operation ends, and the idle window opens.
CaptureTerminal ==
    /\ cap.pc = "waiting" /\ status \in Terminal
    /\ Capturing([cap EXCEPT !.pc = "idle", !.idle = now + SettleFor])

CaptureUnfinished ==
    /\ cap.pc = "waiting" /\ now >= Within /\ open
    /\ Capturing(Captured("partial"))

CaptureChanged ==
    /\ cap.pc = "idle" /\ open /\ evidence.revision # cap.revision
    /\ Capturing([cap EXCEPT !.revision = evidence.revision, !.idle = now + SettleFor])

\* The timer fires; what happens next depends on which deadline it was.
CaptureTimer ==
    /\ cap.pc = "idle" /\ evidence.revision = cap.revision
    /\ now >= Earliest({cap.idle, Within})
    /\ Capturing([cap EXCEPT !.pc = IF Within <= cap.idle THEN "late" ELSE "check"])

CaptureLate == cap.pc = "late" /\ open /\ Capturing(Captured("partial"))

\* The evidence may have changed after the timer fired: then the window reopens.
CaptureCheck ==
    /\ cap.pc = "check" /\ open
    /\ Capturing(IF evidence.revision = cap.revision THEN Captured("settled")
                 ELSE [cap EXCEPT !.pc = "idle", !.revision = evidence.revision, !.idle = now + SettleFor])

\* The correlation is gone: the capture fails.
CaptureClosed ==
    /\ cap.pc # "done" /\ ~open
    /\ Capturing([cap EXCEPT !.pc = "done", !.report = [status |-> "error"]])

-----------------------------------------------------------------------------
Evaluate ==
    SnapshotOperation \/ SnapshotEvidence \/ Decide \/ CompareFinal \/ Compare \/ Wake \/ TimedOut

Capture ==
    CaptureTerminal \/ CaptureUnfinished \/ CaptureChanged \/ CaptureTimer \/ CaptureLate \/ CaptureCheck \/ CaptureClosed

Next ==
    \/ Tick \/ OperationEnds \/ ObserveMessage \/ ObserveConflict \/ ObservationFails \/ CloseCorrelation
    \/ Evaluate \/ ComparisonTimesOut \/ ComparisonGivesUp \/ Capture

Spec == Init /\ [][Next]_vars

-----------------------------------------------------------------------------
(* Properties. *)

\* A test passes only on evidence that is what the correlation holds at that
\* moment, has not changed for the whole settling window, and is exactly what was
\* expected of an operation that completed.
PassedIsSettled ==
    [][ev'.report.status = "passed" /\ ev.report.status # "passed" =>
          LET r == ev'.report
          IN  /\ r.evidence = evidence /\ r.op = "completed"
              /\ now - changed >= SettleFor
              /\ Range(evidence.items) = Expected /\ evidence.conflicts = 0 /\ ~evidence.failed]_vars
===============================================================================
