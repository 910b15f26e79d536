------------------------------- MODULE NoShow -------------------------------
(***************************************************************************)
(* What follows a declared no-show: the objection window, the decision at   *)
(* its end and the refund that executes it.  Scheduled sweeps of several    *)
(* instances read the windows that are due and work through them one by     *)
(* one; the decision is a transaction, the refund three steps after it.     *)
(* Each window has an order of its own; whether the accepted terms leave    *)
(* money to return is any answer of the evaluator (evaluateBookingOutcome). *)
(* Windows are numbered in the order in which they end.  A run works through*)
(* the oldest that are due and stops at the first that throws; a stubborn   *)
(* one throws in every run, so what ends after it is not reached.           *)
(***************************************************************************)
EXTENDS Naturals, FiniteSets

CONSTANTS
  Windows,        \* governed bookings that may be declared no-shows
  Stubborn,       \* those whose decision throws each time it is tried
  NoShowBatch,    \* limit of expireNoShowWindows
  Evaluators,     \* runs of expireNoShowWindows, which may overlap
  MaxWindowFaults \* bound on throws and deaths

ASSUME NoShowAssumption ==
  Windows \subseteq Nat /\ Stubborn \subseteq Windows /\ {NoShowBatch, MaxWindowFaults} \subseteq Nat

VARIABLES
  declaration,   \* booking.no_show_declarations: evaluation_state, 'due' once the window has ended
  verdict,       \* commerce.booking_outcome_decisions of kind no_show
  restitution,   \* payment.refunds under the no-show key
  returned,      \* refunds the gateway has carried out
  evaluators,
  abandoned,     \* observer: windows whose evaluator died or threw after the decision
  windowFaults

noShowVars == <<declaration, verdict, restitution, returned, evaluators, abandoned, windowFaults>>

NoVerdict == [status |-> "none", owed |-> FALSE]
\* A run: where it is, what is left of its batch, the window it is on, the answer it has.
Stage(at, batch, on, answer) == [at |-> at, batch |-> batch, on |-> on, answer |-> answer]
NotEvaluating == Stage("idle", {}, {}, "none")

Verdict == [status : {"none", "pending", "executed", "manual_required", "failed"}, owed : BOOLEAN]
Evaluator ==
  [at : {"idle", "deciding", "executing", "sending", "completing", "recording"},
   batch : SUBSET Windows, on : SUBSET Windows,
   answer : {"none", "pending", "executed", "succeeded", "failed", "manual_required"}]

NoShowTypeOK ==
  /\ declaration \in [Windows -> {"none", "window_open", "due", "evaluated"}]
  /\ verdict \in [Windows -> Verdict]
  /\ restitution \in [Windows -> {"none", "pending", "succeeded", "failed", "manual_required"}]
  /\ returned \in [Windows -> Nat]
  /\ evaluators \in [Evaluators -> Evaluator]
  /\ \A e \in Evaluators : Cardinality(evaluators[e].on) <= 1
  /\ abandoned \subseteq Windows /\ windowFaults \in 0 .. MaxWindowFaults

NoShowInit ==
  /\ declaration = [b \in Windows |-> "none"]
  /\ verdict = [b \in Windows |-> NoVerdict]
  /\ restitution = [b \in Windows |-> "none"]
  /\ returned = [b \in Windows |-> 0]
  /\ evaluators = [e \in Evaluators |-> NotEvaluating]
  /\ abandoned = {} /\ windowFaults = 0

Evaluates(e, t) == evaluators' = [evaluators EXCEPT ![e] = t]
On(e, b) == evaluators[e].on = {b}

\* The window is done with: on to the next of the batch, or the run is over.
NextWindow(e) ==
  LET rest == evaluators[e].batch \ evaluators[e].on IN
  IF rest = {} THEN NotEvaluating ELSE Stage("deciding", rest, {}, "none")

\* markNoShow of a booking with outcome terms: the declaration opens the window,
\* which ends after those that have ended already.
DeclareNoShow(b) ==
  /\ declaration[b] = "none"
  /\ \A c \in Windows : c > b => declaration[c] \in {"none", "window_open"}
  /\ declaration' = [declaration EXCEPT ![b] = "window_open"]
  /\ UNCHANGED <<verdict, restitution, returned, evaluators, abandoned, windowFaults>>

\* objection_window_ends_at passes.
WindowEnds(b) ==
  /\ declaration[b] = "window_open"
  /\ \A c \in Windows : c < b => declaration[c] # "window_open"
  /\ declaration' = [declaration EXCEPT ![b] = "due"]
  /\ UNCHANGED <<verdict, restitution, returned, evaluators, abandoned, windowFaults>>

Due == {b \in Windows : declaration[b] = "due"}
\* ORDER BY objection_window_ends_at ASC LIMIT.
OldestDue == {b \in Due : Cardinality({c \in Due : c < b}) < NoShowBatch}

\* expireNoShowWindows: the unlocked scan of what is due.
ScanWindows(e) ==
  /\ evaluators[e].at = "idle" /\ OldestDue # {}
  /\ Evaluates(e, Stage("deciding", OldestDue, {}, "none"))
  /\ UNCHANGED <<declaration, verdict, restitution, returned, abandoned, windowFaults>>

\* The loop is at b, the oldest of what is left of the batch.
AtWindow(e, b) ==
  /\ evaluators[e].at = "deciding" /\ b \in evaluators[e].batch
  /\ \A c \in evaluators[e].batch : b <= c

\* A stubborn window: its transaction rolls back, and nothing catches the throw.
WindowThrows(e, b) ==
  /\ AtWindow(e, b) /\ b \in Stubborn
  /\ Evaluates(e, NotEvaluating)
  /\ UNCHANGED <<declaration, verdict, restitution, returned, abandoned, windowFaults>>

\* decideNoShowWindowOnly, under the declaration's and the order's locks.
DecideWindow(e, b) ==
  /\ AtWindow(e, b) /\ b \notin Stubborn
  /\ \/ /\ declaration[b] = "due"
        /\ \E owed \in BOOLEAN :
             LET status == IF owed THEN "pending" ELSE "executed" IN
             /\ verdict' = [verdict EXCEPT ![b] = [status |-> status, owed |-> owed]]
             /\ Evaluates(e, Stage("executing", evaluators[e].batch, {b}, status))
        /\ declaration' = [declaration EXCEPT ![b] = "evaluated"]
     \/ \* another run decided since the scan: its live decision
        /\ declaration[b] = "evaluated"
        /\ Evaluates(e, Stage("executing", evaluators[e].batch, {b}, verdict[b].status))
        /\ UNCHANGED <<declaration, verdict>>
  /\ UNCHANGED <<restitution, returned, abandoned, windowFaults>>

\* Mutant: the key is not looked up.
KeyNeverUsed(b) == TRUE
\* No refund of this order has the no-show key (read again under the intent's lock).
KeyFresh(b) == restitution[b] = "none"

\* executeDecision: only a decision read as pending; refund() opens a row or
\* answers with the one its key has.
OpenRestitution(e, b) ==
  /\ evaluators[e].at = "executing" /\ On(e, b)
  /\ IF evaluators[e].answer # "pending"
     THEN Evaluates(e, NextWindow(e)) /\ UNCHANGED restitution
     ELSE IF KeyFresh(b)
     THEN /\ restitution' = [restitution EXCEPT ![b] = "pending"]
          /\ Evaluates(e, Stage("sending", evaluators[e].batch, {b}, "pending"))
     ELSE /\ Evaluates(e, Stage("recording", evaluators[e].batch, {b}, restitution[b]))
          /\ UNCHANGED restitution
  /\ UNCHANGED <<declaration, verdict, returned, abandoned, windowFaults>>

\* provider.refund, external.
SendRestitution(e, b) ==
  /\ evaluators[e].at = "sending" /\ On(e, b)
  /\ \E outcome \in {"succeeded", "failed", "manual_required"} :
       /\ returned' = IF outcome = "succeeded" THEN [returned EXCEPT ![b] = @ + 1] ELSE returned
       /\ Evaluates(e, Stage("completing", evaluators[e].batch, {b}, outcome))
  /\ UNCHANGED <<declaration, verdict, restitution, abandoned, windowFaults>>

\* completeRefund: compare-and-swap from pending.
CompleteRestitution(e, b) ==
  /\ evaluators[e].at = "completing" /\ On(e, b)
  /\ restitution' = [restitution EXCEPT ![b] = IF @ = "pending" THEN evaluators[e].answer ELSE @]
  /\ Evaluates(e, Stage("recording", evaluators[e].batch, {b}, evaluators[e].answer))
  /\ UNCHANGED <<declaration, verdict, returned, abandoned, windowFaults>>

\* executionStatusOf and recordExecution: a refund still pending records nothing,
\* and a decision that has moved stays.
RecordedAs(b, answer) ==
  IF answer = "pending" \/ verdict[b].status # "pending" THEN verdict[b].status
  ELSE IF answer = "succeeded" THEN "executed" ELSE answer

RecordRestitution(e, b) ==
  /\ evaluators[e].at = "recording" /\ On(e, b)
  /\ verdict' = [verdict EXCEPT ![b] = [status |-> RecordedAs(b, evaluators[e].answer), owed |-> @.owed]]
  /\ Evaluates(e, NextWindow(e))
  /\ UNCHANGED <<declaration, restitution, returned, abandoned, windowFaults>>

\* The open transaction rolls back.
StateAfterRollback(e) == declaration

\* A statement, the refund or the gateway throws, or the process dies: the rest
\* of the batch is dropped, and what was committed stays.
EvaluationFails(e) ==
  /\ evaluators[e].at # "idle" /\ windowFaults < MaxWindowFaults
  /\ windowFaults' = windowFaults + 1
  /\ declaration' = StateAfterRollback(e)
  /\ abandoned' = abandoned \union evaluators[e].on
  /\ Evaluates(e, NotEvaluating)
  /\ UNCHANGED <<verdict, restitution, returned>>

EvaluatorStep(e) ==
  \E b \in Windows :
    \/ WindowThrows(e, b) \/ DecideWindow(e, b) \/ OpenRestitution(e, b) \/ SendRestitution(e, b)
    \/ CompleteRestitution(e, b) \/ RecordRestitution(e, b)

NoShowNext ==
  \/ \E b \in Windows : DeclareNoShow(b) \/ WindowEnds(b)
  \/ \E e \in Evaluators : ScanWindows(e) \/ EvaluatorStep(e) \/ EvaluationFails(e)

\* Time passes, the timer of OutboxSweepScheduler ticks and a call that is
\* pending returns.
NoShowFairness ==
  /\ \A b \in Windows : WF_noShowVars(WindowEnds(b))
  /\ \A e \in Evaluators : WF_noShowVars(ScanWindows(e) \/ EvaluatorStep(e))

NoShowSpec == NoShowInit /\ [][NoShowNext]_noShowVars /\ NoShowFairness

---------------------------------------------------------------------------
\* A no-show's money is returned once, although overlapping sweeps converge on
\* one decision and each goes on to execute it (the refund's request key).
NoShowPaidOnce == \A b \in Windows : returned[b] <= 1

\* A decision that owes money and says 'executed' has been paid out, also when
\* the run that records it did not send the refund itself (executeDecision,
\* executionStatusOf).
ExecutedIsReturned ==
  \A b \in Windows : verdict[b].status = "executed" /\ verdict[b].owed => returned[b] = 1

\* Every window that ends is decided, although a throw drops the rest of a batch
\* and a batch has a limit (expireNoShowWindows reads what is left at its next
\* tick), unless a window that ended before it throws in every run: it is the
\* first of every batch from then on, and all that ends after it is stranded.
DueWindowsDecided ==
  \A b \in Windows \ Stubborn :
    (declaration[b] = "due") ~> (verdict[b].status # "none" \/ \E c \in Stubborn : c < b /\ declaration[c] = "due")

\* Every decision that owes money is executed or recorded as failed or manual,
\* unless its evaluator was cut off after the decision (decideNoShowWindow).
DecisionsExecuted ==
  \A b \in Windows :
    (verdict[b].status = "pending") ~> (verdict[b].status # "pending" \/ b \in abandoned)

\* A no-show is settled once and in the end (expireNoShowWindows).
NoShowsSettle ==
  /\ [](NoShowTypeOK /\ NoShowPaidOnce /\ ExecutedIsReturned)
  /\ DueWindowsDecided /\ DecisionsExecuted
=============================================================================
