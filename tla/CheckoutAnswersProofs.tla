----------------------- MODULE CheckoutAnswersProofs -----------------------
(***************************************************************************)
(* Unless a worker is cut off, no money of a booking that came to nothing   *)
(* and no duplicate charge is forgotten: the proof of ChargesAreAnswered.   *)
(* What makes it inductive is who still has the charge in hand: a worker    *)
(* about to open its refund, or a cancellation event that is not published. *)
(***************************************************************************)
EXTENDS CheckoutProofs

CancelEvents == {Cancelled(n) : n \in 1 .. MaxCancels}

\* An attempt that is open, or that succeeded, has an intent that is not
\* reopened under it, and it is the only open one of its intent.
AttemptsSettle ==
  /\ \A a \in Attempts :
       /\ attempts[a].status = "initiated" =>
            intents[attempts[a].intent].status \in {"pending", "expired", "succeeded"}
       /\ attempts[a].status = "succeeded" =>
            intents[attempts[a].intent].status \in {"expired", "succeeded"}
  /\ \A a, b \in Attempts :
       (/\ attempts[a].status = "initiated" /\ attempts[b].status = "initiated"
        /\ attempts[a].intent = attempts[b].intent) => a = b

\* No refund is asked for more than an intent took.
AmountsFit ==
  /\ \A i \in Intents : intents[i].status # "none" => intents[i].amount = schedule
  /\ \A k \in OrderKeys : refunds[k].amount <= schedule
  /\ decision.refund <= schedule
  /\ \A w \in Workers : workers[w].pc \in {"execute", "refund"} => workers[w].amount <= schedule

RefundedBefore == \E k \in OrderKeys : refunds[k].status # "none"

\* A refund that was sent, announced or counted has its row.
RowsBehind ==
  /\ \A w \in Workers : workers[w].pc \in {"send", "complete", "record"} =>
       refunds[workers[w].key].status # "none"
  /\ \A k \in OrderKeys \cap mail : refunds[k].status # "none"
  /\ order.refunded > 0 => RefundedBefore

\* A decision that leaves nothing to refund has answered for the money, and no
\* money comes in after it; whoever handles a cancellation has one.
Decided ==
  /\ decision.status # "none" => order.status # "pending"
  /\ decision.status = "none" => decision.retained = 0
  /\ (decision.status # "none" /\ order.collected > 0) =>
       Answered \/ (decision.status = "pending" /\ decision.refund > 0)
  /\ booking.cancels > 0 => booking.status \in {"cancelled", "confirmed"}
  /\ order.collected > 0 => order.capture # 0
  /\ \A w \in Workers :
       LET q == workers[w] IN
       /\ q.event \in CancelEvents => decision.status # "none" /\ booking.cancels > 0
       /\ (q.pc = "execute" /\ (q.outcome # "pending" \/ q.amount = 0)) =>
            (order.collected > 0 => Answered)
       /\ (q.pc = "mark" /\ q.event \in CancelEvents) =>
            (order.collected > 0 => Answered \/ remedy = "reschedule")
       /\ q.pc = "execute" => q.event \in CancelEvents

\* Somebody has the charge in hand.
Refunding(k) == \E w \in Workers : workers[w].pc = "refund" /\ workers[w].key = k
InHand == (\E k \in OrderKeys : Refunding(k)) \/ (\E e \in CancelEvents : e \in mail)

DuplicatesAnswered ==
  \A a \in Attempts : (attempts[a].status = "succeeded" /\ a # order.capture) =>
    \/ refunds[DuplicateKey(a)].status # "none"
    \/ intents[attempts[a].intent].status # "succeeded"
    \/ Refunding(DuplicateKey(a))
CapturesAnswered ==
  (order.collected > 0 /\ (Unbooked \/ booking.status = "pending")) => Answered \/ InHand

AnswersInv ==
  /\ AttemptsSettle /\ AmountsFit /\ RowsBehind /\ Decided
  /\ crashes = 0 => DuplicatesAnswered /\ CapturesAnswered

---------------------------------------------------------------------------
(* What a step does to the row of a worker.                                *)

SameTask(x) == workers'[x].key = workers[x].key /\ workers'[x].event = workers[x].event
Early(x) == /\ workers'[x].pc \in {"idle", "initiate", "insert", "apply", "remedy"}
            /\ workers'[x].event \in {None, workers[x].event}
Compensates(x) == /\ \E permitted \in BOOLEAN : CallbackCaptured(x, permitted)
                  /\ workers'[x].pc = "refund" /\ workers'[x].key \in OrderKeys
                  /\ workers'[x].amount = schedule /\ workers'[x].event = None
GivesBack(x) == /\ CallbackDuplicate(x)
                /\ workers'[x].pc = "refund" /\ workers'[x].key = DuplicateKey(workers[x].attempt)
                /\ workers'[x].amount = schedule /\ workers'[x].event = None
Opens(x) == RefundOpen(x) /\ workers'[x].pc \in {"send", "record"} /\ SameTask(x)
Sends(x) == RefundSend(x) /\ workers'[x].pc = "complete" /\ SameTask(x)
Completes(x) == RefundComplete(x) /\ workers'[x].pc = "record" /\ SameTask(x)
Decides(x) == \E e \in CancelEvents :
                /\ DecideCancellation(x, e) /\ e \in mail
                /\ workers'[x].pc = "execute" /\ workers'[x].event = e
                /\ workers'[x].key = CancellationKey
                /\ workers'[x].amount = decision'.refund /\ workers'[x].outcome = decision'.status
Executes(x) == /\ ExecuteCancellation(x) /\ SameTask(x)
               /\ workers'[x].pc = IF RefundDue(workers[x]) THEN "refund" ELSE "mark"
               /\ workers'[x].amount = workers[x].amount
Records(x) == RecordExecution(x) /\ workers'[x].pc = "mark" /\ workers'[x].event = workers[x].event
Marks(x) == workers'[x].pc = "mark" /\ workers'[x].event \notin CancelEvents

\* What a worker that acts may be doing.
Phase(w) == \/ Early(w) \/ Compensates(w) \/ GivesBack(w) \/ Opens(w) \/ Sends(w) \/ Completes(w)
            \/ Decides(w) \/ Executes(w) \/ Records(w) \/ Marks(w)

\* A step is of nobody, or of one worker, which is in one of the phases above.
LEMMA RowStep ==
  ASSUME CheckoutInv, [Next]_vars
  PROVE  \/ workers' = workers
         \/ \E w \in Workers : Phase(w) /\ \A x \in Workers \ {w} : workers'[x] = workers[x]
<1>0. workers \in [Workers -> Worker]
  BY DEF CheckoutInv, TypeOK
<1> DEFINE Goal == \E w \in Workers : Phase(w) /\ \A x \in Workers \ {w} : workers'[x] = workers[x]
<1>1. ASSUME NEW w \in Workers, NEW q, Becomes(w, q)
      PROVE  workers'[w] = q /\ \A x \in Workers \ {w} : workers'[x] = workers[x]
  BY <1>0, <1>1 DEF Becomes
<1>2. ASSUME NEW w \in Workers, Done(w) PROVE Goal
  <2>1. workers'[w] = Idle /\ \A x \in Workers \ {w} : workers'[x] = workers[x]
    BY <1>1, <1>2 DEF Done
  <2>2. Early(w)
    BY <2>1 DEF Early, Idle
  <2> QED
    BY <2>1, <2>2 DEF Phase
<1>3. ASSUME NEW w \in Workers, NEW q, Becomes(w, q),
             q.pc \in {"initiate", "insert", "apply", "remedy"},
             q.event \in {None, workers[w].event}
      PROVE  Goal
  <2>1. Early(w)
    BY <1>1, <1>3 DEF Early
  <2> QED
    BY <1>1, <1>3, <2>1 DEF Phase
<1>4. ASSUME NEW w \in Workers, CheckoutPay(w) \/ RetryPayment(w) \/ RemedyBegin(w) PROVE Goal
  <2>1. /\ \A i : /\ [Idle EXCEPT !.pc = "initiate", !.intent = i].pc = "initiate"
                  /\ [Idle EXCEPT !.pc = "initiate", !.intent = i].event = None
        /\ [Idle EXCEPT !.pc = "remedy"].pc = "remedy" /\ [Idle EXCEPT !.pc = "remedy"].event = None
    BY DEF Idle
  <2> HIDE DEF Goal
  <2> QED
    BY <1>3, <1>4, <2>1 DEF CheckoutPay, RetryPayment, RemedyBegin
<1>5. ASSUME NEW w \in Workers, NEW a \in Attempts, Callback(w, a) PROVE Goal
  <2>1. \A v : /\ [Idle EXCEPT !.pc = "apply", !.attempt = a, !.verdict = v].pc = "apply"
               /\ [Idle EXCEPT !.pc = "apply", !.attempt = a, !.verdict = v].event = None
    BY DEF Idle
  <2> HIDE DEF Goal
  <2> QED
    BY <1>3, <1>5, <2>1 DEF Callback
<1>6. ASSUME NEW w \in Workers, InitiateAtGateway(w) PROVE Goal
  <2>1. \A a : /\ [workers[w] EXCEPT !.pc = "insert", !.attempt = a].pc = "insert"
               /\ [workers[w] EXCEPT !.pc = "insert", !.attempt = a].event = workers[w].event
    BY <1>0 DEF Worker
  <2> HIDE DEF Goal
  <2> QED
    BY <1>2, <1>3, <1>6, <2>1 DEF InitiateAtGateway
<1>7. ASSUME NEW w \in Workers, NEW permitted \in BOOLEAN, CallbackCaptured(w, permitted) PROVE Goal
  <2>1. ASSUME NEW k \in OrderKeys, Compensate(w, k) PROVE Goal
    <3>1. /\ workers'[w] = [Idle EXCEPT !.pc = "refund", !.key = k, !.amount = schedule]
          /\ \A x \in Workers \ {w} : workers'[x] = workers[x]
      BY <1>1, <2>1 DEF Compensate
    <3>2. Compensates(w)
      BY <1>7, <3>1 DEF Compensates, Idle
    <3> QED
      BY <3>1, <3>2 DEF Phase
  <2> HIDE DEF Goal
  <2> QED
    BY <1>2, <1>7, <2>1 DEF CallbackCaptured, OrderKeys
<1>8. ASSUME NEW w \in Workers, CallbackDuplicate(w) PROVE Goal
  <2>1. /\ workers'[w] = [Idle EXCEPT !.pc = "refund", !.key = DuplicateKey(workers[w].attempt),
                                      !.amount = schedule]
        /\ \A x \in Workers \ {w} : workers'[x] = workers[x]
    BY <1>1, <1>8 DEF CallbackDuplicate, Compensate
  <2>2. GivesBack(w)
    BY <1>8, <2>1 DEF GivesBack, Idle
  <2> QED
    BY <2>1, <2>2 DEF Phase
<1>9. ASSUME NEW w \in Workers, NEW s, Becomes(w, AfterRefund(workers[w], s)),
             RefundOpen(w) \/ RefundComplete(w)
      PROVE  Goal
  <2>1. CASE workers[w].event = None
    BY <1>2, <1>9, <2>1 DEF AfterRefund, Done
  <2>2. CASE workers[w].event # None
    <3>1. /\ workers'[w] = [workers[w] EXCEPT !.pc = "record", !.outcome = s]
          /\ \A x \in Workers \ {w} : workers'[x] = workers[x]
      BY <1>1, <1>9, <2>2 DEF AfterRefund
    <3>2. workers'[w].pc = "record" /\ SameTask(w)
      BY <1>0, <3>1 DEF Worker, SameTask
    <3>3. Opens(w) \/ Completes(w)
      BY <1>9, <3>2 DEF Opens, Completes
    <3> QED
      BY <3>1, <3>3 DEF Phase
  <2> QED
    BY <2>1, <2>2
<1>10. ASSUME NEW w \in Workers, RefundOpen(w) PROVE Goal
  <2>1. ASSUME NEW a, Becomes(w, [workers[w] EXCEPT !.pc = "send", !.attempt = a]) PROVE Goal
    <3>1. /\ workers'[w] = [workers[w] EXCEPT !.pc = "send", !.attempt = a]
          /\ \A x \in Workers \ {w} : workers'[x] = workers[x]
      BY <1>1, <2>1
    <3>2. workers'[w].pc = "send" /\ SameTask(w)
      BY <1>0, <3>1 DEF Worker, SameTask
    <3>3. Opens(w)
      BY <1>10, <3>2 DEF Opens
    <3> QED
      BY <3>1, <3>3 DEF Phase
  <2> HIDE DEF Goal
  <2> QED
    BY <1>2, <1>9, <1>10, <2>1 DEF RefundOpen
<1>11. ASSUME NEW w \in Workers, RefundSend(w) PROVE Goal
  <2>1. PICK o : Becomes(w, [workers[w] EXCEPT !.pc = "complete", !.outcome = o])
    BY <1>11 DEF RefundSend
  <2>2. /\ workers'[w] = [workers[w] EXCEPT !.pc = "complete", !.outcome = o]
        /\ \A x \in Workers \ {w} : workers'[x] = workers[x]
    BY <1>1, <2>1
  <2>3. workers'[w].pc = "complete" /\ SameTask(w)
    BY <1>0, <2>2 DEF Worker, SameTask
  <2>4. Sends(w)
    BY <1>11, <2>3 DEF Sends
  <2> QED
    BY <2>2, <2>4 DEF Phase
<1>12. ASSUME NEW w \in Workers, RefundComplete(w) PROVE Goal
  <2> HIDE DEF Goal
  <2> QED
    BY <1>9, <1>12 DEF RefundComplete
<1>13. ASSUME NEW w \in Workers, NEW e \in Events, DecideCancellation(w, e) PROVE Goal
  <2>1. e \in CancelEvents /\ e \in mail
    BY <1>13 DEF DecideCancellation, CancelEvents
  <2>2. /\ workers'[w] = [Idle EXCEPT !.pc = "execute", !.event = e, !.key = CancellationKey,
                             !.amount = decision'.refund, !.outcome = decision'.status]
        /\ \A x \in Workers \ {w} : workers'[x] = workers[x]
    BY <1>1, <1>13 DEF DecideCancellation
  <2>3. Decides(w)
    BY <1>13, <2>1, <2>2 DEF Decides, Idle
  <2> QED
    BY <2>2, <2>3 DEF Phase
<1>14. ASSUME NEW w \in Workers, ExecuteCancellation(w) PROVE Goal
  <2>1. /\ workers'[w] = [workers[w] EXCEPT !.pc = IF RefundDue(workers[w]) THEN "refund" ELSE "mark",
                                            !.outcome = "none"]
        /\ \A x \in Workers \ {w} : workers'[x] = workers[x]
    BY <1>1, <1>14 DEF ExecuteCancellation
  <2>2. Executes(w)
    BY <1>0, <1>14, <2>1 DEF Executes, SameTask, Worker
  <2> QED
    BY <2>1, <2>2 DEF Phase
<1>15. ASSUME NEW w \in Workers, RecordExecution(w) PROVE Goal
  <2>1. /\ workers'[w] = [workers[w] EXCEPT !.pc = "mark", !.outcome = "none"]
        /\ \A x \in Workers \ {w} : workers'[x] = workers[x]
    BY <1>1, <1>15 DEF RecordExecution
  <2>2. Records(w)
    BY <1>0, <1>15, <2>1 DEF Records, Worker
  <2> QED
    BY <2>1, <2>2 DEF Phase
<1>16. ASSUME NEW w \in Workers, NEW e \in Events, HandleExpired(w) \/ HandleRefunded(w, e) PROVE Goal
  <2>1. PICK y \in {Expired} \cup OrderKeys : Becomes(w, [Idle EXCEPT !.pc = "mark", !.event = y])
    BY <1>16 DEF HandleExpired, HandleRefunded
  <2>2. /\ workers'[w] = [Idle EXCEPT !.pc = "mark", !.event = y]
        /\ \A x \in Workers \ {w} : workers'[x] = workers[x]
    BY <1>1, <2>1
  <2>3. y \notin CancelEvents
    BY DEF CancelEvents, Cancelled, Expired, OrderKeys, CancellationKey, UnconfirmableKey
  <2>4. Marks(w)
    BY <2>2, <2>3 DEF Marks, Idle
  <2> QED
    BY <2>2, <2>4 DEF Phase
<1>17. ASSUME NEW w \in Workers,
              \/ InitiateRefused(w) \/ InitiateInsert(w) \/ CallbackFailed(w) \/ MarkPublished(w)
              \/ RemedyCommit(w) \/ Crash(w)
       PROVE  Goal
  <2> HIDE DEF Goal
  <2> QED
    BY <1>2, <1>17
    DEF InitiateRefused, InitiateInsert, CallbackFailed, MarkPublished, RemedyCommit, Crash
<1> HIDE DEF Goal
<1>18. workers' = workers \/ Goal
  BY <1>4, <1>5, <1>6, <1>7, <1>8, <1>10, <1>11, <1>12, <1>13, <1>14, <1>15, <1>16, <1>17
  DEF Next, Request, Handle, Proceed, Workers, vars, CustomerDecides, Lapse,
      ConfirmWithoutCollection, ExpireBooking, CancelBooking
<1> QED
  BY <1>18 DEF Goal

---------------------------------------------------------------------------
(* Attempts and their intents.                                             *)

\* An attempt is inserted only when its intent has none open, and a verdict
\* settles the intent only while it is waiting for it.
LEMMA NextSettles ==
  ASSUME CheckoutInv, AttemptsSettle, [Next]_vars
  PROVE  AttemptsSettle'
<1>0. /\ attempts \in [Attempts -> AttemptRow] /\ intents \in [Intents -> IntentRow]
      /\ \A a \in Attempts : attempts[a].status # "none" =>
           attempts[a].intent \in Intents /\ intents[attempts[a].intent].status # "none"
  BY DEF CheckoutInv, TypeOK, PaymentTypeOK, AttemptsPlaced
<1>1. ASSUME attempts' = attempts,
             \A i \in Intents : intents[i].status # "none" =>
               intents'[i].status = intents[i].status \/ intents'[i].status = "expired"
      PROVE  AttemptsSettle'
  BY <1>0, <1>1 DEF AttemptsSettle
<1>2. ASSUME NEW w \in Workers, CheckoutPay(w) PROVE AttemptsSettle'
  <2>1. \A i \in Intents : intents[i].status # "none" => intents'[i] = intents[i]
    BY <1>0, <1>2 DEF CheckoutPay, IntentForOrder
  <2> QED
    BY <1>1, <1>2, <2>1 DEF CheckoutPay
<1>3. ASSUME NEW w \in Workers, InitiateRefused(w) PROVE AttemptsSettle'
  <2>1. \A i \in Intents : intents'[i].status = intents[i].status \/ intents'[i].status = "expired"
    BY <1>0, <1>3 DEF InitiateRefused, ExpireOnRead, IntentRow
  <2> QED
    BY <1>1, <1>3, <2>1 DEF InitiateRefused
<1>4. ASSUME NEW w \in Workers, InitiateInsert(w) PROVE AttemptsSettle'
  <2>1. CASE ~AttemptAdmitted(workers[w].intent)
    BY <1>1, <1>4, <2>1 DEF InitiateInsert
  <2>2. CASE AttemptAdmitted(workers[w].intent)
    <3> DEFINE i == workers[w].intent
               a == workers[w].attempt
    <3>1. a \in Attempts /\ attempts[a].status = "none" /\ i \in Intents /\ intents[i].status # "none"
      BY <1>4 DEF InitiateInsert, CheckoutInv, WorkersHold, WorkerHolds
    <3>2. \A x \in Attempts : ~(attempts[x].status = "initiated" /\ attempts[x].intent = i)
      BY <2>2 DEF AttemptAdmitted, OpenAttempts
    <3>3. /\ attempts'[a] = [status |-> "initiated", intent |-> i]
          /\ \A x \in Attempts : x # a => attempts'[x] = attempts[x]
          /\ intents'[i].status = IF intents[i].status \in {"created", "failed"} THEN "pending"
                                  ELSE intents[i].status
          /\ \A j \in Intents : j # i => intents'[j] = intents[j]
      BY <1>0, <1>4, <2>2, <3>1 DEF InitiateInsert, AttemptInserted, IntentRow
    <3>4. intents'[i].status \in {"pending", "expired", "succeeded"}
      BY <1>0, <3>1, <3>3 DEF IntentRow
    <3> HIDE DEF i, a
    <3>5. ASSUME NEW x \in Attempts
          PROVE  /\ attempts'[x].status = "initiated" =>
                      intents'[attempts'[x].intent].status \in {"pending", "expired", "succeeded"}
                 /\ attempts'[x].status = "succeeded" =>
                      intents'[attempts'[x].intent].status \in {"expired", "succeeded"}
      <4>1. CASE x = a
        BY <3>3, <3>4, <4>1
      <4>2. CASE x # a /\ attempts[x].status # "none"
        BY <1>0, <3>1, <3>2, <3>3, <4>2 DEF AttemptsSettle
      <4>3. CASE x # a /\ attempts[x].status = "none"
        BY <3>3, <4>3
      <4> QED
        BY <4>1, <4>2, <4>3
    <3>6. ASSUME NEW x \in Attempts, NEW y \in Attempts, attempts'[x].status = "initiated",
                 attempts'[y].status = "initiated", attempts'[x].intent = attempts'[y].intent
          PROVE  x = y
      BY <3>1, <3>2, <3>3, <3>6 DEF AttemptsSettle
    <3> QED
      BY <3>5, <3>6 DEF AttemptsSettle
  <2> QED
    BY <2>1, <2>2
<1>5. ASSUME NEW a \in Attempts, NEW v, attempts[a].status = "initiated", VerdictRecorded(a, v)
      PROVE  AttemptsSettle'
  <2> DEFINE i == attempts[a].intent
  <2>1. i \in Intents /\ intents[i].status \in {"pending", "expired", "succeeded"}
    BY <1>0, <1>5 DEF AttemptsSettle
  <2>2. /\ \A x \in Attempts : x # a => attempts'[x] = attempts[x]
        /\ attempts'[a].status = IF v = "succeeded" THEN "succeeded" ELSE "failed"
        /\ attempts'[a].intent = i
        /\ \A j \in Intents : j # i => intents'[j] = intents[j]
        /\ intents[i].status = "pending" =>
             intents'[i].status = IF v = "succeeded" THEN "succeeded" ELSE "failed"
        /\ intents[i].status # "pending" => intents'[i].status = intents[i].status
    BY <1>5, <2>1, VerdictRows
  <2>3. \A x \in Attempts : (x # a /\ attempts[x].status = "initiated") => attempts[x].intent # i
    BY <1>5 DEF AttemptsSettle
  <2> HIDE DEF i
  <2>4. ASSUME NEW x \in Attempts
        PROVE  /\ attempts'[x].status = "initiated" =>
                    intents'[attempts'[x].intent].status \in {"pending", "expired", "succeeded"}
               /\ attempts'[x].status = "succeeded" =>
                    intents'[attempts'[x].intent].status \in {"expired", "succeeded"}
    <3>1. CASE x = a
      BY <2>1, <2>2, <3>1
    <3>2. CASE x # a /\ attempts[x].status # "none"
      BY <1>0, <2>1, <2>2, <2>3, <3>2 DEF AttemptsSettle
    <3>3. CASE x # a /\ attempts[x].status = "none"
      BY <2>2, <3>3
    <3> QED
      BY <3>1, <3>2, <3>3
  <2>5. ASSUME NEW x \in Attempts, NEW y \in Attempts, attempts'[x].status = "initiated",
               attempts'[y].status = "initiated", attempts'[x].intent = attempts'[y].intent
        PROVE  x = y
    BY <2>2, <2>5 DEF AttemptsSettle
  <2> QED
    BY <2>4, <2>5 DEF AttemptsSettle
<1>6. ASSUME NEW w \in Workers, CallbackFailed(w) \/ Succeeds(w) PROVE AttemptsSettle'
  <2>1. workers[w].attempt \in Attempts
    BY <1>6 DEF CallbackFailed, Succeeds, CheckoutInv, WorkersHold, WorkerHolds
  <2> QED
    BY <1>1, <1>5, <1>6, <2>1 DEF CallbackFailed, Succeeds
<1>7. ASSUME NEW i \in Intents, Lapse(i) PROVE AttemptsSettle'
  <2>1. \A j \in Intents : intents'[j].status = intents[j].status
    BY <1>0, <1>7 DEF Lapse, IntentRow
  <2> QED
    BY <1>1, <1>7, <2>1 DEF Lapse
<1>8. ASSUME UNCHANGED <<intents, attempts>> PROVE AttemptsSettle'
  BY <1>1, <1>8
<1> QED
  BY <1>2, <1>3, <1>4, <1>6, <1>7, <1>8
  DEF Next, Request, Proceed, Handle, vars, RetryPayment,
      InitiateAtGateway, CustomerDecides, Callback,
      CallbackCaptured, CallbackDuplicate, RefundOpen, RefundSend, RefundComplete,
      ConfirmWithoutCollection, ExpireBooking, CancelBooking, DecideCancellation,
      ExecuteCancellation, RecordExecution, HandleExpired, HandleRefunded, MarkPublished,
      RemedyBegin, RemedyCommit, Crash, paymentVars, Workers

---------------------------------------------------------------------------
(* What a step does to refunds, mail and a worker with a refund to open.   *)

\* A refund row stays, and a new one is of a worker that had it to open.
LEMMA RefundRows ==
  ASSUME CheckoutInv, [Next]_vars
  PROVE  \A k \in RefundKeys :
           /\ refunds[k].status # "none" => refunds'[k].status # "none"
           /\ \/ refunds'[k].amount = refunds[k].amount
              \/ \E w \in Workers : /\ workers[w].pc = "refund" /\ workers[w].key = k
                                    /\ refunds'[k].amount = workers[w].amount
<1> SUFFICES ASSUME NEW k \in RefundKeys
             PROVE  /\ refunds[k].status # "none" => refunds'[k].status # "none"
                    /\ \/ refunds'[k].amount = refunds[k].amount
                       \/ \E w \in Workers : /\ workers[w].pc = "refund" /\ workers[w].key = k
                                             /\ refunds'[k].amount = workers[w].amount
  OBVIOUS
<1>0. refunds \in [RefundKeys -> RefundRow]
  BY DEF CheckoutInv, TypeOK, PaymentTypeOK
<1>1. CASE refunds' = refunds
  BY <1>1
<1>2. ASSUME NEW w \in Workers, workers[w].pc = "refund",
             refunds' = [refunds EXCEPT ![workers[w].key] =
                           [status |-> "pending", amount |-> workers[w].amount]]
      PROVE  \/ refunds'[k] = refunds[k]
             \/ /\ workers[w].key = k
                /\ refunds'[k].status = "pending" /\ refunds'[k].amount = workers[w].amount
  BY <1>0, <1>2
<1>3. ASSUME NEW w \in Workers, workers[w].pc = "complete",
             RefundCompleted(workers[w].key, workers[w].outcome)
      PROVE  /\ refunds'[k].amount = refunds[k].amount
             /\ refunds[k].status # "none" => refunds'[k].status # "none"
  <2>1. workers[w].outcome \in {"succeeded", "failed", "manual_required"}
    BY <1>3 DEF CheckoutInv, WorkersHold, WorkerHolds
  <2> QED
    BY <1>0, <1>3, <2>1 DEF RefundCompleted, RefundRow
<1> QED
  BY <1>1, <1>2, <1>3, RefundStep

\* Events are announced by expiry, cancellation and a completed refund, and
\* leave only when they are published.
LEMMA MailStep ==
  ASSUME CheckoutInv, [Next]_vars
  PROVE  /\ \A k \in OrderKeys : (k \in mail' /\ k \notin mail) =>
              \E w \in Workers : RefundComplete(w) /\ workers[w].key = k
         /\ \A e \in mail : e \in mail' \/ \E w \in Workers : MarkPublished(w) /\ workers[w].event = e
<1>1. \A k \in OrderKeys : k # Expired /\ \A n : k # Cancelled(n)
  BY DEF OrderKeys, CancellationKey, UnconfirmableKey, Expired, Cancelled
<1>2. ASSUME NEW w \in Workers, RefundComplete(w)
      PROVE  mail' = mail \/ mail' = mail \cup {workers[w].key}
  BY <1>2 DEF RefundComplete
<1>3. ASSUME NEW w \in Workers, MarkPublished(w) PROVE mail' = mail \ {workers[w].event}
  BY <1>3 DEF MarkPublished
<1>4. CASE ExpireBooking
  BY <1>1, <1>4 DEF ExpireBooking
<1>5. ASSUME NEW actor, CancelBooking(actor) PROVE \E n : mail' = mail \cup {Cancelled(n)}
  BY <1>5 DEF CancelBooking
<1>6. \/ mail' = mail \/ ExpireBooking \/ \E actor : CancelBooking(actor)
      \/ \E w \in Workers : RefundComplete(w) \/ MarkPublished(w)
  BY DEF Next, Request, Proceed, Handle, vars, CheckoutPay, RetryPayment, InitiateRefused,
      InitiateAtGateway, InitiateInsert, CustomerDecides, Lapse, Callback, CallbackFailed,
      CallbackCaptured, CallbackDuplicate, RefundOpen, RefundSend,
      ConfirmWithoutCollection, DecideCancellation,
      ExecuteCancellation, RecordExecution, HandleExpired, HandleRefunded, RemedyBegin,
      RemedyCommit, Crash, Workers
<1> QED
  BY <1>1, <1>2, <1>3, <1>4, <1>5, <1>6

\* A worker with a refund to open opens it, unless it is cut off.
LEMMA RefundKept ==
  ASSUME CheckoutInv, [Next]_vars, NEW x \in Workers, workers[x].pc = "refund"
  PROVE  workers'[x] = workers[x] \/ RefundOpen(x) \/ Crash(x)
<1>0. workers \in [Workers -> Worker]
  BY DEF CheckoutInv, TypeOK
<1>1. ASSUME NEW w \in Workers, NEW q, Becomes(w, q), w # x PROVE workers'[x] = workers[x]
  BY <1>0, <1>1 DEF Becomes
<1>2. ASSUME NEW w \in Requests, Request(w) PROVE workers'[x] = workers[x]
  BY <1>1, <1>2 DEF Request, CheckoutPay, RetryPayment, Callback, RemedyBegin, Workers
<1>3. ASSUME NEW w \in Relays, NEW e \in Events, Handle(w, e) PROVE workers'[x] = workers[x]
  BY <1>1, <1>3 DEF Handle, DecideCancellation, HandleExpired, HandleRefunded, Workers
<1>4. ASSUME NEW w \in Workers, w # x, Proceed(w) \/ Crash(w) PROVE workers'[x] = workers[x]
  BY <1>1, <1>4 DEF Proceed, InitiateRefused, InitiateAtGateway, InitiateInsert, CallbackFailed,
     CallbackCaptured, CallbackDuplicate, Compensate, RefundOpen, RefundSend, RefundComplete,
     ExecuteCancellation, RecordExecution, MarkPublished, RemedyCommit, Crash, Done
<1>5. Proceed(x) => RefundOpen(x)
  BY DEF Proceed, InitiateRefused, InitiateAtGateway, InitiateInsert, CallbackFailed,
     CallbackCaptured, CallbackDuplicate, Succeeds, RefundSend, RefundComplete,
     ExecuteCancellation, RecordExecution, MarkPublished, RemedyCommit
<1> QED
  BY <1>2, <1>3, <1>4, <1>5
  DEF Next, vars, CustomerDecides, Lapse, ConfirmWithoutCollection, ExpireBooking, CancelBooking

---------------------------------------------------------------------------
(* Amounts, and rows behind what was announced.                            *)

\* Nothing asks for more than the schedule collects.
LEMMA NextAmounts ==
  ASSUME CheckoutInv, AmountsFit, [Next]_vars
  PROVE  AmountsFit'
<1>0. /\ Advances /\ TypeOK /\ TypeOK'
      /\ schedule \in Nat /\ order.collected \in Nat /\ order.collected <= schedule
  <2>1. schedule \in Nat
    BY CheckoutAssumption DEF CheckoutInv, TypeOK
  <2> QED
    BY <2>1, NextAdvances, NextTypes DEF CheckoutInv, OrderTells, TypeOK, OrderRow
<1>1. \A i \in Intents : intents'[i].status # "none" => intents'[i].amount = schedule'
  BY <1>0, NewRows DEF Advances, AmountsFit
<1>2. \A k \in OrderKeys : refunds'[k].amount <= schedule'
  <2> SUFFICES ASSUME NEW k \in OrderKeys PROVE refunds'[k].amount <= schedule'
    OBVIOUS
  <2>1. k \in RefundKeys
    BY DEF RefundKeys
  <2> QED
    BY <1>0, <2>1, RefundRows DEF Advances, AmountsFit
<1>3. decision'.refund <= schedule'
  <2>1. CASE decision' = decision
    BY <1>0, <2>1 DEF AmountsFit, Advances
  <2>2. CASE decision' \in NewDecisions
    <3>1. CASE refunds[CancellationKey].status # "none"
      BY <1>0, <2>2, <3>1, DecisionsTyped DEF AmountsFit, Advances, OrderKeys
    <3>2. CASE refunds[CancellationKey].status = "none"
      <4>1. /\ decision'.refund + decision'.retained = CollectedRemaining
            /\ CollectedRemaining \in 0 .. order.collected
        BY <1>0, <2>2, <3>2, DecisionsTyped
      <4>2. decision'.refund \in Nat /\ decision'.retained \in Nat
        BY <1>0 DEF TypeOK, DecisionRow
      <4> QED
        BY <1>0, <4>1, <4>2 DEF Advances
    <3> QED
      BY <3>1, <3>2
  <2>3. ASSUME NEW w \in Workers, RecordExecution(w) PROVE decision'.refund = decision.refund
    BY <1>0, <2>3 DEF RecordExecution, TypeOK, DecisionRow
  <2> QED
    BY <1>0, <2>1, <2>2, <2>3, DecisionStep DEF AmountsFit, Advances
<1>4. ASSUME NEW x \in Workers, workers'[x].pc \in {"execute", "refund"}
      PROVE  workers'[x].amount <= schedule'
  <2>1. CASE workers'[x] = workers[x]
    BY <1>0, <1>4, <2>1 DEF AmountsFit, Advances
  <2>2. CASE Phase(x)
    <3>1. CASE Compensates(x) \/ GivesBack(x)
      BY <1>0, <3>1 DEF Compensates, GivesBack, Advances
    <3>2. CASE Decides(x)
      BY <1>3, <3>2 DEF Decides
    <3>3. CASE Executes(x)
      BY <1>0, <1>4, <3>3 DEF Executes, ExecuteCancellation, AmountsFit, Advances
    <3> QED
      BY <1>4, <2>2, <3>1, <3>2, <3>3 DEF Phase, Early, Opens, Sends, Completes, Records, Marks
  <2> QED
    BY <2>1, <2>2, RowStep
<1> QED
  BY <1>1, <1>2, <1>3, <1>4 DEF AmountsFit

\* A refund is sent, announced and counted only once its row is written.
LEMMA NextBehind ==
  ASSUME CheckoutInv, RowsBehind, [Next]_vars
  PROVE  RowsBehind'
<1>0. /\ refunds \in [RefundKeys -> RefundRow] /\ order \in OrderRow
      /\ \A k \in OrderKeys : k \in RefundKeys
  BY DEF CheckoutInv, TypeOK, PaymentTypeOK, RefundKeys
<1>1. \A k \in RefundKeys : refunds[k].status # "none" => refunds'[k].status # "none"
  BY RefundRows
<1>2. \A w \in Workers : workers[w].pc \in {"refund", "send", "complete", "record"} =>
        workers[w].key \in RefundKeys
  BY <1>0 DEF CheckoutInv, WorkersHold, WorkerHolds, OrderKeys
<1>3. ASSUME NEW x \in Workers, workers'[x].pc \in {"send", "complete", "record"}
      PROVE  refunds'[workers'[x].key].status # "none"
  <2>1. CASE workers'[x] = workers[x]
    BY <1>1, <1>2, <1>3, <2>1 DEF RowsBehind
  <2>2. CASE Opens(x)
    <3>1. workers'[x].key = workers[x].key /\ workers[x].key \in RefundKeys
      BY <1>2, <2>2 DEF Opens, SameTask, RefundOpen
    <3>2. CASE refunds[workers[x].key].status # "none"
      BY <1>1, <3>1, <3>2
    <3>3. CASE refunds[workers[x].key].status = "none"
      <4>1. ~Done(x)
        BY <2>2 DEF Opens, Done, Becomes, CheckoutInv, TypeOK, Idle
      <4>2. refunds' = [refunds EXCEPT ![workers[x].key] =
                          [status |-> "pending", amount |-> workers[x].amount]]
        BY <2>2, <3>3, <4>1 DEF Opens, RefundOpen
      <4> QED
        BY <1>0, <3>1, <4>2
    <3> QED
      BY <3>2, <3>3
  <2>3. CASE Sends(x) \/ Completes(x)
    BY <1>1, <1>2, <2>3 DEF Sends, Completes, SameTask, RefundSend, RefundComplete, RowsBehind
  <2> QED
    BY <1>3, <2>1, <2>2, <2>3, RowStep
    DEF Phase, Early, Compensates, GivesBack, Decides, Executes, Records, Marks
<1>4. ASSUME NEW k \in OrderKeys, k \in mail' PROVE refunds'[k].status # "none"
  <2>1. CASE k \in mail
    BY <1>0, <1>1, <2>1 DEF RowsBehind
  <2>2. CASE k \notin mail
    <3>1. PICK w \in Workers : RefundComplete(w) /\ workers[w].key = k
      BY <1>4, <2>2, MailStep
    <3> QED
      BY <1>0, <1>1, <3>1 DEF RefundComplete, RowsBehind
  <2> QED
    BY <2>1, <2>2
<1>5. ASSUME order'.refunded > 0 PROVE RefundedBefore'
  <2>1. RefundedBefore => RefundedBefore'
    BY <1>0, <1>1 DEF RefundedBefore
  <2>2. order'.refunded = order.refunded \/ \E w \in Workers, k \in Events : HandleRefunded(w, k)
    BY <1>0, OrderStep DEF Capture, OrderCancelled, ConfirmWithoutCollection, OrderRow
  <2>3. ASSUME NEW w \in Workers, NEW k \in Events, HandleRefunded(w, k) PROVE RefundedBefore
    BY <2>3 DEF HandleRefunded, RowsBehind, RefundedBefore
  <2> QED
    BY <1>5, <2>1, <2>2, <2>3 DEF RowsBehind
<1> QED
  BY <1>3, <1>4, <1>5 DEF RowsBehind

---------------------------------------------------------------------------
(* Decisions.                                                              *)

\* What has been answered for stays answered for: refund rows and retentions
\* stay, and an intent that expired under its capture does not come back.
LEMMA AnsweredStays ==
  ASSUME CheckoutInv, AttemptsSettle, Decided, [Next]_vars, Answered
  PROVE  Answered'
<1>0. Advances /\ decision \in DecisionRow /\ order \in OrderRow
  BY NextAdvances DEF CheckoutInv, TypeOK
<1>1. CASE \E k \in OrderKeys : refunds[k].status # "none"
  BY <1>1, RefundRows DEF Answered, RefundKeys
<1>2. CASE decision.retained > 0
  <2>1. decision.status # "none"
    BY <1>2 DEF Decided
  <2>2. decision'.retained = decision.retained
    BY <1>0, <2>1, DecisionStep DEF RecordExecution, DecisionRow
  <2> QED
    BY <1>2, <2>2 DEF Answered
<1>3. CASE order.capture # 0 /\ intents[attempts[order.capture].intent].status # "succeeded"
  <2> DEFINE a == order.capture
             i == attempts[a].intent
  <2>1. a \in Attempts /\ attempts[a].status = "succeeded" /\ i \in Intents
    BY <1>0, <1>3 DEF CheckoutInv, OrderTells, OrderRow, AttemptsPlaced
  <2>2. intents[i].status = "expired"
    BY <1>3, <2>1 DEF AttemptsSettle
  <2>3. order'.capture = a /\ attempts'[a].intent = i /\ intents'[i].status = "expired"
    BY <1>0, <1>3, <2>1, <2>2 DEF Advances
  <2> QED
    BY <1>3, <2>3 DEF Answered
<1> QED
  BY <1>1, <1>2, <1>3 DEF Answered

\* A decision is new only through decideCancellation, which settles the order.
LEMMA NewDecision ==
  ASSUME CheckoutInv, [Next]_vars, decision.status = "none", decision'.status # "none"
  PROVE  /\ order' = OrderCancelled /\ decision' \in NewDecisions
         /\ UNCHANGED <<refunds, intents, attempts>>
<1>0. decision \in DecisionRow
  BY DEF CheckoutInv, TypeOK
<1>1. ASSUME NEW w \in Workers, RecordExecution(w) PROVE FALSE
  BY <1>0, <1>1 DEF RecordExecution, DecisionRow
<1>2. \E w \in Workers, e \in Events : DecideCancellation(w, e)
  BY <1>1
  DEF Next, Request, Proceed, Handle, vars, CheckoutPay, RetryPayment, InitiateRefused,
      InitiateAtGateway, InitiateInsert, CustomerDecides, Lapse, Callback, CallbackFailed,
      CallbackCaptured, CallbackDuplicate, RefundOpen, RefundSend, RefundComplete,
      ConfirmWithoutCollection, ExpireBooking, CancelBooking,
      ExecuteCancellation, HandleExpired, HandleRefunded, MarkPublished, RemedyBegin,
      RemedyCommit, Crash, outcomeVars, Workers
<1> QED
  BY <1>2 DEF DecideCancellation, Undecided, paymentVars

\* An order that no longer waits for money collects no more of it.
LEMMA SettledOrder ==
  ASSUME CheckoutInv, [Next]_vars, order.status # "pending"
  PROVE  order'.status # "pending" /\ order'.collected = order.collected
<1>0. order \in OrderRow
  BY DEF CheckoutInv, TypeOK
<1> QED
  BY <1>0, OrderStep DEF Capture, OrderCancelled, RefundCounted, ConfirmWithoutCollection, OrderRow

\* Decisions stay, cancellations are never uncounted, and a remedy that was
\* taken stays taken.
LEMMA OutcomeStays ==
  ASSUME CheckoutInv, Decided, [Next]_vars
  PROVE  /\ decision.status # "none" => decision'.status # "none"
         /\ booking'.cancels >= booking.cancels
         /\ booking'.cancels > 0 => booking'.status \in {"cancelled", "confirmed"}
         /\ remedy = "reschedule" => remedy' = "reschedule"
<1>0. decision \in DecisionRow /\ booking \in BookingRow /\ booking.cancels \in Nat
  BY DEF CheckoutInv, TypeOK, BookingRow
<1>1. decision.status # "none" => decision'.status # "none"
  <2>1. ASSUME NEW w \in Workers, RecordExecution(w) PROVE decision.status # "none" => decision'.status # "none"
    <3>1. workers[w].outcome # "none"
      BY <2>1 DEF RecordExecution, CheckoutInv, WorkersHold, WorkerHolds
    <3> QED
      BY <1>0, <2>1, <3>1 DEF RecordExecution, DecisionRow, ExecutionStatusOf
  <2> QED
    BY <2>1, DecisionStep
<1>2. /\ booking'.cancels >= booking.cancels
      /\ booking'.cancels > 0 => booking'.status \in {"cancelled", "confirmed"}
  <2>1. CASE booking' = booking
    BY <1>0, <2>1 DEF Decided
  <2>2. CASE booking' = [booking EXCEPT !.status = "confirmed"]
    BY <1>0, <2>2 DEF BookingRow
  <2>3. CASE ExpireBooking
    BY <1>0, <2>3 DEF ExpireBooking, BookingRow, CheckoutInv, BookingTells
  <2>4. ASSUME NEW actor, CancelBooking(actor)
        PROVE  booking'.cancels >= booking.cancels /\ booking'.status = "cancelled"
    BY <1>0, <2>4 DEF CancelBooking
  <2>5. \/ booking' = booking \/ booking' = [booking EXCEPT !.status = "confirmed"]
        \/ ExpireBooking \/ \E actor : CancelBooking(actor)
    BY DEF Next, Request, Proceed, Handle, vars, CheckoutPay, RetryPayment, InitiateRefused,
      InitiateAtGateway, InitiateInsert, CustomerDecides, Lapse, Callback, CallbackFailed,
      CallbackCaptured, CallbackDuplicate, RefundOpen, RefundSend, RefundComplete,
      ConfirmWithoutCollection, DecideCancellation,
      ExecuteCancellation, RecordExecution, HandleExpired, HandleRefunded, MarkPublished, RemedyBegin,
      RemedyCommit, Crash
  <2> QED
    BY <2>1, <2>2, <2>3, <2>4, <2>5
<1>3. remedy = "reschedule" => remedy' = "reschedule"
  BY DEF Next, Request, Proceed, Handle, vars, CheckoutPay, RetryPayment, InitiateRefused,
      InitiateAtGateway, InitiateInsert, CustomerDecides, Lapse, Callback, CallbackFailed,
      CallbackCaptured, CallbackDuplicate, RefundOpen, RefundSend, RefundComplete, CancelBooking,
      ConfirmWithoutCollection, DecideCancellation, ExpireBooking, outcomeVars,
      ExecuteCancellation, RecordExecution, HandleExpired, HandleRefunded, MarkPublished, RemedyBegin,
      RemedyCommit, Crash
<1> QED
  BY <1>1, <1>2, <1>3

\* Who handles a cancellation works from a decision, and a decision that leaves
\* nothing to refund has answered for the money.
LEMMA NextDecided ==
  ASSUME CheckoutInv, AttemptsSettle, RowsBehind, Decided, [Next]_vars
  PROVE  Decided'
<1>0. /\ decision \in DecisionRow /\ order \in OrderRow /\ decision' \in DecisionRow
      /\ workers \in [Workers -> Worker] /\ booking.cancels \in Nat /\ booking'.cancels \in Nat
      /\ TypeOK
  BY NextTypes DEF CheckoutInv, TypeOK, BookingRow
<1>1. Answered => Answered'
  BY AnsweredStays
<1>2. decision.status # "none" =>
        /\ decision'.status # "none" /\ order'.status # "pending"
        /\ order'.collected = order.collected
  BY OutcomeStays, SettledOrder DEF Decided
<1>3. decision'.status # "none" => order'.status # "pending"
  <2>1. order' = OrderCancelled => order'.status # "pending"
    BY <1>0 DEF OrderCancelled, OrderRow
  <2> QED
    BY <1>2, <2>1, NewDecision
<1>4. decision'.status = "none" => decision'.retained = 0
  <2>1. decision'.status = "none" => decision' = decision
    <3>1. ASSUME NEW w \in Workers, RecordExecution(w), decision'.status = "none" PROVE decision' = decision
      BY <1>0, <1>2, <3>1 DEF RecordExecution, DecisionRow
    <3> QED
      BY <1>0, <3>1, DecisionStep, DecisionsTyped
  <2> QED
    BY <2>1 DEF Decided
<1>5. (decision'.status # "none" /\ order'.collected > 0) =>
        Answered' \/ (decision'.status = "pending" /\ decision'.refund > 0)
  <2> SUFFICES ASSUME decision'.status # "none", order'.collected > 0
               PROVE  Answered' \/ (decision'.status = "pending" /\ decision'.refund > 0)
    OBVIOUS
  <2>1. CASE decision.status = "none"
    <3>1. /\ order' = OrderCancelled /\ decision' \in NewDecisions
          /\ UNCHANGED <<refunds, intents, attempts>>
      BY <2>1, NewDecision
    <3>2. order'.collected = order.collected
      BY <1>0, <3>1 DEF OrderCancelled, OrderRow
    <3>3. CASE \E k \in OrderKeys : refunds[k].status # "none"
      BY <3>1, <3>3 DEF Answered
    <3>4. CASE ~\E k \in OrderKeys : refunds[k].status # "none"
      <4>1. refunds[CancellationKey].status = "none" /\ refunds[UnconfirmableKey].status = "none"
        BY <3>4 DEF OrderKeys
      <4>2. ~(order.refunded > 0)
        BY <3>4 DEF RowsBehind, RefundedBefore
      <4>3. /\ decision'.status = "pending" <=> decision'.refund > 0
            /\ decision'.refund + decision'.retained = CollectedRemaining
            /\ CollectedRemaining \in 0 .. order.collected /\ CollectedRemaining # 0
        BY <1>0, <2>1, <3>1, <3>2, <4>1, <4>2, DecisionsTyped
      <4>4. decision'.refund > 0 \/ decision'.retained > 0
        BY <1>0, <4>3 DEF DecisionRow
      <4> QED
        BY <4>3, <4>4 DEF Answered
    <3> QED
      BY <3>3, <3>4
  <2>2. CASE decision.status # "none"
    <3>1. order.collected > 0
      BY <1>2, <2>2
    <3>2. CASE Answered
      BY <1>1, <3>2
    <3>3. CASE decision' = decision
      BY <1>1, <2>2, <3>1, <3>3 DEF Decided
    <3>4. ASSUME NEW w \in Workers, RecordExecution(w) PROVE Answered
      BY <3>4 DEF RecordExecution, RowsBehind, CheckoutInv, WorkersHold, WorkerHolds, Answered, OrderKeys
    <3> QED
      BY <1>1, <2>2, <3>3, <3>4, DecisionStep
  <2> QED
    BY <2>1, <2>2
<1>6. order'.collected > 0 => order'.capture # 0
  <2>1. ASSUME NEW w \in Workers, Succeeds(w), Capture(workers[w].attempt) PROVE order'.capture # 0
    <3>1. workers[w].attempt \in Attempts
      BY <2>1 DEF Succeeds, CheckoutInv, WorkersHold, WorkerHolds
    <3>2. workers[w].attempt # 0
      BY <3>1, PaymentAssumption DEF Attempts
    <3> QED
      BY <1>0, <2>1, <3>2 DEF Capture, OrderRow
  <2>2. \/ order'.collected = order.collected /\ order'.capture = order.capture
        \/ \E w \in Workers : Succeeds(w) /\ Capture(workers[w].attempt)
    BY <1>0, OrderStep DEF OrderCancelled, RefundCounted, ConfirmWithoutCollection, OrderRow
  <2> QED
    BY <2>1, <2>2 DEF Decided
<1>7. ASSUME NEW x \in Workers, workers'[x] = workers[x]
      PROVE  LET q == workers'[x] IN
             /\ q.event \in CancelEvents => decision'.status # "none" /\ booking'.cancels > 0
             /\ (q.pc = "execute" /\ (q.outcome # "pending" \/ q.amount = 0)) =>
                  (order'.collected > 0 => Answered')
             /\ (q.pc = "mark" /\ q.event \in CancelEvents) =>
                  (order'.collected > 0 => Answered' \/ remedy' = "reschedule")
             /\ q.pc = "execute" => q.event \in CancelEvents
  BY <1>0, <1>1, <1>2, <1>7, OutcomeStays DEF Decided
<1>8. None \notin CancelEvents
  BY DEF None, CancelEvents, Cancelled
<1>9. ASSUME NEW x \in Workers, Phase(x)
      PROVE  LET q == workers'[x] IN
             /\ q.event \in CancelEvents => decision'.status # "none" /\ booking'.cancels > 0
             /\ (q.pc = "execute" /\ (q.outcome # "pending" \/ q.amount = 0)) =>
                  (order'.collected > 0 => Answered')
             /\ (q.pc = "mark" /\ q.event \in CancelEvents) =>
                  (order'.collected > 0 => Answered' \/ remedy' = "reschedule")
             /\ q.pc = "execute" => q.event \in CancelEvents
  <2>0. workers[x].event \in CancelEvents => decision.status # "none" /\ booking.cancels > 0
    BY DEF Decided
  <2>1. workers[x].event \in CancelEvents => decision'.status # "none" /\ booking'.cancels > 0
    BY <1>0, <1>2, <2>0, OutcomeStays
  <2>2. CASE Early(x) \/ Compensates(x) \/ GivesBack(x) \/ Opens(x) \/ Sends(x) \/ Completes(x) \/ Marks(x)
    BY <1>8, <2>1, <2>2
    DEF Early, Compensates, GivesBack, Opens, Sends, Completes, Marks, SameTask
  <2>3. CASE Decides(x)
    <3>1. PICK e \in CancelEvents :
            /\ DecideCancellation(x, e) /\ e \in mail
            /\ workers'[x].pc = "execute" /\ workers'[x].event = e
            /\ workers'[x].amount = decision'.refund /\ workers'[x].outcome = decision'.status
      BY <2>3 DEF Decides
    <3>2. booking.cancels > 0 /\ booking'.cancels > 0
      BY <1>0, <3>1, OutcomeStays DEF CancelEvents, CheckoutInv, BookingTells
    <3>3. decision'.status # "none"
      BY <1>0, <3>1, DecisionsTyped DEF DecideCancellation, Undecided
    <3> QED
      BY <1>0, <1>5, <3>1, <3>2, <3>3
  <2>4. CASE Executes(x)
    <3>1. /\ workers[x].pc = "execute" /\ workers[x].event \in CancelEvents
          /\ workers'[x].event = workers[x].event
          /\ workers'[x].pc = IF RefundDue(workers[x]) THEN "refund" ELSE "mark"
          /\ remedy' = remedy
      BY <2>4 DEF Executes, ExecuteCancellation, SameTask, Decided, outcomeVars
    <3>2. ASSUME ~RefundDue(workers[x]), order.collected > 0 PROVE Answered \/ remedy = "reschedule"
      <4>1. workers[x].amount \in Nat
        BY <1>0 DEF Worker
      <4> QED
        BY <3>1, <3>2, <4>1 DEF RefundDue, Decided
    <3> QED
      BY <1>1, <1>2, <2>0, <2>1, <3>1, <3>2
  <2>5. CASE Records(x)
    <3>1. workers[x].pc = "record" /\ workers'[x].pc = "mark" /\ workers'[x].event = workers[x].event
      BY <2>5 DEF Records, RecordExecution
    <3>2. Answered
      BY <3>1 DEF RowsBehind, CheckoutInv, WorkersHold, WorkerHolds, Answered, OrderKeys
    <3> QED
      BY <1>1, <2>1, <3>1, <3>2
  <2> QED
    BY <1>9, <2>2, <2>3, <2>4, <2>5 DEF Phase
<1>10. booking'.cancels > 0 => booking'.status \in {"cancelled", "confirmed"}
  BY OutcomeStays
<1>11. \A x \in Workers : workers'[x] = workers[x] \/ Phase(x)
  BY RowStep
<1> QED
  BY <1>3, <1>4, <1>5, <1>6, <1>7, <1>9, <1>10, <1>11 DEF Decided

---------------------------------------------------------------------------
(* Nothing is forgotten.                                                   *)

\* An attempt succeeds only in a callback, which captures it or gives it back.
LEMMA NewSuccess ==
  ASSUME CheckoutInv, [Next]_vars, NEW a \in Attempts,
         attempts[a].status # "succeeded", attempts'[a].status = "succeeded"
  PROVE  \E w \in Workers : /\ workers[w].attempt = a
                            /\ \/ \E permitted \in BOOLEAN : CallbackCaptured(w, permitted)
                               \/ CallbackDuplicate(w)
<1>0. attempts \in [Attempts -> AttemptRow]
  BY DEF CheckoutInv, TypeOK, PaymentTypeOK
<1>1. ASSUME NEW w \in Workers, InitiateInsert(w) PROVE FALSE
  BY <1>0, <1>1 DEF InitiateInsert, AttemptInserted
<1>2. ASSUME NEW w \in Workers, CallbackFailed(w) PROVE FALSE
  <2>1. workers[w].attempt \in Attempts
    BY <1>2 DEF CallbackFailed, CheckoutInv, WorkersHold, WorkerHolds
  <2>2. CASE attempts[workers[w].attempt].status # "initiated"
    BY <1>2, <2>2 DEF CallbackFailed
  <2>3. CASE attempts[workers[w].attempt].status = "initiated"
    BY <1>2, <2>1, <2>3, VerdictRows DEF CallbackFailed
  <2> QED
    BY <2>2, <2>3
<1>3. ASSUME NEW w \in Workers, Succeeds(w) PROVE workers[w].attempt = a
  <2>1. workers[w].attempt \in Attempts
    BY <1>3 DEF Succeeds, CheckoutInv, WorkersHold, WorkerHolds
  <2> QED
    BY <1>3, <2>1, VerdictRows DEF Succeeds
<1>4. attempts' # attempts
  OBVIOUS
<1>5. \E w \in Workers : \/ \E permitted \in BOOLEAN : CallbackCaptured(w, permitted)
                         \/ CallbackDuplicate(w)
  BY <1>1, <1>2, <1>4
  DEF Next, Request, Proceed, Handle, vars, CheckoutPay, RetryPayment, InitiateRefused,
      InitiateAtGateway, CustomerDecides, Lapse, Callback, RefundOpen, RefundSend, RefundComplete,
      ConfirmWithoutCollection, ExpireBooking, CancelBooking, DecideCancellation,
      ExecuteCancellation, RecordExecution, HandleExpired, HandleRefunded, MarkPublished,
      RemedyBegin, RemedyCommit, Crash, paymentVars, Workers
<1> QED
  BY <1>3, <1>5 DEF CallbackCaptured, CallbackDuplicate

\* A worker that opens a refund leaves its row, or finds no intent of the order
\* that the amount still fits.
LEMMA Opened ==
  ASSUME CheckoutInv, NEW w \in Workers, RefundOpen(w)
  PROVE  \/ refunds'[workers[w].key].status # "none"
         \/ /\ refunds[workers[w].key].status = "none"
            /\ \A i \in RefundableIntents : ~WithinCaptured(workers[w].key, i, workers[w].amount)
<1>1. workers[w].key \in RefundKeys /\ refunds \in [RefundKeys -> RefundRow]
  BY DEF RefundOpen, CheckoutInv, WorkersHold, WorkerHolds, TypeOK, PaymentTypeOK
<1>2. ASSUME refunds' = [refunds EXCEPT ![workers[w].key] =
                           [status |-> "pending", amount |-> workers[w].amount]]
      PROVE  refunds'[workers[w].key].status # "none"
  BY <1>1, <1>2
<1> QED
  BY <1>2 DEF RefundOpen

\* A duplicate charge is given back by the callback that settled it.
LEMMA NextDuplicatesAnswered ==
  ASSUME CheckoutInv, AttemptsSettle, AmountsFit, DuplicatesAnswered, [Next]_vars, crashes' = crashes
  PROVE  DuplicatesAnswered'
<1>0. /\ Advances /\ order \in OrderRow /\ workers \in [Workers -> Worker]
      /\ refunds \in [RefundKeys -> RefundRow] /\ schedule \in Nat
      /\ \A a \in Attempts : DuplicateKey(a) \in RefundKeys /\ DuplicateKey(a) \notin OrderKeys
  <2>1. schedule \in Nat
    BY CheckoutAssumption DEF CheckoutInv, TypeOK
  <2> QED
    BY <2>1, NextAdvances
    DEF CheckoutInv, TypeOK, PaymentTypeOK, RefundKeys, DuplicateKey, OrderKeys, CancellationKey,
        UnconfirmableKey
<1>1. ASSUME NEW a \in Attempts, attempts'[a].status = "succeeded", a # order'.capture
      PROVE  \/ refunds'[DuplicateKey(a)].status # "none"
             \/ intents'[attempts'[a].intent].status # "succeeded"
             \/ Refunding(DuplicateKey(a))'
  <2>1. CASE attempts[a].status # "succeeded"
    <3>1. PICK w \in Workers : /\ workers[w].attempt = a
                               /\ \/ \E permitted \in BOOLEAN : CallbackCaptured(w, permitted)
                                  \/ CallbackDuplicate(w)
      BY <1>1, <2>1, NewSuccess
    <3>2. ASSUME NEW permitted \in BOOLEAN, CallbackCaptured(w, permitted) PROVE FALSE
      BY <1>0, <1>1, <3>1, <3>2 DEF CallbackCaptured, Capture, OrderRow
    <3>3. workers' = [workers EXCEPT ![w] =
                        [Idle EXCEPT !.pc = "refund", !.key = DuplicateKey(a), !.amount = schedule]]
      BY <3>1, <3>2 DEF CallbackDuplicate, Compensate, Becomes
    <3>4. workers'[w].pc = "refund" /\ workers'[w].key = DuplicateKey(a)
      BY <1>0, <3>3 DEF Idle
    <3> QED
      BY <3>4 DEF Refunding, DuplicateKey
  <2>2. CASE attempts[a].status = "succeeded"
    <3> DEFINE i == attempts[a].intent
    <3>1. a # order.capture
      BY <1>0, <1>1, PaymentAssumption DEF Advances, Attempts
    <3>2. i \in Intents /\ attempts'[a].intent = i /\ intents[i].status \in {"expired", "succeeded"}
          /\ intents'[i].status = intents[i].status
      BY <1>0, <2>2 DEF CheckoutInv, AttemptsPlaced, AttemptsSettle, Advances
    <3>3. CASE refunds[DuplicateKey(a)].status # "none"
      BY <1>0, <3>3, RefundRows
    <3>4. CASE intents[i].status # "succeeded"
      BY <3>2, <3>4
    <3>5. ASSUME NEW w \in Workers, workers[w].pc = "refund", workers[w].key = DuplicateKey(a),
                 intents[i].status = "succeeded"
          PROVE  refunds'[DuplicateKey(a)].status # "none" \/ Refunding(DuplicateKey(a))'
      <4>1. CASE workers'[w] = workers[w]
        BY <3>5, <4>1 DEF Refunding, DuplicateKey
      <4>2. CASE RefundOpen(w)
        <5>1. i \in RefundableIntents
          BY <3>2, <3>5 DEF RefundableIntents
        <5>2. DuplicateKey(a)[2] = a
          BY DEF DuplicateKey
        <5>3. Captured(DuplicateKey(a), i) = intents[i].amount
          BY <1>0, <2>2, <5>2 DEF Captured
        <5>4. intents[i].amount = schedule /\ workers[w].amount \in Nat /\ workers[w].amount <= schedule
          BY <1>0, <3>2, <3>5 DEF AmountsFit, Worker
        <5>5. refunds[DuplicateKey(a)].status = "none" =>
                WithinCaptured(DuplicateKey(a), i, workers[w].amount)
          BY <1>0, <5>3, <5>4 DEF WithinCaptured, Committed
        <5> QED
          BY <3>5, <4>2, <5>1, <5>5, Opened
      <4>3. CASE Crash(w)
        BY <4>3 DEF Crash, CheckoutInv, TypeOK
      <4> QED
        BY <3>5, <4>1, <4>2, <4>3, RefundKept
    <3> QED
      BY <2>2, <3>1, <3>3, <3>4, <3>5 DEF DuplicatesAnswered, Refunding
  <2> QED
    BY <2>1, <2>2
<1> QED
  BY <1>1 DEF DuplicatesAnswered

\* While the money of a booking that came to nothing is not answered for,
\* somebody has it in hand.
LEMMA NextCapturesAnswered ==
  ASSUME CheckoutInv, AttemptsSettle, AmountsFit, RowsBehind, Decided, CapturesAnswered,
         [Next]_vars, crashes' = crashes
  PROVE  CapturesAnswered'
<1> DEFINE Open == Unbooked \/ booking.status = "pending"
<1>0. /\ Advances /\ order \in OrderRow /\ workers \in [Workers -> Worker]
      /\ refunds \in [RefundKeys -> RefundRow] /\ schedule \in Nat /\ booking \in BookingRow
  <2>1. schedule \in Nat
    BY CheckoutAssumption DEF CheckoutInv, TypeOK
  <2> QED
    BY <2>1, NextAdvances DEF CheckoutInv, TypeOK, PaymentTypeOK
<1>1. Answered => Answered'
  BY AnsweredStays
<1>2. ASSUME NEW w \in Workers, NEW permitted \in BOOLEAN, CallbackCaptured(w, permitted), Open'
      PROVE  InHand'
  <2>1. booking' # [booking EXCEPT !.status = "confirmed"]
    BY <1>0, <1>2 DEF Unbooked, BookingRow
  <2>2. PICK k \in OrderKeys : Compensate(w, k)
    BY <1>2, <2>1 DEF CallbackCaptured, OrderKeys
  <2>3. workers'[w] = [Idle EXCEPT !.pc = "refund", !.key = k, !.amount = schedule]
    BY <1>0, <2>2 DEF Compensate, Becomes
  <2>4. workers'[w].pc = "refund" /\ workers'[w].key = k
    BY <2>3 DEF Idle
  <2> QED
    BY <2>4 DEF InHand, Refunding, OrderKeys, CancellationKey, UnconfirmableKey
<1>3. ASSUME NEW actor, CancelBooking(actor) PROVE InHand'
  <2>1. booking.cancels + 1 \in 1 .. MaxCancels
    BY <1>0, <1>3, CheckoutAssumption DEF CancelBooking, BookingRow
  <2>2. Cancelled(booking.cancels + 1) \in CancelEvents /\ Cancelled(booking.cancels + 1) \in mail'
    BY <1>3, <2>1 DEF CancelBooking, CancelEvents
  <2> QED
    BY <2>2 DEF InHand, CancelEvents
<1>4. ASSUME order.collected > 0, InHand PROVE InHand' \/ Answered' \/ ~Open'
  <2>1. ASSUME NEW k \in OrderKeys, NEW w \in Workers, workers[w].pc = "refund", workers[w].key = k
        PROVE  InHand' \/ Answered'
    <3>1. CASE workers'[w] = workers[w]
      BY <2>1, <3>1 DEF InHand, Refunding, OrderKeys, CancellationKey, UnconfirmableKey
    <3>2. CASE RefundOpen(w)
      <4>1. CASE refunds'[k].status # "none"
        BY <4>1 DEF Answered
      <4>2. CASE Answered
        BY <1>1, <4>2
      <4>3. CASE ~Answered
        <5> DEFINE a == order.capture
                   i == attempts[a].intent
        <5>1. a # 0
          BY <1>4 DEF Decided
        <5>2. i \in RefundableIntents
          BY <1>0, <4>3, <5>1 DEF Answered, CheckoutInv, OrderTells, OrderRow, AttemptsPlaced, RefundableIntents
        <5>3. intents[i].status = "succeeded" /\ i \in Intents
          BY <5>2 DEF RefundableIntents
        <5>4. intents[i].amount = schedule /\ workers[w].amount \in Nat /\ workers[w].amount <= schedule
          BY <1>0, <2>1, <5>3 DEF AmountsFit, Worker
        <5>5. Committed(CancellationKey) = 0 /\ Committed(UnconfirmableKey) = 0
          BY <4>3 DEF Answered, Committed, OrderKeys
        <5>6. WithinCaptured(k, i, workers[w].amount)
          BY <1>0, <2>1, <5>4, <5>5 DEF WithinCaptured, Captured, OrderCommitted
        <5> QED
          BY <2>1, <3>2, <4>1, <5>2, <5>6, Opened
      <4> QED
        BY <4>2, <4>3
    <3>3. CASE Crash(w)
      BY <3>3 DEF Crash, CheckoutInv, TypeOK
    <3> QED
      BY <2>1, <3>1, <3>2, <3>3, RefundKept
  <2>2. ASSUME NEW e \in CancelEvents, e \in mail PROVE InHand' \/ Answered' \/ ~Open'
    <3>1. CASE e \in mail'
      BY <3>1 DEF InHand, CancelEvents
    <3>2. ASSUME NEW w \in Workers, MarkPublished(w), workers[w].event = e
          PROVE  Answered' \/ ~Open'
      <4>1. /\ booking.cancels > 0 /\ booking.status \in {"cancelled", "confirmed"}
            /\ Answered \/ remedy = "reschedule"
        BY <1>4, <2>2, <3>2 DEF MarkPublished, Decided
      <4>2. booking' = booking /\ remedy' = remedy
        BY <3>2 DEF MarkPublished, outcomeVars
      <4> QED
        BY <1>1, <4>1, <4>2 DEF Unbooked
    <3> QED
      BY <2>2, <3>1, <3>2, MailStep
  <2> QED
    BY <1>4, <2>1, <2>2 DEF InHand, Refunding
<1>5. ASSUME Open', ~\E actor : CancelBooking(actor),
             ~\E w \in Workers, permitted \in BOOLEAN : CallbackCaptured(w, permitted)
      PROVE  Open
  <2>1. CASE booking' = booking
    <3>1. remedy = "reschedule" => remedy' = "reschedule"
      BY OutcomeStays
    <3> QED
      BY <1>5, <2>1, <3>1 DEF Unbooked
  <2>2. CASE booking' = [booking EXCEPT !.status = "confirmed"]
    BY <1>0, <1>5, <2>2 DEF Unbooked, BookingRow
  <2>3. CASE ExpireBooking
    BY <2>3 DEF ExpireBooking
  <2> QED
    BY <1>5, <2>1, <2>2, <2>3
    DEF Next, Request, Proceed, Handle, vars, CheckoutPay, RetryPayment, InitiateRefused,
      InitiateAtGateway, InitiateInsert, CustomerDecides, Lapse, Callback, CallbackFailed,
      CallbackDuplicate, RefundOpen, RefundSend, RefundComplete,
      ConfirmWithoutCollection, DecideCancellation,
      ExecuteCancellation, RecordExecution, HandleExpired, HandleRefunded, MarkPublished, RemedyBegin,
      RemedyCommit, Crash
<1>6. ASSUME order'.collected > 0,
             ~\E w \in Workers, permitted \in BOOLEAN : CallbackCaptured(w, permitted)
      PROVE  order.collected > 0
  <2>1. \/ order'.collected = order.collected
        \/ \E w \in Workers : Succeeds(w) /\ Capture(workers[w].attempt)
    BY <1>0, OrderStep DEF OrderCancelled, RefundCounted, ConfirmWithoutCollection, OrderRow
  <2>2. ASSUME NEW w \in Workers, Succeeds(w), Capture(workers[w].attempt) PROVE FALSE
    <3>1. workers[w].attempt \in Attempts /\ attempts[workers[w].attempt].status = "initiated"
      BY <2>2 DEF Succeeds, CheckoutInv, WorkersHold, WorkerHolds
    <3>2. attempts'[workers[w].attempt].status = "succeeded"
      BY <2>2, <3>1, VerdictRows DEF Succeeds
    <3>3. \E v \in Workers : CallbackDuplicate(v)
      BY <1>6, <3>1, <3>2, NewSuccess
    <3> QED
      BY <2>2, <3>3 DEF CallbackDuplicate, Capture
  <2> QED
    BY <1>6, <2>1, <2>2
<1> HIDE DEF Open
<1>7. ASSUME order'.collected > 0, Open' PROVE Answered' \/ InHand'
  <2>1. CASE \/ \E actor : CancelBooking(actor)
             \/ \E w \in Workers, permitted \in BOOLEAN : CallbackCaptured(w, permitted)
    BY <1>2, <1>3, <1>7, <2>1
  <2>2. CASE ~(\/ \E actor : CancelBooking(actor)
               \/ \E w \in Workers, permitted \in BOOLEAN : CallbackCaptured(w, permitted))
    <3>1. Open /\ order.collected > 0
      BY <1>5, <1>6, <1>7, <2>2
    <3>2. Answered \/ InHand
      BY <3>1 DEF CapturesAnswered, Open
    <3> QED
      BY <1>1, <1>4, <1>7, <3>1, <3>2
  <2> QED
    BY <2>1, <2>2
<1> QED
  BY <1>7 DEF CapturesAnswered, Open

---------------------------------------------------------------------------

\* The strengthened invariant holds in every reachable state.
THEOREM AnswersInvariant == Spec => [](CheckoutInv /\ AnswersInv)
<1>1. Init => AnswersInv
  <2> SUFFICES ASSUME Init PROVE AnswersInv
    OBVIOUS
  <2>0. schedule \in Nat
    BY CheckoutAssumption DEF Init
  <2>1. AttemptsSettle /\ RowsBehind
    BY DEF Init, PaymentInit, AttemptsSettle, RowsBehind, Idle
  <2>2. AmountsFit
    BY <2>0 DEF Init, PaymentInit, AmountsFit, Idle, OrderKeys, RefundKeys
  <2>3. Decided
    BY DEF Init, Decided, Idle, CancelEvents, Cancelled, None
  <2>4. DuplicatesAnswered /\ CapturesAnswered
    BY DEF Init, PaymentInit, DuplicatesAnswered, CapturesAnswered
  <2> QED
    BY <2>1, <2>2, <2>3, <2>4 DEF AnswersInv
<1>2. CheckoutInv /\ AnswersInv /\ [Next]_vars => AnswersInv'
  <2> SUFFICES ASSUME CheckoutInv, AnswersInv, [Next]_vars PROVE AnswersInv'
    OBVIOUS
  <2>1. AttemptsSettle' /\ AmountsFit' /\ RowsBehind' /\ Decided'
    BY NextSettles, NextAmounts, NextBehind, NextDecided DEF AnswersInv
  <2>2. crashes' = 0 => crashes = 0 /\ crashes' = crashes
    <3>1. crashes \in Nat
      BY CheckoutAssumption DEF CheckoutInv, TypeOK
    <3>2. crashes' = crashes \/ crashes' = crashes + 1
      BY DEF Next, Request, Proceed, Handle, vars, CheckoutPay, RetryPayment, InitiateRefused,
        InitiateAtGateway, InitiateInsert, CustomerDecides, Lapse, Callback, CallbackFailed,
        CallbackCaptured, CallbackDuplicate, RefundOpen, RefundSend, RefundComplete,
        ConfirmWithoutCollection, ExpireBooking, CancelBooking, DecideCancellation,
        ExecuteCancellation, RecordExecution, HandleExpired, HandleRefunded, MarkPublished,
        RemedyBegin, RemedyCommit, Crash
    <3> QED
      BY <3>1, <3>2
  <2>3. crashes' = 0 => DuplicatesAnswered' /\ CapturesAnswered'
    BY <2>2, NextDuplicatesAnswered, NextCapturesAnswered DEF AnswersInv
  <2> QED
    BY <2>1, <2>3 DEF AnswersInv
<1>3. Spec => []AnswersInv
  BY <1>1, <1>2, CheckoutInvariant, PTL DEF Spec
<1> QED
  BY <1>3, CheckoutInvariant, PTL

\* Unless a worker is cut off, no duplicate charge and no capture of a booking
\* that came to nothing is left without its refund once things are quiet: a
\* callback that settles a charge goes on to its refund, a cancellation stays
\* in the outbox until its decision is carried out, and what was answered for
\* stays so.
THEOREM ChargesAnswered == Spec => []ChargesAreAnswered
<1>1. CheckoutInv /\ AnswersInv => ChargesAreAnswered
  <2> SUFFICES ASSUME AnswersInv, Quiet, crashes = 0
               PROVE  /\ \A a \in Attempts : (attempts[a].status = "succeeded" /\ a # order.capture) =>
                           \/ refunds[DuplicateKey(a)].status # "none"
                           \/ intents[attempts[a].intent].status # "succeeded"
                      /\ (order.collected > 0 /\ Unbooked) => Answered
    BY DEF ChargesAreAnswered
  <2>1. \A k : ~Refunding(k)
    BY DEF Quiet, Refunding
  <2>2. ~InHand
    BY <2>1 DEF InHand, Quiet
  <2> QED
    BY <2>1, <2>2 DEF AnswersInv, DuplicatesAnswered, CapturesAnswered
<1> QED
  BY <1>1, AnswersInvariant, PTL
=============================================================================
