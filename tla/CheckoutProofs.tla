--------------------------- MODULE CheckoutProofs ---------------------------
(***************************************************************************)
(* What holds of Checkout for every amount, number of workers, intents and  *)
(* gateway references, cancellations and crashes.                          *)
(***************************************************************************)
EXTENDS Checkout, TLAPS

(* The inductive invariant.                                                *)

\* The order has the money of its schedule, and its schedule asks for some.
Paid == order.collected = schedule /\ schedule > 0

\* What a worker holds in its hands.
WorkerHolds(w) ==
  LET q == workers[w] IN
  /\ q.pc \in {"initiate", "insert"} => q.intent \in Intents /\ intents[q.intent].status # "none"
  /\ q.pc = "insert" => q.attempt \in Attempts /\ attempts[q.attempt].status = "none"
                        /\ gateway[q.attempt].state # "none"
  /\ q.pc = "apply" => q.attempt \in Attempts /\ attempts[q.attempt].status # "none"
                       /\ q.verdict # "none"
  /\ q.pc \in {"refund", "send", "complete"} => q.key \in RefundKeys
  /\ q.pc = "send" => q.attempt \in Attempts \cup {0}
  /\ q.pc = "complete" => q.outcome \in {"succeeded", "failed", "manual_required"}
  /\ q.pc = "record" => q.key = CancellationKey
                        /\ q.outcome \in {"pending", "succeeded", "failed", "manual_required"}
  /\ q.pc = "execute" => q.key = CancellationKey
                         /\ q.outcome \in {"pending", "executed", "manual_required", "failed"}
  /\ q.pc \in {"refund", "send", "complete"} => (q.event # None => q.key = CancellationKey)
  /\ (q.pc \in {"refund", "send", "complete", "record"} /\ q.key \in OrderKeys) => Paid
  /\ (q.pc = "execute" /\ q.outcome = "pending" /\ q.amount > 0) => Paid
  /\ q.pc = "remedy" => Paid

WorkersHold == \A w \in Workers : WorkerHolds(w)

\* Two workers never insert an attempt for the same gateway reference.
ReferencesDiffer ==
  \A v, w \in Workers :
    (v # w /\ workers[v].pc = "insert" /\ workers[w].pc = "insert")
      => workers[v].attempt # workers[w].attempt

\* An attempt row belongs to a transaction the gateway knows and to an intent;
\* an intent asks for what the schedule collects.
AttemptsPlaced ==
  \A a \in Attempts : attempts[a].status # "none" =>
    /\ gateway[a].state # "none"
    /\ attempts[a].intent \in Intents /\ intents[attempts[a].intent].status # "none"
IntentsPriced ==
  \A i \in Intents : intents[i].amount <= schedule /\ (intents[i].status # "none" => schedule > 0)

\* What the order collected, and how its status tells.
OrderTells ==
  /\ order.collected \in {0, schedule}
  /\ order.collected > 0 =>
       order.status \in {"paid", "online_collection_completed", "refunded", "partially_refunded"}
  /\ order.capture # 0 => attempts[order.capture].status = "succeeded" /\ Paid

\* Refund rows and the decision speak of money that was collected.
RefundsPaid ==
  /\ \A k \in OrderKeys : refunds[k].status # "none" => Paid
  /\ decision.status \in {"pending", "manual_required", "failed"} => Paid
  /\ OrderCommitted <= order.collected

\* A charge that is given back as a duplicate is one the order did not capture.
DuplicatesApart ==
  \A a \in Attempts :
    (\/ refunds[DuplicateKey(a)].status # "none"
     \/ \E w \in Workers : workers[w].key = DuplicateKey(a))
      => attempts[a].status = "succeeded" /\ order.capture # a

\* The booking behind the order: an expired event is for an expired booking, a
\* pending booking was never cancelled, and a cancelled one comes back only
\* with the money still there.
BookingTells ==
  /\ Expired \in mail => booking.status = "expired"
  /\ \A n \in 1 .. MaxCancels : Cancelled(n) \in mail => booking.cancels > 0
  /\ booking.status = "pending" => booking.cancels = 0
  /\ booking.status = "confirmed" =>
       /\ order.collected = schedule /\ order.status \notin {"pending", "cancelled"}
       /\ booking.cancels > 0 => Paid

CheckoutInv ==
  /\ TypeOK /\ WorkersHold /\ ReferencesDiffer /\ AttemptsPlaced /\ IntentsPriced
  /\ OrderTells /\ RefundsPaid /\ DuplicatesApart /\ BookingTells

---------------------------------------------------------------------------
(* Types.                                                                  *)

\* An action of a worker gives it a well-typed row and leaves the others theirs.
LEMMA WorkerTyped ==
  ASSUME workers \in [Workers -> Worker], NEW w \in Workers, NEW q \in Worker, Becomes(w, q)
  PROVE  /\ workers' \in [Workers -> Worker]
         /\ workers'[w] = q
         /\ \A x \in Workers : x # w => workers'[x] = workers[x]
  BY DEF Becomes

\* An idle worker is one.
LEMMA IdleTyped == Idle \in Worker
  BY DEF Idle, Worker, RefundStatus

\* The larger of two numbers.
LEMMA MaxOfTwo == \A x, y \in Int : Max({x, y}) = IF x >= y THEN x ELSE y
<1> SUFFICES ASSUME NEW x \in Int, NEW y \in Int
             PROVE  Max({x, y}) = IF x >= y THEN x ELSE y
  OBVIOUS
<1> DEFINE m == IF x >= y THEN x ELSE y
<1>1. m \in {x, y} /\ \A z \in {x, y} : m >= z
  OBVIOUS
<1>2. Max({x, y}) \in {x, y} /\ \A z \in {x, y} : Max({x, y}) >= z
  BY <1>1 DEF Max
<1> QED
  BY <1>2

\* Likewise the smaller.
LEMMA MinOfTwo == \A x, y \in Int : Min({x, y}) = IF x <= y THEN x ELSE y
<1> SUFFICES ASSUME NEW x \in Int, NEW y \in Int
             PROVE  Min({x, y}) = IF x <= y THEN x ELSE y
  OBVIOUS
<1> DEFINE m == IF x <= y THEN x ELSE y
<1>1. m \in {x, y} /\ \A z \in {x, y} : m <= z
  OBVIOUS
<1>2. Min({x, y}) \in {x, y} /\ \A z \in {x, y} : Min({x, y}) <= z
  BY <1>1 DEF Min
<1> QED
  BY <1>2

\* Before anything is paid every table agrees with every other.
LEMMA InitInv == Init => CheckoutInv
<1> SUFFICES ASSUME Init PROVE CheckoutInv
  OBVIOUS
<1> USE PaymentAssumption, CheckoutAssumption
<1>1. TypeOK
  BY IdleTyped DEF Init, TypeOK, PaymentInit, PaymentTypeOK, IntentRow, AttemptRow, GatewayRow,
     RefundRow, RefundStatus, OrderRow, BookingRow, DecisionRow
<1>2. WorkersHold /\ ReferencesDiffer
  BY DEF Init, WorkersHold, WorkerHolds, ReferencesDiffer, Idle
<1>3. AttemptsPlaced /\ IntentsPriced
  BY DEF Init, PaymentInit, AttemptsPlaced, IntentsPriced
<1>4. OrderTells /\ BookingTells
  BY DEF Init, OrderTells, BookingTells
<1>5. RefundsPaid
  BY DEF Init, PaymentInit, RefundsPaid, OrderKeys, RefundKeys, OrderCommitted, Committed
<1>6. DuplicatesApart
  BY DEF Init, PaymentInit, DuplicatesApart, RefundKeys, DuplicateKey, Idle, None
<1> QED
  BY <1>1, <1>2, <1>3, <1>4, <1>5, <1>6 DEF CheckoutInv

\* A decision is typed, and one that is not executed has money to return: what
\* is left of the collected amount, or what a refund row already promises.
LEMMA DecisionsTyped ==
  ASSUME TypeOK, NEW d \in NewDecisions
  PROVE  /\ d \in DecisionRow /\ d.status # "none"
         /\ d.status # "executed" => \/ refunds[CancellationKey].status # "none"
                                     \/ order.collected > 0
         /\ refunds[CancellationKey].status = "none" =>
              /\ d.status = "pending" <=> d.refund > 0
              /\ d.status \in {"pending", "executed"}
              /\ d.refund + d.retained = CollectedRemaining
         /\ refunds[CancellationKey].status # "none" => d.refund = refunds[CancellationKey].amount
         /\ CollectedRemaining \in 0 .. order.collected
         /\ (order.collected > 0 /\ CollectedRemaining = 0) =>
              order.refunded > 0 \/ refunds[UnconfirmableKey].status # "none"
<1> DEFINE adopted == refunds[CancellationKey]
           retentions == IF booking.by = "customer" /\ booking.wasConfirmed
                         THEN {0} \cup {Min({r, CollectedRemaining}) : r \in Retentions} ELSE {0}
<1>1. adopted \in RefundRow
  BY DEF TypeOK, PaymentTypeOK, RefundKeys, OrderKeys
<1>2. /\ CollectedRemaining \in 0 .. order.collected
      /\ CollectedRemaining \in Nat /\ (CollectedRemaining > 0 => order.collected > 0)
      /\ (order.collected > 0 /\ CollectedRemaining = 0) =>
           order.refunded > 0 \/ refunds[UnconfirmableKey].status # "none"
  <2> DEFINE committed == Max({order.refunded, Committed(UnconfirmableKey)})
  <2>1. Committed(UnconfirmableKey) \in Nat /\ order.refunded \in Nat /\ order.collected \in Nat
    BY DEF TypeOK, PaymentTypeOK, RefundKeys, OrderKeys, RefundRow, Committed, OrderRow
  <2>2. committed \in Nat /\ (committed > 0 => order.refunded > 0 \/ Committed(UnconfirmableKey) > 0)
    BY <2>1, MaxOfTwo
  <2>4. Committed(UnconfirmableKey) > 0 => refunds[UnconfirmableKey].status # "none"
    BY DEF Committed
  <2> HIDE DEF committed
  <2>3. Max({0, order.collected - committed}) =
          IF 0 >= order.collected - committed THEN 0 ELSE order.collected - committed
    BY <2>1, <2>2, MaxOfTwo
  <2> QED
    BY <2>1, <2>2, <2>3, <2>4 DEF CollectedRemaining, committed
<1>3. \A r \in retentions : r \in 0 .. CollectedRemaining
  <2>1. ASSUME NEW r \in Retentions PROVE Min({r, CollectedRemaining}) \in 0 .. CollectedRemaining
    <3>1. r \in Nat
      BY CheckoutAssumption
    <3> QED
      BY <1>2, <3>1, MinOfTwo
  <2>2. 0 \in 0 .. CollectedRemaining
    BY <1>2
  <2> QED
    BY <2>1, <2>2
<1>4. CASE adopted.status # "none"
  BY <1>1, <1>2, <1>4 DEF NewDecisions, DecisionRow, RefundRow, RefundStatus, ExecutionStatusOf
<1>5. CASE adopted.status = "none"
  <2>0. d \in {[status |-> IF CollectedRemaining > r THEN "pending" ELSE "executed",
                refund |-> CollectedRemaining - r, retained |-> r] : r \in retentions}
    BY <1>5 DEF NewDecisions
  <2> HIDE DEF retentions
  <2>1. PICK r \in retentions :
          d = [status |-> IF CollectedRemaining > r THEN "pending" ELSE "executed",
               refund |-> CollectedRemaining - r, retained |-> r]
    BY <2>0
  <2>2. r \in Nat /\ r <= CollectedRemaining /\ CollectedRemaining - r \in Nat
    BY <1>2, <1>3
  <2>3. d \in DecisionRow
    BY <2>1, <2>2 DEF DecisionRow
  <2> QED
    BY <1>2, <1>5, <2>1, <2>2, <2>3
<1> QED
  BY <1>4, <1>5

\* Rows stay rows under the updates that the actions make.
LEMMA RowUpdates ==
  /\ \A r \in IntentRow :
       /\ \A s \in {"none", "created", "pending", "succeeded", "failed", "expired"} :
            /\ [r EXCEPT !.status = s] \in IntentRow
            /\ \A f \in {"none", "retryable", "final"} :
                 [r EXCEPT !.status = s, !.failure = f] \in IntentRow
       /\ [r EXCEPT !.lapsed = TRUE] \in IntentRow
  /\ \A r \in AttemptRow : \A s \in {"none", "initiated", "succeeded", "failed"} :
       [r EXCEPT !.status = s] \in AttemptRow
  /\ \A r \in GatewayRow :
       /\ \A s \in {"none", "pending", "paid", "mispaid", "declined"} : [r EXCEPT !.state = s] \in GatewayRow
       /\ [r EXCEPT !.refunded = TRUE] \in GatewayRow
  /\ \A r \in RefundRow : \A s \in RefundStatus : [r EXCEPT !.status = s] \in RefundRow
<1>1. \A r \in IntentRow :
       /\ \A s \in {"none", "created", "pending", "succeeded", "failed", "expired"} :
            /\ [r EXCEPT !.status = s] \in IntentRow
            /\ \A f \in {"none", "retryable", "final"} :
                 [r EXCEPT !.status = s, !.failure = f] \in IntentRow
       /\ [r EXCEPT !.lapsed = TRUE] \in IntentRow
  BY DEF IntentRow
<1>2. \A r \in AttemptRow : \A s \in {"none", "initiated", "succeeded", "failed"} :
       [r EXCEPT !.status = s] \in AttemptRow
  BY DEF AttemptRow
<1>3. \A r \in GatewayRow :
       /\ \A s \in {"none", "pending", "paid", "mispaid", "declined"} : [r EXCEPT !.state = s] \in GatewayRow
       /\ [r EXCEPT !.refunded = TRUE] \in GatewayRow
  BY DEF GatewayRow
<1>4. \A r \in RefundRow : \A s \in RefundStatus : [r EXCEPT !.status = s] \in RefundRow
  BY DEF RefundRow
<1> QED
  BY <1>1, <1>2, <1>3, <1>4

\* A worker that moves on and remembers an outcome stays well-typed.
LEMMA OutcomeTyped ==
  ASSUME NEW q \in Worker, NEW pc \in {"complete", "record", "mark", "refund"},
         NEW s \in RefundStatus
  PROVE  [q EXCEPT !.pc = pc, !.outcome = s] \in Worker
<1>1. s \in RefundStatus \cup {"executed"}
  OBVIOUS
<1> QED
  BY <1>1 DEF Worker

\* Every request, consumer, crash and tick leaves rows of their types.
LEMMA NextTypes ==
  ASSUME CheckoutInv, [Next]_vars
  PROVE  TypeOK'
<1> USE PaymentAssumption, CheckoutAssumption, IdleTyped
<1> USE DEF TypeOK, PaymentTypeOK
<1>0. TypeOK /\ schedule \in Nat
  BY DEF CheckoutInv
<1>1. ASSUME NEW w \in Workers, CheckoutPay(w) PROVE TypeOK'
  <2>1. PICK i \in Intents : /\ IntentForOrder(i, schedule)
                             /\ Becomes(w, [Idle EXCEPT !.pc = "initiate", !.intent = i])
    BY <1>1 DEF CheckoutPay
  <2>2. [Idle EXCEPT !.pc = "initiate", !.intent = i] \in Worker
    BY DEF Idle, Worker
  <2>3. workers' \in [Workers -> Worker]
    BY <1>0, <2>1, <2>2, WorkerTyped
  <2>4. intents' \in [Intents -> IntentRow]
    <3>1. [status |-> "created", lapsed |-> FALSE, failure |-> "none", amount |-> schedule] \in IntentRow
      BY <1>0 DEF IntentRow
    <3> QED
      BY <1>0, <2>1, <3>1 DEF IntentForOrder
  <2> QED
    BY <1>0, <1>1, <2>3, <2>4 DEF CheckoutPay, outcomeVars
<1>2. ASSUME NEW w \in Workers, RetryPayment(w) PROVE TypeOK'
  <2>1. \A i \in Intents : [Idle EXCEPT !.pc = "initiate", !.intent = i] \in Worker
    BY DEF Idle, Worker
  <2> QED
    BY <1>0, <1>2, <2>1, WorkerTyped DEF RetryPayment, outcomeVars, paymentVars
<1>3. ASSUME NEW w \in Workers, InitiateRefused(w) PROVE TypeOK'
  <2>1. intents' \in [Intents -> IntentRow]
    <3>1. workers[w].intent \in Intents
      BY <1>3 DEF InitiateRefused, CheckoutInv, WorkersHold, WorkerHolds
    <3>2. intents[workers[w].intent] \in IntentRow
      BY <1>0, <3>1
    <3>3. \A b \in BOOLEAN : [intents[workers[w].intent] EXCEPT !.status = IF b THEN "expired" ELSE @]
            \in IntentRow
      BY <3>2 DEF IntentRow
    <3> QED
      BY <1>0, <1>3, <3>1, <3>3 DEF InitiateRefused, ExpireOnRead
  <2> QED
    BY <1>0, <1>3, <2>1, WorkerTyped DEF InitiateRefused, Done, outcomeVars
<1>4. ASSUME NEW w \in Workers, InitiateAtGateway(w) PROVE TypeOK'
  <2>1. gateway' \in [Attempts -> GatewayRow]
    <3>1. \A a \in Attempts : [gateway[a] EXCEPT !.state = "pending"] \in GatewayRow
      BY <1>0, RowUpdates
    <3>2. ASSUME NEW a \in Attempts, gateway' = [gateway EXCEPT ![a].state = "pending"]
          PROVE  gateway' \in [Attempts -> GatewayRow]
      BY <1>0, <3>1, <3>2
    <3> QED
      BY <1>0, <1>4, <3>2 DEF InitiateAtGateway
  <2>2. workers[w] \in Worker
    BY <1>0
  <2>3. \A a \in Attempts : [workers[w] EXCEPT !.pc = "insert", !.attempt = a] \in Worker
    BY <2>2 DEF Worker
  <2>4. workers' \in [Workers -> Worker]
    BY <1>0, <1>4, <2>3, WorkerTyped DEF InitiateAtGateway, Done
  <2> QED
    BY <1>0, <1>4, <2>1, <2>4 DEF InitiateAtGateway, outcomeVars
<1>5. ASSUME NEW w \in Workers, InitiateInsert(w) PROVE TypeOK'
  <2>1. workers[w].pc = "insert" /\ workers[w].attempt \in Attempts /\ workers[w].intent \in Intents
    BY <1>5 DEF InitiateInsert, CheckoutInv, WorkersHold, WorkerHolds
  <2>2. intents' \in [Intents -> IntentRow] /\ attempts' \in [Attempts -> AttemptRow]
    <3>1. [status |-> "initiated", intent |-> workers[w].intent] \in AttemptRow
      BY <2>1 DEF AttemptRow
    <3>2. intents[workers[w].intent] \in IntentRow
      BY <1>0, <2>1
    <3>3. [intents[workers[w].intent] EXCEPT !.status = IF @ \in {"created", "failed"} THEN "pending" ELSE @]
            \in IntentRow
      BY <3>2 DEF IntentRow
    <3> QED
      BY <1>0, <1>5, <2>1, <3>1, <3>3 DEF InitiateInsert, AttemptInserted
  <2> QED
    BY <1>0, <1>5, <2>2, WorkerTyped DEF InitiateInsert, Done, outcomeVars
<1>6. ASSUME NEW a \in Attempts, CustomerDecides(a) PROVE TypeOK'
  BY <1>0, <1>6 DEF CustomerDecides, GatewayRow, outcomeVars
<1>7. ASSUME NEW i \in Intents, Lapse(i) PROVE TypeOK'
  BY <1>0, <1>7 DEF Lapse, IntentRow, outcomeVars
<1>8. ASSUME NEW w \in Workers, NEW a \in Attempts, Callback(w, a) PROVE TypeOK'
  <2>1. \A v \in Verdicts(a) \ {"unknown"} :
          [Idle EXCEPT !.pc = "apply", !.attempt = a, !.verdict = v] \in Worker
    BY DEF Verdicts, Idle, Worker
  <2> QED
    BY <1>0, <1>8, <2>1, WorkerTyped DEF Callback, outcomeVars, paymentVars
<1>9. ASSUME NEW a \in Attempts, NEW v, VerdictRecorded(a, v), attempts[a].status # "none"
      PROVE  intents' \in [Intents -> IntentRow] /\ attempts' \in [Attempts -> AttemptRow]
  <2>1. attempts[a].intent \in Intents
    BY <1>9 DEF CheckoutInv, AttemptsPlaced
  <2> QED
    BY <1>0, <1>9, <2>1, RowUpdates DEF VerdictRecorded
<1>10. ASSUME NEW w \in Workers, CallbackFailed(w) PROVE TypeOK'
  <2>1. workers[w].attempt \in Attempts /\ attempts[workers[w].attempt].status # "none"
    BY <1>10 DEF CallbackFailed, CheckoutInv, WorkersHold, WorkerHolds
  <2> QED
    BY <1>0, <1>9, <1>10, <2>1, WorkerTyped DEF CallbackFailed, Done, outcomeVars
<1>11. ASSUME NEW w \in Workers, NEW k \in RefundKeys, Compensate(w, k)
       PROVE  workers' \in [Workers -> Worker]
  <2>1. [Idle EXCEPT !.pc = "refund", !.key = k, !.amount = schedule] \in Worker
    BY <1>0 DEF Idle, Worker, RefundStatus
  <2> QED
    BY <1>0, <1>11, <2>1, WorkerTyped DEF Compensate
<1>12. ASSUME NEW w \in Workers, Succeeds(w)
       PROVE  /\ workers[w].attempt \in Attempts
              /\ intents' \in [Intents -> IntentRow] /\ attempts' \in [Attempts -> AttemptRow]
  <2>1. workers[w].attempt \in Attempts /\ attempts[workers[w].attempt].status # "none"
    BY <1>12 DEF Succeeds, CheckoutInv, WorkersHold, WorkerHolds
  <2> QED
    BY <1>9, <1>12, <2>1 DEF Succeeds
<1>13. ASSUME NEW w \in Workers, NEW permitted \in BOOLEAN, CallbackCaptured(w, permitted)
       PROVE  TypeOK'
  <2>1. order' \in OrderRow
    <3>1. order \in OrderRow /\ workers[w].attempt \in Attempts
      BY <1>0, <1>12, <1>13 DEF CallbackCaptured
    <3>2. \A s \in {"paid", "online_collection_completed"} :
            [order EXCEPT !.collected = schedule, !.capture = workers[w].attempt, !.status = s] \in OrderRow
      BY <1>0, <3>1 DEF OrderRow
    <3> QED
      BY <1>13, <3>2 DEF CallbackCaptured, Capture
  <2>2. booking' \in BookingRow
    BY <1>0, <1>13 DEF CallbackCaptured, BookingRow
  <2>3. CancellationKey \in RefundKeys /\ UnconfirmableKey \in RefundKeys
    BY DEF RefundKeys, OrderKeys
  <2>4. workers' \in [Workers -> Worker]
    BY <1>0, <1>11, <1>13, <2>3, WorkerTyped DEF CallbackCaptured, Done
  <2> QED
    BY <1>0, <1>12, <1>13, <2>1, <2>2, <2>4 DEF CallbackCaptured, outcomeVars
<1>14. ASSUME NEW w \in Workers, CallbackDuplicate(w) PROVE TypeOK'
  <2>1. DuplicateKey(workers[w].attempt) \in RefundKeys
    BY <1>12, <1>14 DEF CallbackDuplicate, RefundKeys
  <2> QED
    BY <1>0, <1>11, <1>12, <1>14, <2>1 DEF CallbackDuplicate, outcomeVars
<1>15. CASE ConfirmWithoutCollection
  BY <1>0, <1>15 DEF ConfirmWithoutCollection, OrderRow, BookingRow, outcomeVars, paymentVars
<1>16. ASSUME NEW w \in Workers, NEW s \in RefundStatus
       PROVE  AfterRefund(workers[w], s) \in Worker
  <2>1. workers[w] \in Worker
    BY <1>0
  <2> QED
    <3>1. [workers[w] EXCEPT !.pc = "record", !.outcome = s] \in Worker
      BY <2>1, OutcomeTyped
    <3> QED
      BY <3>1 DEF AfterRefund
<1>17. ASSUME NEW w \in Workers, RefundOpen(w) PROVE TypeOK'
  <2> DEFINE q == workers[w]
  <2>1. q \in Worker /\ q.key \in RefundKeys /\ q.amount \in Nat
    BY <1>0, <1>17 DEF RefundOpen, CheckoutInv, WorkersHold, WorkerHolds, Worker
  <2>2. refunds' \in [RefundKeys -> RefundRow]
    <3>1. [status |-> "pending", amount |-> q.amount] \in RefundRow
      BY <2>1 DEF RefundRow, RefundStatus
    <3>2. refunds' = refunds \/
          refunds' = [refunds EXCEPT ![q.key] = [status |-> "pending", amount |-> q.amount]]
      BY <1>17 DEF RefundOpen
    <3> QED
      BY <1>0, <2>1, <3>1, <3>2
  <2>3. refunds[q.key].status \in RefundStatus
    BY <1>0, <2>1 DEF RefundRow
  <2>4. \A a \in Attempts \cup {0} : [q EXCEPT !.pc = "send", !.attempt = a] \in Worker
    BY <2>1 DEF Worker
  <2>5. workers' \in [Workers -> Worker]
    <3>1. CASE refunds[q.key].status # "none"
      BY <1>0, <1>16, <1>17, <2>3, <3>1, WorkerTyped DEF RefundOpen
    <3>2. CASE refunds[q.key].status = "none"
      BY <1>0, <1>17, <2>4, <3>2, WorkerTyped DEF RefundOpen, Done
    <3> QED
      BY <3>1, <3>2
  <2> QED
    BY <1>0, <1>17, <2>2, <2>5 DEF RefundOpen, outcomeVars
<1>18. ASSUME NEW w \in Workers, RefundSend(w) PROVE TypeOK'
  <2> DEFINE q == workers[w]
  <2>1. q \in Worker /\ q.attempt \in Attempts \cup {0}
    BY <1>0 DEF Worker
  <2>2. PICK outcome \in GatewayAnswers(q.attempt) :
          /\ GatewayRefunded(q.attempt, outcome)
          /\ Becomes(w, [q EXCEPT !.pc = "complete", !.outcome = outcome])
    BY <1>18 DEF RefundSend
  <2>3. outcome = "succeeded" => q.attempt \in Attempts
    BY <2>1, <2>2 DEF GatewayAnswers
  <2>4. gateway' \in [Attempts -> GatewayRow]
    BY <1>0, <2>2, <2>3 DEF GatewayRefunded, GatewayRow
  <2>5. [q EXCEPT !.pc = "complete", !.outcome = outcome] \in Worker
    <3>1. outcome \in RefundStatus
      BY <2>2 DEF GatewayAnswers, RefundStatus
    <3> QED
      BY <2>1, <3>1, OutcomeTyped
  <2>6. workers' \in [Workers -> Worker]
    BY <1>0, <2>2, <2>5, WorkerTyped
  <2> QED
    BY <1>0, <1>18, <2>4, <2>6 DEF RefundSend, outcomeVars
<1>19. ASSUME NEW w \in Workers, RefundComplete(w) PROVE TypeOK'
  <2> DEFINE q == workers[w]
  <2>1. q \in Worker /\ q.key \in RefundKeys /\ q.outcome \in RefundStatus
    BY <1>0, <1>19 DEF RefundComplete, CheckoutInv, WorkersHold, WorkerHolds, RefundStatus
  <2>2. refunds' \in [RefundKeys -> RefundRow]
    BY <1>0, <1>19, <2>1 DEF RefundComplete, RefundCompleted, RefundRow
  <2>3. workers' \in [Workers -> Worker]
    BY <1>0, <1>16, <1>19, <2>1, WorkerTyped DEF RefundComplete
  <2>4. mail' \subseteq Events
    BY <1>0, <1>19 DEF RefundComplete, Events
  <2> QED
    BY <1>0, <1>19, <2>2, <2>3, <2>4 DEF RefundComplete, outcomeVars
<1>20. CASE ExpireBooking
  <2>1. mail' \subseteq Events
    BY <1>0, <1>20 DEF ExpireBooking, Events
  <2> QED
    BY <1>0, <1>20, <2>1 DEF ExpireBooking, BookingRow, outcomeVars, paymentVars
<1>21. ASSUME NEW actor \in {"customer", "professional"}, CancelBooking(actor) PROVE TypeOK'
  <2>1. booking.cancels + 1 \in 1 .. MaxCancels
    BY <1>0, <1>21 DEF CancelBooking, BookingRow
  <2>2. mail' \subseteq Events
    BY <1>0, <1>21, <2>1 DEF CancelBooking, Events
  <2>3. booking' \in BookingRow
    BY <1>0, <1>21, <2>1 DEF CancelBooking, BookingRow
  <2> QED
    BY <1>0, <1>21, <2>2, <2>3 DEF CancelBooking, outcomeVars, paymentVars
<1>22. ASSUME NEW w \in Workers, NEW e \in Events, DecideCancellation(w, e) PROVE TypeOK'
  <2>1. decision' \in DecisionRow
    BY <1>0, <1>22, DecisionsTyped DEF DecideCancellation
  <2>2. order' \in OrderRow /\ remedy' \in {"none", "default", "reschedule"}
    BY <1>0, <1>22 DEF DecideCancellation, OrderCancelled, OrderRow
  <2>3. [Idle EXCEPT !.pc = "execute", !.event = e, !.key = CancellationKey,
                     !.amount = decision'.refund, !.outcome = decision'.status] \in Worker
    BY <2>1 DEF Idle, Worker, DecisionRow, RefundStatus, RefundKeys, OrderKeys
  <2>4. workers' \in [Workers -> Worker]
    BY <1>0, <1>22, <2>3, WorkerTyped DEF DecideCancellation
  <2> QED
    BY <1>0, <1>22, <2>1, <2>2, <2>4 DEF DecideCancellation, paymentVars
<1>23. ASSUME NEW w \in Workers, ExecuteCancellation(w) PROVE TypeOK'
  <2>1. \A pc \in {"refund", "mark"} : [workers[w] EXCEPT !.pc = pc, !.outcome = "none"] \in Worker
    BY <1>0 DEF Worker, RefundStatus
  <2> QED
    BY <1>0, <1>23, <2>1, WorkerTyped DEF ExecuteCancellation, outcomeVars, paymentVars
<1>24. ASSUME NEW w \in Workers, RecordExecution(w) PROVE TypeOK'
  <2>1. [workers[w] EXCEPT !.pc = "mark", !.outcome = "none"] \in Worker
    BY <1>0 DEF Worker, RefundStatus
  <2>2. decision' \in DecisionRow
    BY <1>0, <1>24 DEF RecordExecution, DecisionRow, ExecutionStatusOf, CheckoutInv, WorkersHold, WorkerHolds
  <2> QED
    BY <1>0, <1>24, <2>1, <2>2, WorkerTyped DEF RecordExecution, paymentVars
<1>25. ASSUME NEW w \in Workers, HandleExpired(w) PROVE TypeOK'
  <2>1. [Idle EXCEPT !.pc = "mark", !.event = Expired] \in Worker
    BY DEF Idle, Worker, Events
  <2>2. order' \in OrderRow
    BY <1>0, <1>25 DEF HandleExpired, OrderCancelled, OrderRow
  <2> QED
    BY <1>0, <1>25, <2>1, <2>2, WorkerTyped DEF HandleExpired, outcomeVars, paymentVars
<1>26. ASSUME NEW w \in Workers, NEW k \in Events, HandleRefunded(w, k) PROVE TypeOK'
  <2>1. [Idle EXCEPT !.pc = "mark", !.event = k] \in Worker
    BY DEF Idle, Worker
  <2>2. refunds[k].amount \in Nat
    BY <1>0, <1>26 DEF HandleRefunded, RefundKeys, RefundRow
  <2>3. order' \in OrderRow
    <3>1. order \in OrderRow /\ order.refunded + refunds[k].amount \in Nat
      BY <1>0, <2>2 DEF OrderRow
    <3>2. \A s \in {"refunded", "partially_refunded"} :
            [order EXCEPT !.refunded = order.refunded + refunds[k].amount, !.status = s] \in OrderRow
      BY <3>1 DEF OrderRow
    <3> QED
      BY <1>26, <3>1, <3>2 DEF HandleRefunded, RefundCounted
  <2> QED
    BY <1>0, <1>26, <2>1, <2>3, WorkerTyped DEF HandleRefunded, outcomeVars, paymentVars
<1>27. ASSUME NEW w \in Workers, MarkPublished(w) PROVE TypeOK'
  BY <1>0, <1>27, WorkerTyped DEF MarkPublished, Done, outcomeVars, paymentVars
<1>28. ASSUME NEW w \in Workers, RemedyBegin(w) PROVE TypeOK'
  <2>1. [Idle EXCEPT !.pc = "remedy"] \in Worker
    BY DEF Idle, Worker
  <2> QED
    BY <1>0, <1>28, <2>1, WorkerTyped DEF RemedyBegin, outcomeVars, paymentVars
<1>29. ASSUME NEW w \in Workers, RemedyCommit(w) PROVE TypeOK'
  BY <1>0, <1>29, WorkerTyped DEF RemedyCommit, Done, BookingRow, paymentVars
<1>30. ASSUME NEW w \in Workers, Crash(w) PROVE TypeOK'
  BY <1>0, <1>30, WorkerTyped DEF Crash, Done, outcomeVars, paymentVars
<1>31. CASE UNCHANGED vars
  BY <1>0, <1>31 DEF vars
<1> HIDE DEF TypeOK, PaymentTypeOK
<1> QED
  BY <1>1, <1>2, <1>3, <1>4, <1>5, <1>6, <1>7, <1>8, <1>10, <1>13, <1>14, <1>15, <1>17, <1>18, <1>19,
     <1>20, <1>21, <1>22, <1>23, <1>24, <1>25, <1>26, <1>27, <1>28, <1>29, <1>30, <1>31
  DEF Next, Request, Handle, Proceed, Workers

---------------------------------------------------------------------------
(* What no step takes back.                                                *)

\* Intents and attempts keep what identifies them, a settled attempt stays
\* settled, the gateway forgets no transaction, and an order that has its money
\* keeps it.
Advances ==
  /\ schedule' = schedule
  /\ \A i \in Intents : intents[i].status # "none" =>
       /\ intents'[i].status # "none" /\ intents'[i].amount = intents[i].amount
       /\ intents[i].status \in {"succeeded", "expired"} => intents'[i].status = intents[i].status
  /\ \A a \in Attempts : attempts[a].status # "none" =>
       /\ attempts'[a].status # "none" /\ attempts'[a].intent = attempts[a].intent
       /\ attempts[a].status # "initiated" => attempts'[a].status = attempts[a].status
  /\ \A a \in Attempts : gateway[a].state # "none" => gateway'[a].state # "none"
  /\ Paid => order'.collected = order.collected
  /\ order.capture # 0 => order'.capture = order.capture

\* A verdict settles one attempt that was initiated, and its intent.
LEMMA VerdictRows ==
  ASSUME CheckoutInv, NEW a \in Attempts, NEW v, attempts[a].status = "initiated",
         VerdictRecorded(a, v)
  PROVE  /\ \A x \in Attempts : x # a => attempts'[x] = attempts[x]
         /\ attempts'[a].status = IF v = "succeeded" THEN "succeeded" ELSE "failed"
         /\ attempts'[a].intent = attempts[a].intent
         /\ \A i \in Intents : i # attempts[a].intent => intents'[i] = intents[i]
         /\ \A i \in Intents : /\ intents'[i].amount = intents[i].amount
                               /\ intents'[i].status = intents[i].status \/
                                  (/\ intents[i].status \in {"created", "pending"}
                                   /\ intents'[i].status = IF v = "succeeded" THEN "succeeded" ELSE "failed")
         /\ intents[attempts[a].intent].status \in {"created", "pending"} =>
              intents'[attempts[a].intent].status = IF v = "succeeded" THEN "succeeded" ELSE "failed"
<1>1. attempts \in [Attempts -> AttemptRow] /\ intents \in [Intents -> IntentRow]
  BY DEF CheckoutInv, TypeOK, PaymentTypeOK
<1>2. attempts[a].intent \in Intents
  BY DEF CheckoutInv, AttemptsPlaced
<1> QED
  BY <1>1, <1>2 DEF VerdictRecorded, IntentRow, AttemptRow

\* No step takes back an intent, a verdict, a capture or a collection.
LEMMA NextAdvances ==
  ASSUME CheckoutInv, [Next]_vars
  PROVE  Advances
<1>0. /\ attempts \in [Attempts -> AttemptRow] /\ intents \in [Intents -> IntentRow]
      /\ gateway \in [Attempts -> GatewayRow] /\ order \in OrderRow
  BY DEF CheckoutInv, TypeOK, PaymentTypeOK
<1>1. ASSUME NEW w \in Workers, CheckoutPay(w) PROVE Advances
  BY <1>0, <1>1 DEF CheckoutPay, IntentForOrder, Advances, IntentRow
<1>2. ASSUME NEW w \in Workers, InitiateRefused(w) PROVE Advances
  BY <1>0, <1>2 DEF InitiateRefused, ExpireOnRead, Advances, IntentRow
<1>3. ASSUME NEW w \in Workers, InitiateAtGateway(w) PROVE Advances
  BY <1>0, <1>3 DEF InitiateAtGateway, Advances, GatewayRow
<1>4. ASSUME NEW w \in Workers, InitiateInsert(w) PROVE Advances
  <2>1. workers[w].attempt \in Attempts /\ attempts[workers[w].attempt].status = "none"
    BY <1>4 DEF InitiateInsert, CheckoutInv, WorkersHold, WorkerHolds
  <2> QED
    BY <1>0, <1>4, <2>1 DEF InitiateInsert, AttemptInserted, Advances, IntentRow
<1>5. ASSUME NEW w \in Workers, CallbackFailed(w) PROVE Advances
  <2>1. workers[w].attempt \in Attempts
    BY <1>5 DEF CallbackFailed, CheckoutInv, WorkersHold, WorkerHolds
  <2>2. CASE attempts[workers[w].attempt].status # "initiated"
    BY <1>5, <2>2 DEF CallbackFailed, Advances
  <2>3. CASE attempts[workers[w].attempt].status = "initiated"
    BY <1>5, <2>1, <2>3, VerdictRows DEF CallbackFailed, Advances
  <2> QED
    BY <2>2, <2>3
<1>6. ASSUME NEW w \in Workers, Succeeds(w), UNCHANGED <<gateway, schedule>>,
             order' = order \/ Capture(workers[w].attempt)
      PROVE  Advances
  <2>1. workers[w].attempt \in Attempts
    BY <1>6 DEF Succeeds, CheckoutInv, WorkersHold, WorkerHolds
  <2>2. /\ Paid => order'.collected = order.collected
        /\ order.capture # 0 => order'.capture = order.capture
    BY <1>0, <1>6 DEF Capture, Paid, CheckoutInv, OrderTells, OrderRow
  <2> QED
    BY <1>6, <2>1, <2>2, VerdictRows DEF Succeeds, Advances
<1>7. ASSUME NEW w \in Workers, NEW permitted \in BOOLEAN,
             CallbackCaptured(w, permitted) \/ CallbackDuplicate(w)
      PROVE  Advances
  BY <1>6, <1>7 DEF CallbackCaptured, CallbackDuplicate
<1>8. ASSUME NEW i \in Intents, Lapse(i) PROVE Advances
  BY <1>0, <1>8 DEF Lapse, Advances, IntentRow
<1>9. ASSUME NEW a \in Attempts, CustomerDecides(a) PROVE Advances
  BY <1>0, <1>9 DEF CustomerDecides, Advances, GatewayRow
<1>10. ASSUME NEW w \in Workers, RefundSend(w) PROVE Advances
  <2>1. gateway' = gateway \/ gateway' = [gateway EXCEPT ![workers[w].attempt].refunded = TRUE]
    BY <1>10 DEF RefundSend, GatewayRefunded
  <2>2. \A a \in Attempts : gateway'[a].state = gateway[a].state
    BY <1>0, <2>1 DEF GatewayRow
  <2> QED
    BY <1>10, <2>2 DEF RefundSend, Advances
<1>11. ASSUME UNCHANGED <<paymentVars, schedule>>,
              order'.collected = order.collected, order'.capture = order.capture
       PROVE  Advances
  BY <1>11 DEF paymentVars, Advances
<1>12. order' = OrderCancelled => order'.collected = order.collected /\ order'.capture = order.capture
  BY <1>0 DEF OrderCancelled, OrderRow
<1>13. \A amount : order' = RefundCounted(amount) =>
         order'.collected = order.collected /\ order'.capture = order.capture
  BY <1>0 DEF RefundCounted, OrderRow
<1>14. ASSUME NEW w \in Workers, NEW e \in Events, Handle(w, e) PROVE Advances
  BY <1>11, <1>12, <1>13, <1>14 DEF Handle, DecideCancellation, HandleExpired, HandleRefunded
<1>15. ASSUME NEW w \in Workers, RefundOpen(w) \/ RefundComplete(w) PROVE Advances
  BY <1>15 DEF RefundOpen, RefundComplete, Advances
<1>16. CASE ConfirmWithoutCollection
  BY <1>0, <1>11, <1>16 DEF ConfirmWithoutCollection, OrderRow
<1>17. ASSUME NEW w \in Workers,
              \/ RetryPayment(w) \/ RemedyBegin(w) \/ ExecuteCancellation(w) \/ RecordExecution(w)
              \/ MarkPublished(w) \/ RemedyCommit(w) \/ Crash(w)
       PROVE  Advances
  BY <1>11, <1>17 DEF RetryPayment, RemedyBegin, ExecuteCancellation, RecordExecution,
     MarkPublished, RemedyCommit, Crash
<1>18. ASSUME NEW w \in Workers, NEW a \in Attempts, Callback(w, a) PROVE Advances
  BY <1>11, <1>18 DEF Callback
<1>19. ASSUME NEW actor, ExpireBooking \/ CancelBooking(actor) PROVE Advances
  BY <1>11, <1>19 DEF ExpireBooking, CancelBooking
<1>20. CASE UNCHANGED vars
  BY <1>11, <1>20 DEF vars, paymentVars
<1> QED
  BY <1>1, <1>2, <1>3, <1>4, <1>5, <1>7, <1>8, <1>9, <1>10, <1>14, <1>15, <1>16, <1>17, <1>18, <1>19, <1>20
  DEF Next, Request, Proceed, Workers

---------------------------------------------------------------------------
(* What the workers hold.                                                  *)

\* An order that is paid stays paid.
LEMMA PaidStays == Paid /\ Advances => Paid'
  BY DEF Paid, Advances

\* The reference a worker is about to insert is inserted by nobody else.
LEMMA ReferenceKept ==
  ASSUME CheckoutInv, [Next]_vars, NEW x \in Workers, workers[x].pc = "insert"
  PROVE  attempts'[workers[x].attempt].status = "none" \/ InitiateInsert(x)
<1>0. /\ attempts \in [Attempts -> AttemptRow]
      /\ workers[x].attempt \in Attempts /\ attempts[workers[x].attempt].status = "none"
  BY DEF CheckoutInv, TypeOK, PaymentTypeOK, WorkersHold, WorkerHolds
<1>1. ASSUME NEW w \in Workers, InitiateInsert(w), w # x
      PROVE  attempts'[workers[x].attempt] = attempts[workers[x].attempt]
  <2>1. workers[w].attempt # workers[x].attempt
    BY <1>1 DEF InitiateInsert, CheckoutInv, ReferencesDiffer
  <2> QED
    BY <1>0, <1>1, <2>1 DEF InitiateInsert, AttemptInserted
<1>2. ASSUME NEW w \in Workers, NEW v, workers[w].pc = "apply",
             attempts[workers[w].attempt].status = "initiated",
             VerdictRecorded(workers[w].attempt, v)
      PROVE  attempts'[workers[x].attempt] = attempts[workers[x].attempt]
  <2>1. workers[w].attempt \in Attempts
    BY <1>2 DEF CheckoutInv, WorkersHold, WorkerHolds
  <2> QED
    BY <1>0, <1>2, <2>1, VerdictRows
<1>3. attempts'[workers[x].attempt] = attempts[workers[x].attempt] \/ InitiateInsert(x)
  BY <1>1, <1>2
  DEF Next, Request, Proceed, Handle, vars, CheckoutPay, RetryPayment, InitiateRefused,
      InitiateAtGateway, CustomerDecides, Lapse, Callback, CallbackFailed, Succeeds,
      CallbackCaptured, CallbackDuplicate, ConfirmWithoutCollection, RefundOpen, RefundSend,
      RefundComplete, ExpireBooking, CancelBooking, DecideCancellation, ExecuteCancellation,
      RecordExecution, HandleExpired, HandleRefunded, MarkPublished, RemedyBegin, RemedyCommit,
      Crash, paymentVars
<1> QED
  BY <1>0, <1>3

\* A worker whose row a step leaves alone still holds what it held.
LEMMA StillHolds ==
  ASSUME CheckoutInv, [Next]_vars, NEW x \in Workers, workers'[x] = workers[x]
  PROVE  WorkerHolds(x)'
<1>1. Advances
  BY NextAdvances
<1>2. WorkerHolds(x)
  BY DEF CheckoutInv, WorkersHold
<1>3. Paid => Paid'
  BY <1>1, PaidStays
<1>4. workers[x].pc = "insert" => attempts'[workers[x].attempt].status = "none"
  <2>1. ASSUME InitiateInsert(x) PROVE workers'[x].pc = "idle"
    BY <2>1, IdleTyped, WorkerTyped DEF InitiateInsert, Done, CheckoutInv, TypeOK, Idle
  <2> QED
    BY <2>1, ReferenceKept
<1> HIDE DEF Paid
<1> QED
  BY <1>1, <1>2, <1>3, <1>4 DEF WorkerHolds, Advances

\* Every row a worker is given is one it may hold.
LEMMA NextWorkers ==
  ASSUME CheckoutInv, [Next]_vars
  PROVE  WorkersHold'
<1> USE DEF WorkersHold
<1>0. workers \in [Workers -> Worker] /\ TypeOK /\ schedule \in Nat
  BY CheckoutAssumption DEF CheckoutInv, TypeOK
<1>1. Advances
  BY NextAdvances
<1>2. Paid => Paid'
  BY <1>1, PaidStays
<1>3. ASSUME NEW w \in Workers, NEW q, Becomes(w, q), WorkerHolds(w)'
      PROVE  WorkersHold'
  <2>1. \A x \in Workers : x # w => workers'[x] = workers[x]
    BY <1>0, <1>3 DEF Becomes
  <2> QED
    BY <1>3, <2>1, StillHolds DEF Becomes
<1>4. ASSUME NEW w \in Workers, NEW q, Becomes(w, q), q.pc \in {"idle", "mark"}
      PROVE  WorkersHold'
  <2>1. workers'[w] = q
    BY <1>0, <1>4 DEF Becomes
  <2>2. WorkerHolds(w)'
    BY <1>4, <2>1 DEF WorkerHolds
  <2> QED
    BY <1>3, <1>4, <2>2
<1>5. ASSUME NEW w \in Workers, Done(w) PROVE WorkersHold'
  BY <1>4, <1>5 DEF Done, Idle
<1>6. ASSUME NEW w \in Workers, NEW i \in Intents, intents'[i].status # "none",
             Becomes(w, [Idle EXCEPT !.pc = "initiate", !.intent = i])
      PROVE  WorkersHold'
  <2>1. workers'[w].pc = "initiate" /\ workers'[w].intent = i
    BY <1>0, <1>6 DEF Becomes, Idle
  <2> QED
    BY <1>3, <1>6, <2>1 DEF WorkerHolds
<1>7. ASSUME NEW w \in Workers, CheckoutPay(w) PROVE WorkersHold'
  <2>1. PICK i \in Intents : /\ IntentForOrder(i, schedule)
                             /\ Becomes(w, [Idle EXCEPT !.pc = "initiate", !.intent = i])
    BY <1>7 DEF CheckoutPay
  <2>2. intents'[i].status # "none"
    BY <1>0, <2>1 DEF IntentForOrder, LiveIntents, TypeOK, PaymentTypeOK
  <2> QED
    BY <1>6, <2>1, <2>2
<1>8. ASSUME NEW w \in Workers, RetryPayment(w) PROVE WorkersHold'
  BY <1>6, <1>8 DEF RetryPayment, paymentVars, LatestIntent
<1>9. ASSUME NEW w \in Workers, InitiateAtGateway(w) PROVE WorkersHold'
  <2>1. CASE OpenAttempts(workers[w].intent) # {}
    BY <1>5, <1>9, <2>1 DEF InitiateAtGateway
  <2>2. CASE OpenAttempts(workers[w].intent) = {}
    <3>1. PICK a \in Attempts : /\ NextReference(a)
                                /\ gateway' = [gateway EXCEPT ![a].state = "pending"]
                                /\ Becomes(w, [workers[w] EXCEPT !.pc = "insert", !.attempt = a])
      BY <1>9, <2>2 DEF InitiateAtGateway
    <3>2. /\ workers'[w].pc = "insert" /\ workers'[w].attempt = a
          /\ workers'[w].intent = workers[w].intent
      BY <1>0, <3>1 DEF Becomes, Worker
    <3>3. gateway'[a].state = "pending"
      BY <1>0, <3>1 DEF TypeOK, PaymentTypeOK, GatewayRow
    <3>4. attempts'[a].status = "none"
      BY <1>9, <3>1 DEF InitiateAtGateway, NextReference, CheckoutInv, AttemptsPlaced
    <3>5. workers[w].intent \in Intents /\ intents'[workers[w].intent].status # "none"
      BY <1>9 DEF InitiateAtGateway, CheckoutInv, WorkerHolds
    <3> QED
      BY <1>3, <3>1, <3>2, <3>3, <3>4, <3>5 DEF WorkerHolds
  <2> QED
    BY <2>1, <2>2
<1>10. ASSUME NEW w \in Workers, NEW a \in Attempts, Callback(w, a) PROVE WorkersHold'
  <2>1. PICK v \in Verdicts(a) \ {"unknown"} :
          Becomes(w, [Idle EXCEPT !.pc = "apply", !.attempt = a, !.verdict = v])
    BY <1>10 DEF Callback
  <2>2. workers'[w].pc = "apply" /\ workers'[w].attempt = a /\ workers'[w].verdict = v
    BY <1>0, <2>1 DEF Becomes, Idle
  <2>3. v # "none"
    BY DEF Verdicts
  <2> QED
    BY <1>3, <1>10, <2>1, <2>2, <2>3 DEF WorkerHolds, Callback, paymentVars
<1>11. ASSUME NEW w \in Workers, NEW k \in RefundKeys, Compensate(w, k), k \in OrderKeys => Paid'
       PROVE  WorkersHold'
  <2>1. workers'[w].pc = "refund" /\ workers'[w].key = k /\ workers'[w].event = None
    BY <1>0, <1>11 DEF Compensate, Becomes, Idle
  <2> QED
    BY <1>3, <1>11, <2>1 DEF Compensate, WorkerHolds
<1>12. ASSUME NEW w \in Workers, NEW permitted \in BOOLEAN, CallbackCaptured(w, permitted)
       PROVE  WorkersHold'
  <2>1. Paid'
    <3>1. workers[w].attempt \in Attempts /\ attempts[workers[w].attempt].status = "initiated"
      BY <1>12 DEF CallbackCaptured, Succeeds, CheckoutInv, WorkerHolds
    <3>2. schedule > 0
      BY <3>1 DEF CheckoutInv, AttemptsPlaced, IntentsPriced
    <3>3. order'.collected = schedule /\ schedule' = schedule
      BY <1>0, <1>12 DEF CallbackCaptured, Capture, TypeOK, OrderRow
    <3> QED
      BY <3>2, <3>3 DEF Paid
  <2>2. CancellationKey \in RefundKeys /\ UnconfirmableKey \in RefundKeys
    BY DEF RefundKeys, OrderKeys
  <2> QED
    BY <1>5, <1>11, <1>12, <2>1, <2>2 DEF CallbackCaptured
<1>13. ASSUME NEW w \in Workers, CallbackDuplicate(w) PROVE WorkersHold'
  <2>1. workers[w].attempt \in Attempts
    BY <1>13 DEF CallbackDuplicate, Succeeds, CheckoutInv, WorkerHolds
  <2>2. DuplicateKey(workers[w].attempt) \in RefundKeys \ OrderKeys
    BY <2>1 DEF RefundKeys, OrderKeys, DuplicateKey, CancellationKey, UnconfirmableKey
  <2> QED
    BY <1>11, <1>13, <2>2 DEF CallbackDuplicate
<1>14. ASSUME NEW w \in Workers, workers[w].pc \in {"refund", "complete"},
              NEW s \in {"pending", "succeeded", "failed", "manual_required"},
              Becomes(w, AfterRefund(workers[w], s))
       PROVE  WorkersHold'
  <2>1. CASE workers[w].event = None
    BY <1>4, <1>14, <2>1 DEF AfterRefund, Idle
  <2>2. CASE workers[w].event # None
    <3>1. /\ workers'[w].pc = "record" /\ workers'[w].outcome = s
          /\ workers'[w].key = workers[w].key
      BY <1>0, <1>14, <2>2 DEF AfterRefund, Becomes, Worker
    <3>2. workers[w].key = CancellationKey /\ Paid
      BY <1>14, <2>2 DEF CheckoutInv, WorkerHolds, OrderKeys
    <3> QED
      BY <1>2, <1>3, <1>14, <3>1, <3>2 DEF WorkerHolds
  <2> QED
    BY <2>1, <2>2
<1>15. ASSUME NEW w \in Workers, RefundOpen(w) PROVE WorkersHold'
  <2> DEFINE q == workers[w]
  <2>1. q.pc = "refund" /\ q.key \in RefundKeys /\ WorkerHolds(w)
    BY <1>15 DEF RefundOpen, CheckoutInv, WorkerHolds
  <2>2. CASE refunds[q.key].status # "none"
    <3>1. refunds[q.key].status \in {"pending", "succeeded", "failed", "manual_required"}
      BY <1>0, <2>1, <2>2 DEF TypeOK, PaymentTypeOK, RefundRow, RefundStatus
    <3> QED
      BY <1>14, <1>15, <2>1, <2>2, <3>1 DEF RefundOpen
  <2>3. CASE refunds[q.key].status = "none"
    <3>1. ASSUME NEW a \in Attempts \cup {0}, Becomes(w, [q EXCEPT !.pc = "send", !.attempt = a])
          PROVE  WorkersHold'
      <4>1. /\ workers'[w].pc = "send" /\ workers'[w].attempt = a
            /\ workers'[w].key = q.key /\ workers'[w].event = q.event
        BY <1>0, <3>1 DEF Becomes, Worker
      <4>2. WorkerHolds(w)'
        BY <1>2, <2>1, <4>1 DEF WorkerHolds
      <4> QED
        BY <1>3, <3>1, <4>2
    <3> QED
      BY <1>5, <1>15, <2>3, <3>1 DEF RefundOpen
  <2> QED
    BY <2>2, <2>3
<1>16. ASSUME NEW w \in Workers, RefundSend(w) PROVE WorkersHold'
  <2> DEFINE q == workers[w]
  <2>1. PICK outcome \in GatewayAnswers(q.attempt) :
          Becomes(w, [q EXCEPT !.pc = "complete", !.outcome = outcome])
    BY <1>16 DEF RefundSend
  <2>2. /\ workers'[w].pc = "complete" /\ workers'[w].outcome = outcome
        /\ workers'[w].key = q.key /\ workers'[w].event = q.event
    BY <1>0, <2>1 DEF Becomes, Worker
  <2>3. WorkerHolds(w) /\ q.pc = "send"
    BY <1>16 DEF RefundSend, CheckoutInv
  <2>4. outcome \in {"succeeded", "failed", "manual_required"}
    BY DEF GatewayAnswers
  <2>5. WorkerHolds(w)'
    BY <1>2, <2>2, <2>3, <2>4 DEF WorkerHolds
  <2> QED
    BY <1>3, <2>1, <2>5
<1>17. ASSUME NEW w \in Workers, RefundComplete(w) PROVE WorkersHold'
  <2>1. workers[w].outcome \in {"succeeded", "failed", "manual_required"}
    BY <1>17 DEF RefundComplete, CheckoutInv, WorkerHolds
  <2> QED
    BY <1>14, <1>17, <2>1 DEF RefundComplete
<1>18. ASSUME NEW w \in Workers, NEW e \in Events, DecideCancellation(w, e) PROVE WorkersHold'
  <2>1. /\ workers'[w].pc = "execute" /\ workers'[w].key = CancellationKey
        /\ workers'[w].amount = decision'.refund /\ workers'[w].outcome = decision'.status
    BY <1>0, <1>18 DEF DecideCancellation, Becomes, Idle
  <2>2. /\ decision'.status \in {"pending", "executed", "manual_required", "failed"}
        /\ decision'.status # "executed" => Paid
    <3>1. CASE decision.status # "none"
      BY <1>0, <1>18, <3>1
      DEF DecideCancellation, Undecided, CheckoutInv, RefundsPaid, TypeOK, DecisionRow
    <3>2. CASE decision.status = "none"
      <4>1. decision' \in NewDecisions
        BY <1>18, <3>2 DEF DecideCancellation, Undecided
      <4>2. order.collected > 0 => Paid
        BY <1>0 DEF CheckoutInv, OrderTells, Paid
      <4>3. refunds[CancellationKey].status # "none" => Paid
        BY DEF CheckoutInv, RefundsPaid, OrderKeys
      <4> QED
        BY <1>0, <4>1, <4>2, <4>3, DecisionsTyped DEF DecisionRow
    <3> QED
      BY <3>1, <3>2
  <2>3. WorkerHolds(w)'
    BY <1>2, <2>1, <2>2 DEF WorkerHolds
  <2> QED
    BY <1>3, <1>18, <2>3 DEF DecideCancellation
<1>19. ASSUME NEW w \in Workers, ExecuteCancellation(w) PROVE WorkersHold'
  <2> DEFINE q == workers[w]
  <2>1. WorkerHolds(w) /\ q.pc = "execute"
    BY <1>19 DEF ExecuteCancellation, CheckoutInv
  <2>2. /\ workers'[w].pc = IF RefundDue(q) THEN "refund" ELSE "mark"
        /\ workers'[w].key = q.key
    BY <1>0, <1>19 DEF ExecuteCancellation, Becomes, Worker
  <2>3. q.key = CancellationKey /\ CancellationKey \in RefundKeys
    BY <2>1 DEF WorkerHolds, RefundKeys, OrderKeys
  <2>4. RefundDue(q) => Paid
    BY <2>1 DEF RefundDue, WorkerHolds
  <2>5. WorkerHolds(w)'
    BY <1>2, <2>2, <2>3, <2>4 DEF WorkerHolds
  <2> QED
    BY <1>3, <1>19, <2>5 DEF ExecuteCancellation
<1>20. ASSUME NEW w \in Workers, RecordExecution(w) PROVE WorkersHold'
  <2>1. workers[w] \in Worker
    BY <1>0
  <2>2. [workers[w] EXCEPT !.pc = "mark", !.outcome = "none"].pc = "mark"
    BY <2>1 DEF Worker
  <2> QED
    BY <1>4, <1>20, <2>2 DEF RecordExecution
<1>21. ASSUME NEW w \in Workers, NEW e \in Events, HandleExpired(w) \/ HandleRefunded(w, e)
       PROVE  WorkersHold'
  <2>1. \A x : [Idle EXCEPT !.pc = "mark", !.event = x].pc = "mark"
    BY DEF Idle
  <2> QED
    BY <1>4, <1>21, <2>1 DEF HandleExpired, HandleRefunded
<1>22. ASSUME NEW w \in Workers, RemedyBegin(w) PROVE WorkersHold'
  <2>1. workers'[w].pc = "remedy"
    BY <1>0, <1>22 DEF RemedyBegin, Becomes, Idle
  <2>2. Paid
    BY <1>22 DEF RemedyBegin, CheckoutInv, RefundsPaid
  <2> QED
    BY <1>2, <1>3, <1>22, <2>1, <2>2 DEF RemedyBegin, WorkerHolds
<1>23. ASSUME NEW w \in Workers,
              \/ InitiateRefused(w) \/ InitiateInsert(w) \/ CallbackFailed(w) \/ MarkPublished(w)
              \/ RemedyCommit(w) \/ Crash(w)
       PROVE  WorkersHold'
  BY <1>5, <1>23
  DEF InitiateRefused, InitiateInsert, CallbackFailed, MarkPublished, RemedyCommit, Crash
<1>24. ASSUME UNCHANGED workers PROVE WorkersHold'
  BY <1>24, StillHolds
<1>25. ASSUME \/ \E a \in Attempts : CustomerDecides(a)
              \/ \E i \in Intents : Lapse(i)
              \/ ConfirmWithoutCollection \/ ExpireBooking
              \/ \E actor \in {"customer", "professional"} : CancelBooking(actor)
              \/ UNCHANGED vars
       PROVE  WorkersHold'
  BY <1>24, <1>25 DEF CustomerDecides, Lapse, ConfirmWithoutCollection, ExpireBooking, CancelBooking, vars
<1> HIDE DEF WorkersHold
<1> QED
  BY <1>7, <1>8, <1>9, <1>10, <1>12, <1>13, <1>15, <1>16, <1>17, <1>18, <1>19, <1>20, <1>21, <1>22,
     <1>23, <1>25
  DEF Next, Request, Handle, Proceed, Workers

---------------------------------------------------------------------------
(* References, attempts and intents.                                       *)

\* A step changes the row of at most one worker, and only the gateway's answer
\* to initiate gives a worker a reference to insert.
LEMMA OneWorker ==
  ASSUME CheckoutInv, [Next]_vars
  PROVE  \/ workers' = workers
         \/ \E w \in Workers :
              /\ \A x \in Workers : x # w => workers'[x] = workers[x]
              /\ workers'[w].pc # "insert" \/ InitiateAtGateway(w)
<1>0. workers \in [Workers -> Worker]
  BY DEF CheckoutInv, TypeOK
<1>1. ASSUME NEW w \in Workers, NEW q, Becomes(w, q)
      PROVE  workers'[w] = q /\ \A x \in Workers : x # w => workers'[x] = workers[x]
  BY <1>0, <1>1 DEF Becomes
<1> DEFINE Good(w) == /\ \A x \in Workers : x # w => workers'[x] = workers[x]
                      /\ workers'[w].pc # "insert" \/ InitiateAtGateway(w)
<1>2. ASSUME NEW w \in Workers, NEW q, Becomes(w, q), q.pc # "insert" PROVE Good(w)
  BY <1>1, <1>2
<1>3. ASSUME NEW w \in Workers, Done(w) PROVE Good(w)
  BY <1>2, <1>3 DEF Done, Idle
<1>4. ASSUME NEW w \in Workers, CheckoutPay(w) \/ RetryPayment(w) PROVE Good(w)
  <2>1. \A i : [Idle EXCEPT !.pc = "initiate", !.intent = i].pc # "insert"
    BY DEF Idle
  <2> QED
    BY <1>2, <1>4, <2>1 DEF CheckoutPay, RetryPayment
<1>5. ASSUME NEW w \in Workers, NEW a \in Attempts, Callback(w, a) PROVE Good(w)
  <2>1. \A v : [Idle EXCEPT !.pc = "apply", !.attempt = a, !.verdict = v].pc # "insert"
    BY DEF Idle
  <2> QED
    BY <1>2, <1>5, <2>1 DEF Callback
<1>6. ASSUME NEW w \in Workers, NEW e \in Events, Handle(w, e) PROVE Good(w)
  <2>1. \A x : [Idle EXCEPT !.pc = "mark", !.event = x].pc # "insert"
    BY DEF Idle
  <2>2. \A x, y : [Idle EXCEPT !.pc = "execute", !.event = e, !.key = CancellationKey,
                               !.amount = x, !.outcome = y].pc # "insert"
    BY DEF Idle
  <2> QED
    BY <1>2, <1>6, <2>1, <2>2 DEF Handle, DecideCancellation, HandleExpired, HandleRefunded
<1>7. ASSUME NEW w \in Workers, InitiateAtGateway(w) PROVE Good(w)
  BY <1>1, <1>7 DEF InitiateAtGateway, Done
<1>8. ASSUME NEW w \in Workers, NEW k, Compensate(w, k) PROVE Good(w)
  BY <1>2, <1>8 DEF Compensate, Idle
<1>9. ASSUME NEW w \in Workers, NEW s, Becomes(w, AfterRefund(workers[w], s)) PROVE Good(w)
  <2>1. [workers[w] EXCEPT !.pc = "record", !.outcome = s].pc # "insert"
    BY <1>0 DEF Worker
  <2> QED
    BY <1>2, <1>9, <2>1 DEF AfterRefund, Idle
<1>10. ASSUME NEW w \in Workers, RefundOpen(w) \/ RefundSend(w) \/ RefundComplete(w) PROVE Good(w)
  <2>1. \A a : [workers[w] EXCEPT !.pc = "send", !.attempt = a].pc # "insert"
    BY <1>0 DEF Worker
  <2>2. \A o : [workers[w] EXCEPT !.pc = "complete", !.outcome = o].pc # "insert"
    BY <1>0 DEF Worker
  <2> HIDE DEF Good
  <2> QED
    BY <1>2, <1>3, <1>9, <1>10, <2>1, <2>2 DEF RefundOpen, RefundSend, RefundComplete
<1>11. ASSUME NEW w \in Workers, ExecuteCancellation(w) \/ RecordExecution(w) PROVE Good(w)
  <2>2. [workers[w] EXCEPT !.pc = "mark", !.outcome = "none"].pc # "insert"
    BY <1>0 DEF Worker
  <2>3. [workers[w] EXCEPT !.pc = IF RefundDue(workers[w]) THEN "refund" ELSE "mark",
                           !.outcome = "none"].pc # "insert"
    BY <1>0 DEF Worker
  <2> HIDE DEF Good
  <2> QED
    BY <1>2, <1>11, <2>2, <2>3 DEF ExecuteCancellation, RecordExecution
<1> HIDE DEF Good
<1>12. ASSUME NEW w \in Workers, NEW permitted \in BOOLEAN,
              CallbackCaptured(w, permitted) \/ CallbackDuplicate(w)
       PROVE  Good(w)
  BY <1>3, <1>8, <1>12 DEF CallbackCaptured, CallbackDuplicate
<1>13. ASSUME NEW w \in Workers, RemedyBegin(w) PROVE Good(w)
  BY <1>2, <1>13 DEF RemedyBegin, Idle
<1>14. ASSUME NEW w \in Workers,
              \/ InitiateRefused(w) \/ InitiateInsert(w) \/ CallbackFailed(w) \/ MarkPublished(w)
              \/ RemedyCommit(w) \/ Crash(w)
       PROVE  Good(w)
  BY <1>3, <1>14
  DEF InitiateRefused, InitiateInsert, CallbackFailed, MarkPublished, RemedyCommit, Crash
<1>15. workers' = workers \/ \E w \in Workers : Good(w)
  BY <1>4, <1>5, <1>6, <1>7, <1>10, <1>11, <1>12, <1>14, <1>13
  DEF Next, Request, Proceed, Workers, vars, CustomerDecides, Lapse, ConfirmWithoutCollection,
      ExpireBooking, CancelBooking
<1> QED
  BY <1>15 DEF Good

\* The gateway hands out a reference that no worker holds and no row has.
LEMMA NextReferences ==
  ASSUME CheckoutInv, [Next]_vars
  PROVE  ReferencesDiffer'
<1>1. CASE workers' = workers
  BY <1>1 DEF CheckoutInv, ReferencesDiffer
<1>2. ASSUME NEW w \in Workers, \A x \in Workers : x # w => workers'[x] = workers[x],
             workers'[w].pc # "insert"
      PROVE  ReferencesDiffer'
  BY <1>2 DEF CheckoutInv, ReferencesDiffer
<1>3. ASSUME NEW w \in Workers, \A x \in Workers : x # w => workers'[x] = workers[x],
             InitiateAtGateway(w)
      PROVE  ReferencesDiffer'
  <2>1. CASE OpenAttempts(workers[w].intent) # {}
    <3>1. workers'[w].pc = "idle"
      BY <1>3, <2>1 DEF InitiateAtGateway, Done, Becomes, Idle, CheckoutInv, TypeOK
    <3> QED
      BY <1>2, <1>3, <3>1
  <2>2. CASE OpenAttempts(workers[w].intent) = {}
    <3>1. PICK a \in Attempts : /\ NextReference(a)
                                /\ Becomes(w, [workers[w] EXCEPT !.pc = "insert", !.attempt = a])
      BY <1>3, <2>2 DEF InitiateAtGateway
    <3>2. workers'[w].attempt = a
      BY <3>1 DEF Becomes, CheckoutInv, TypeOK, Worker
    <3>3. \A x \in Workers : workers[x].pc = "insert" => workers[x].attempt # a
      BY <3>1 DEF NextReference, CheckoutInv, WorkersHold, WorkerHolds
    <3> QED
      BY <1>3, <3>2, <3>3 DEF CheckoutInv, ReferencesDiffer
  <2> QED
    BY <2>1, <2>2
<1> QED
  BY <1>1, <1>2, <1>3, OneWorker

\* Where rows come from: an attempt from its insert, an intent from checkout
\* with the amount of the schedule.
LEMMA NewRows ==
  ASSUME CheckoutInv, [Next]_vars
  PROVE  /\ \A a \in Attempts : (attempts[a].status = "none" /\ attempts'[a].status # "none") =>
              \E w \in Workers : /\ InitiateInsert(w) /\ AttemptAdmitted(workers[w].intent)
                                 /\ workers[w].attempt = a
                                 /\ attempts'[a] = [status |-> "initiated", intent |-> workers[w].intent]
         /\ \A i \in Intents : intents[i].status = "none" =>
              \/ intents'[i] = intents[i]
              \/ schedule > 0 /\ intents'[i].amount = schedule
<1>0. intents \in [Intents -> IntentRow] /\ attempts \in [Attempts -> AttemptRow]
  BY DEF CheckoutInv, TypeOK, PaymentTypeOK
<1> DEFINE
     NewAttempts == \A a \in Attempts : (attempts[a].status = "none" /\ attempts'[a].status # "none") =>
              \E w \in Workers : /\ InitiateInsert(w) /\ AttemptAdmitted(workers[w].intent)
                                 /\ workers[w].attempt = a
                                 /\ attempts'[a] = [status |-> "initiated", intent |-> workers[w].intent]
     NewIntents == \A i \in Intents : intents[i].status = "none" =>
              \/ intents'[i] = intents[i]
              \/ schedule > 0 /\ intents'[i].amount = schedule
<1>1. ASSUME NEW w \in Workers, InitiateInsert(w) PROVE NewAttempts /\ NewIntents
  <2>1. /\ workers[w].attempt \in Attempts /\ workers[w].intent \in Intents
        /\ intents[workers[w].intent].status # "none"
    BY <1>1 DEF InitiateInsert, CheckoutInv, WorkersHold, WorkerHolds
  <2>2. NewIntents
    BY <1>0, <1>1, <2>1 DEF InitiateInsert, AttemptInserted
  <2>3. CASE AttemptAdmitted(workers[w].intent)
    BY <1>0, <1>1, <2>1, <2>2, <2>3 DEF InitiateInsert, AttemptInserted
  <2>4. CASE ~AttemptAdmitted(workers[w].intent)
    BY <1>0, <1>1, <2>2, <2>4 DEF InitiateInsert
  <2> QED
    BY <2>3, <2>4
<1>2. ASSUME NEW w \in Workers, NEW v, workers[w].pc = "apply",
             attempts[workers[w].attempt].status = "initiated",
             VerdictRecorded(workers[w].attempt, v)
      PROVE  NewAttempts /\ NewIntents
  <2>1. workers[w].attempt \in Attempts
    BY <1>2 DEF CheckoutInv, WorkersHold, WorkerHolds
  <2>2. NewAttempts
    BY <1>2, <2>1, VerdictRows
  <2>3. intents[attempts[workers[w].attempt].intent].status # "none"
    BY <1>2, <2>1 DEF CheckoutInv, AttemptsPlaced
  <2>4. NewIntents
    BY <1>2, <2>1, <2>3, VerdictRows
  <2> QED
    BY <2>2, <2>4
<1>3. ASSUME NEW w \in Workers, CheckoutPay(w) PROVE NewAttempts /\ NewIntents
  BY <1>0, <1>3 DEF CheckoutPay, IntentForOrder
<1>4. ASSUME NEW w \in Workers, InitiateRefused(w) PROVE NewAttempts /\ NewIntents
  <2>1. intents[workers[w].intent].status # "none"
    BY <1>4 DEF InitiateRefused, CheckoutInv, WorkersHold, WorkerHolds
  <2> QED
    BY <1>0, <1>4, <2>1 DEF InitiateRefused, ExpireOnRead
<1>5. ASSUME NEW i \in Intents, Lapse(i) PROVE NewAttempts /\ NewIntents
  BY <1>0, <1>5 DEF Lapse
<1>6. ASSUME UNCHANGED <<attempts, intents>> PROVE NewAttempts /\ NewIntents
  BY <1>6
<1> HIDE DEF NewAttempts, NewIntents
<1>7. NewAttempts /\ NewIntents
  BY <1>1, <1>2, <1>3, <1>4, <1>5, <1>6
  DEF Next, Request, Proceed, Handle, vars, RetryPayment,
      InitiateAtGateway, CustomerDecides, Callback, CallbackFailed, Succeeds,
      CallbackCaptured, CallbackDuplicate, ConfirmWithoutCollection, RefundOpen, RefundSend,
      RefundComplete, ExpireBooking, CancelBooking, DecideCancellation, ExecuteCancellation,
      RecordExecution, HandleExpired, HandleRefunded, MarkPublished, RemedyBegin, RemedyCommit,
      Crash, paymentVars, Workers
<1> QED
  BY <1>7 DEF NewAttempts, NewIntents

\* Attempts stay with intents that exist, and intents are for what the order costs.
LEMMA NextPlaced ==
  ASSUME CheckoutInv, [Next]_vars
  PROVE  AttemptsPlaced' /\ IntentsPriced'
<1>1. Advances
  BY NextAdvances
<1>2. ASSUME NEW a \in Attempts, attempts'[a].status # "none"
      PROVE  /\ gateway'[a].state # "none" /\ attempts'[a].intent \in Intents
             /\ intents'[attempts'[a].intent].status # "none"
  <2>1. CASE attempts[a].status # "none"
    BY <1>1, <2>1 DEF Advances, CheckoutInv, AttemptsPlaced
  <2>2. CASE attempts[a].status = "none"
    <3>1. PICK w \in Workers : /\ InitiateInsert(w) /\ workers[w].attempt = a
                               /\ attempts'[a].intent = workers[w].intent
      <4>1. PICK w \in Workers :
              /\ InitiateInsert(w) /\ workers[w].attempt = a
              /\ attempts'[a] = [status |-> "initiated", intent |-> workers[w].intent]
        BY <1>2, <2>2, NewRows
      <4>2. attempts'[a].intent = workers[w].intent
        BY <4>1
      <4> QED
        BY <4>1, <4>2
    <3>2. /\ gateway[a].state # "none" /\ workers[w].intent \in Intents
          /\ intents[workers[w].intent].status # "none"
      BY <3>1 DEF InitiateInsert, CheckoutInv, WorkersHold, WorkerHolds
    <3> QED
      BY <1>1, <3>1, <3>2 DEF Advances
  <2> QED
    BY <2>1, <2>2
<1>3. schedule \in Nat
  BY CheckoutAssumption DEF CheckoutInv, TypeOK
<1>4. IntentsPriced'
  BY <1>1, <1>3, NewRows DEF IntentsPriced, Advances, CheckoutInv
<1> QED
  BY <1>2, <1>4 DEF AttemptsPlaced

---------------------------------------------------------------------------
(* The order and the booking.                                              *)

\* What a step may do to the order.
LEMMA OrderStep ==
  ASSUME CheckoutInv, [Next]_vars
  PROVE  \/ order' = order
         \/ \E w \in Workers : Succeeds(w) /\ Capture(workers[w].attempt)
         \/ \E w \in Workers, e \in Events : DecideCancellation(w, e) /\ order' = OrderCancelled
         \/ \E w \in Workers : HandleExpired(w) /\ order' = OrderCancelled
         \/ \E w \in Workers, k \in Events :
              HandleRefunded(w, k) /\ order' = RefundCounted(refunds[k].amount)
         \/ ConfirmWithoutCollection
<1>1. ASSUME NEW w \in Workers, NEW e \in Events, DecideCancellation(w, e)
      PROVE  order' = order \/ order' = OrderCancelled
  BY <1>1 DEF DecideCancellation
<1> QED
  BY <1>1
  DEF Next, Request, Proceed, Handle, vars, CheckoutPay, RetryPayment, InitiateRefused,
      InitiateAtGateway, InitiateInsert, CustomerDecides, Lapse, Callback, CallbackFailed,
      CallbackCaptured, CallbackDuplicate, RefundOpen, RefundSend,
      RefundComplete, ExpireBooking, CancelBooking, ExecuteCancellation,
      RecordExecution, HandleExpired, HandleRefunded, MarkPublished, RemedyBegin, RemedyCommit,
      Crash, paymentVars, Workers

\* The order keeps saying what was collected, whichever handler writes it.
LEMMA NextOrder ==
  ASSUME CheckoutInv, [Next]_vars
  PROVE  OrderTells'
<1>0. order \in OrderRow /\ schedule \in Nat /\ Advances /\ OrderTells
      /\ schedule' = schedule
  BY CheckoutAssumption, NextAdvances DEF CheckoutInv, TypeOK, Advances
<1>1. CASE order' = order
  BY <1>0, <1>1 DEF OrderTells, Advances, Paid, OrderRow
<1>2. ASSUME NEW w \in Workers, Succeeds(w), Capture(workers[w].attempt) PROVE OrderTells'
  <2>1. workers[w].attempt \in Attempts /\ attempts[workers[w].attempt].status = "initiated"
    BY <1>2 DEF Succeeds, CheckoutInv, WorkersHold, WorkerHolds
  <2>2. schedule > 0
    BY <2>1 DEF CheckoutInv, AttemptsPlaced, IntentsPriced
  <2>3. attempts'[workers[w].attempt].status = "succeeded"
    BY <1>2, <2>1, VerdictRows DEF Succeeds
  <2>4. /\ order'.collected = schedule /\ order'.capture = workers[w].attempt
        /\ order'.status \in {"paid", "online_collection_completed"}
    BY <1>0, <1>2 DEF Capture, OrderRow
  <2> QED
    BY <1>0, <2>2, <2>3, <2>4 DEF OrderTells, Paid
<1>3. ASSUME order'.collected = order.collected, order'.capture = order.capture,
             order.collected > 0 =>
               order'.status \in {"paid", "online_collection_completed", "refunded", "partially_refunded"}
      PROVE  OrderTells'
  BY <1>0, <1>3 DEF OrderTells, Advances, Paid, OrderRow
<1>4. CASE order' = OrderCancelled
  BY <1>0, <1>3, <1>4 DEF OrderCancelled, OrderTells, OrderRow
<1>5. ASSUME NEW amount, order' = RefundCounted(amount) PROVE OrderTells'
  BY <1>0, <1>3, <1>5 DEF RefundCounted, OrderTells, OrderRow
<1>6. CASE ConfirmWithoutCollection
  BY <1>0, <1>3, <1>6 DEF ConfirmWithoutCollection, OrderTells, OrderRow
<1> QED
  BY <1>1, <1>2, <1>4, <1>5, <1>6, OrderStep

\* The booking keeps saying whether it was paid for, whichever handler writes it.
LEMMA NextBooking ==
  ASSUME CheckoutInv, [Next]_vars
  PROVE  BookingTells'
<1>0. /\ order \in OrderRow /\ booking \in BookingRow /\ schedule \in Nat /\ schedule' = schedule
      /\ BookingTells /\ OrderTells
  BY CheckoutAssumption, NextAdvances DEF CheckoutInv, TypeOK, Advances
<1>1. Paid => Paid'
  BY NextAdvances, PaidStays
<1>2. OrderTells'
  BY NextOrder
<1> DEFINE Funded == order.collected = schedule /\ order.status \notin {"pending", "cancelled"}
<1>3. Paid' => Funded'
  BY <1>2, <1>0, NextTypes DEF Paid, OrderTells
<1>4. ASSUME booking' = booking, mail' \subseteq mail \cup OrderKeys,
             booking.status = "confirmed" => Funded'
      PROVE  BookingTells'
  <2>1. Expired \notin OrderKeys /\ \A n \in 1 .. MaxCancels : Cancelled(n) \notin OrderKeys
    BY DEF Expired, Cancelled, OrderKeys, CancellationKey, UnconfirmableKey
  <2> QED
    BY <1>0, <1>1, <1>4, <2>1 DEF BookingTells
<1>5. booking.status = "confirmed" => Funded'
  <2> SUFFICES ASSUME booking.status = "confirmed" PROVE Funded'
    OBVIOUS
  <2>0. order.collected = schedule /\ order.status \notin {"pending", "cancelled"}
    BY <1>0 DEF BookingTells
  <2>1. CASE order' = order
    BY <1>0, <2>0, <2>1
  <2>2. ASSUME NEW w \in Workers, Succeeds(w), Capture(workers[w].attempt) PROVE FALSE
    BY <2>0, <2>2 DEF Capture
  <2>3. ASSUME NEW w \in Workers, NEW e \in Events, DecideCancellation(w, e), order' = OrderCancelled
        PROVE  Funded'
    <3>1. booking.cancels > 0
      BY <1>0, <2>3 DEF DecideCancellation, BookingTells
    <3>2. Paid
      BY <1>0, <3>1 DEF BookingTells
    <3> QED
      BY <1>1, <1>3, <3>2
  <2>4. ASSUME NEW w \in Workers, HandleExpired(w) PROVE FALSE
    BY <1>0, <2>4 DEF HandleExpired, BookingTells
  <2>5. ASSUME NEW amount, order' = RefundCounted(amount) PROVE Funded'
    BY <1>0, <2>0, <2>5 DEF RefundCounted, OrderRow
  <2>6. CASE ConfirmWithoutCollection
    BY <2>0, <2>6 DEF ConfirmWithoutCollection
  <2> QED
    BY <2>1, <2>2, <2>3, <2>4, <2>5, <2>6, OrderStep
<1>6. ASSUME booking' = booking, mail' \subseteq mail \cup OrderKeys PROVE BookingTells'
  BY <1>4, <1>5, <1>6
<1>7. ASSUME booking' = [booking EXCEPT !.status = "confirmed"], mail' = mail,
             booking.status = "pending" \/ Paid,
             booking.status \in {"pending", "cancelled"}, Funded'
      PROVE  BookingTells'
  <2>1. booking'.status = "confirmed" /\ booking'.cancels = booking.cancels
    BY <1>0, <1>7 DEF BookingRow
  <2> QED
    BY <1>0, <1>1, <1>7, <2>1 DEF BookingTells, BookingRow
<1>8. ASSUME NEW w \in Workers, NEW permitted \in BOOLEAN, CallbackCaptured(w, permitted)
      PROVE  BookingTells'
  <2>1. Funded'
    BY <1>0, <1>8 DEF CallbackCaptured, Capture, OrderRow
  <2> QED
    BY <1>6, <1>7, <1>8, <2>1 DEF CallbackCaptured
<1>9. CASE ConfirmWithoutCollection
  <2>1. Funded'
    BY <1>0, <1>9 DEF ConfirmWithoutCollection, OrderRow, OrderTells
  <2> QED
    BY <1>7, <1>9, <2>1 DEF ConfirmWithoutCollection
<1>10. CASE ExpireBooking
  <2>1. booking'.status = "expired" /\ booking'.cancels = booking.cancels
    BY <1>0, <1>10 DEF ExpireBooking, BookingRow
  <2>2. \A n \in 1 .. MaxCancels : Cancelled(n) # Expired
    BY DEF Cancelled, Expired
  <2> QED
    BY <1>0, <1>10, <2>1, <2>2 DEF ExpireBooking, BookingTells
<1>11. ASSUME NEW actor, CancelBooking(actor) PROVE BookingTells'
  <2>1. booking'.status = "cancelled" /\ booking'.cancels > 0
    BY <1>0, <1>11 DEF CancelBooking, BookingRow
  <2>2. Expired \notin mail /\ \A n : Cancelled(n) # Expired
    BY <1>0, <1>11 DEF CancelBooking, BookingTells, Cancelled, Expired
  <2> QED
    BY <1>11, <2>1, <2>2 DEF CancelBooking, BookingTells
<1>12. ASSUME NEW w \in Workers, RemedyCommit(w) PROVE BookingTells'
  <2>1. Paid /\ Funded'
    BY <1>1, <1>3, <1>12 DEF RemedyCommit, CheckoutInv, WorkersHold, WorkerHolds
  <2> QED
    BY <1>6, <1>7, <1>12, <2>1 DEF RemedyCommit
<1>13. ASSUME NEW w \in Workers, RefundComplete(w) \/ MarkPublished(w) PROVE BookingTells'
  BY <1>6, <1>13 DEF RefundComplete, MarkPublished
<1> HIDE DEF Funded
<1> QED
  BY <1>6, <1>8, <1>9, <1>10, <1>11, <1>12, <1>13
  DEF Next, Request, Proceed, Handle, vars, CheckoutPay, RetryPayment, InitiateRefused,
      InitiateAtGateway, InitiateInsert, CustomerDecides, Lapse, Callback, CallbackFailed,
      CallbackDuplicate, RefundOpen, RefundSend, DecideCancellation, ExecuteCancellation,
      RecordExecution, HandleExpired, HandleRefunded, RemedyBegin,
      Crash, paymentVars, Workers

---------------------------------------------------------------------------
(* Refunds.                                                                *)

\* What a step may do to the refunds: nothing, open one that fits into what was
\* captured, or complete one.
LEMMA RefundStep ==
  ASSUME CheckoutInv, [Next]_vars
  PROVE  \/ refunds' = refunds
         \/ \E w \in Workers, i \in RefundableIntents :
              /\ workers[w].pc = "refund" /\ refunds[workers[w].key].status = "none"
              /\ WithinCaptured(workers[w].key, i, workers[w].amount)
              /\ refunds' = [refunds EXCEPT ![workers[w].key] =
                               [status |-> "pending", amount |-> workers[w].amount]]
              /\ UNCHANGED <<order, decision>>
         \/ \E w \in Workers : /\ workers[w].pc = "complete"
                               /\ RefundCompleted(workers[w].key, workers[w].outcome)
                               /\ UNCHANGED <<order, decision>>
<1>1. ASSUME NEW w \in Workers, RefundOpen(w)
      PROVE  \/ refunds' = refunds
             \/ \E i \in RefundableIntents :
                  /\ workers[w].pc = "refund" /\ refunds[workers[w].key].status = "none"
                  /\ WithinCaptured(workers[w].key, i, workers[w].amount)
                  /\ refunds' = [refunds EXCEPT ![workers[w].key] =
                                   [status |-> "pending", amount |-> workers[w].amount]]
                  /\ UNCHANGED <<order, decision>>
  BY <1>1 DEF RefundOpen, outcomeVars
<1>2. ASSUME NEW w \in Workers, RefundComplete(w)
      PROVE  /\ workers[w].pc = "complete" /\ RefundCompleted(workers[w].key, workers[w].outcome)
             /\ UNCHANGED <<order, decision>>
  BY <1>2 DEF RefundComplete, outcomeVars
<1> QED
  BY <1>1, <1>2
  DEF Next, Request, Proceed, Handle, vars, CheckoutPay, RetryPayment, InitiateRefused,
      InitiateAtGateway, InitiateInsert, CustomerDecides, Lapse, Callback, CallbackFailed,
      CallbackCaptured, CallbackDuplicate, RefundSend, ConfirmWithoutCollection,
      ExpireBooking, CancelBooking, DecideCancellation, ExecuteCancellation,
      RecordExecution, HandleExpired, HandleRefunded, MarkPublished, RemedyBegin, RemedyCommit,
      Crash, paymentVars, Workers

\* What a step may do to the decision.
LEMMA DecisionStep ==
  ASSUME CheckoutInv, [Next]_vars
  PROVE  \/ decision' = decision
         \/ decision.status = "none" /\ decision' \in NewDecisions
         \/ \E w \in Workers : RecordExecution(w)
  BY DEF Next, Request, Proceed, Handle, vars, CheckoutPay, RetryPayment, InitiateRefused,
      InitiateAtGateway, InitiateInsert, CustomerDecides, Lapse, Callback, CallbackFailed,
      CallbackCaptured, CallbackDuplicate, RefundOpen, RefundSend, RefundComplete,
      ConfirmWithoutCollection, ExpireBooking, CancelBooking, DecideCancellation, Undecided,
      ExecuteCancellation, HandleExpired, HandleRefunded, MarkPublished, RemedyBegin,
      RemedyCommit, Crash, paymentVars, outcomeVars, Workers

\* Refund rows of the order, and its decision, promise no more than was collected.
LEMMA NextRefunds ==
  ASSUME CheckoutInv, [Next]_vars
  PROVE  RefundsPaid'
<1>0. /\ refunds \in [RefundKeys -> RefundRow] /\ order \in OrderRow /\ RefundsPaid /\ Advances
      /\ schedule \in Nat /\ OrderKeys \subseteq RefundKeys
      /\ CancellationKey \in OrderKeys /\ UnconfirmableKey \in OrderKeys
      /\ CancellationKey # UnconfirmableKey
  BY CheckoutAssumption, NextAdvances
  DEF CheckoutInv, TypeOK, PaymentTypeOK, RefundKeys, OrderKeys, CancellationKey, UnconfirmableKey
<1>1. Paid => Paid'
  BY <1>0, PaidStays
<1>2. order.collected <= order'.collected
  <2>1. order.collected \in {0, schedule} /\ order'.collected \in {0, schedule'} /\ schedule' = schedule
    BY <1>0, NextOrder DEF CheckoutInv, OrderTells, Advances
  <2>2. order.collected > 0 => order'.collected = order.collected
    BY <1>0, <2>1 DEF Paid, Advances
  <2> QED
    BY <1>0, <2>1, <2>2
<1>3. \A k \in OrderKeys : Committed(k) \in Nat /\ (Committed(k) > 0 => refunds[k].status # "none")
  BY <1>0 DEF Committed, RefundRow
<1>4. /\ \A k \in OrderKeys : refunds'[k].status # "none" => Paid'
      /\ OrderCommitted' <= order'.collected
  <2>1. CASE refunds' = refunds
    <3>1. OrderCommitted' = OrderCommitted /\ OrderCommitted \in Nat
      BY <1>0, <1>3, <2>1 DEF OrderCommitted, Committed
    <3>2. OrderCommitted <= order.collected /\ order.collected \in Nat /\ order'.collected \in Nat
      BY <1>0, NextTypes DEF RefundsPaid, OrderRow, TypeOK
    <3> QED
      BY <1>0, <1>1, <1>2, <2>1, <3>1, <3>2 DEF RefundsPaid
  <2>2. ASSUME NEW w \in Workers, NEW i \in RefundableIntents,
               workers[w].pc = "refund", refunds[workers[w].key].status = "none",
               WithinCaptured(workers[w].key, i, workers[w].amount),
               refunds' = [refunds EXCEPT ![workers[w].key] =
                             [status |-> "pending", amount |-> workers[w].amount]],
               UNCHANGED <<order, decision>>
        PROVE  /\ \A k \in OrderKeys : refunds'[k].status # "none" => Paid'
               /\ OrderCommitted' <= order'.collected
    <3> DEFINE q == workers[w]
    <3>1. q.key \in RefundKeys /\ q.amount \in Nat /\ (q.key \in OrderKeys => Paid)
      BY <2>2 DEF CheckoutInv, WorkersHold, WorkerHolds, TypeOK, Worker
    <3>2. CASE q.key \notin OrderKeys
      <4>1. \A k \in OrderKeys : refunds'[k] = refunds[k]
        BY <1>0, <2>2, <3>2
      <4>2. OrderCommitted' = OrderCommitted
        BY <1>0, <4>1 DEF OrderCommitted, Committed
      <4> QED
        BY <1>0, <1>1, <2>2, <4>1, <4>2 DEF RefundsPaid
    <3>3. CASE q.key \in OrderKeys
      <4>1. Paid /\ Paid'
        BY <1>1, <3>1, <3>3
      <4>2. intents[i].amount \in Nat /\ intents[i].amount <= schedule
        BY DEF RefundableIntents, CheckoutInv, IntentsPriced, TypeOK, PaymentTypeOK, IntentRow
      <4>3. q.amount <= intents[i].amount - OrderCommitted
        BY <2>2, <3>3 DEF WithinCaptured, Captured
      <4>4. /\ Committed(q.key) = 0
            /\ \A k \in OrderKeys : Committed(k)' = IF k = q.key THEN q.amount ELSE Committed(k)
        BY <1>0, <2>2, <3>1, <3>3 DEF Committed
      <4>5. OrderCommitted' = OrderCommitted + q.amount
        BY <1>0, <1>3, <3>1, <3>3, <4>4 DEF OrderCommitted, OrderKeys
      <4>6. OrderCommitted \in Nat
        BY <1>0, <1>3 DEF OrderCommitted
      <4> QED
        BY <1>0, <2>2, <3>1, <4>1, <4>2, <4>3, <4>5, <4>6 DEF Paid
    <3> QED
      BY <3>2, <3>3
  <2>3. ASSUME NEW w \in Workers, workers[w].pc = "complete",
               RefundCompleted(workers[w].key, workers[w].outcome), UNCHANGED <<order, decision>>
        PROVE  /\ \A k \in OrderKeys : refunds'[k].status # "none" => Paid'
               /\ OrderCommitted' <= order'.collected
    <3> DEFINE q == workers[w]
    <3>1. q.key \in RefundKeys /\ q.outcome \in {"succeeded", "failed", "manual_required"}
      BY <2>3 DEF CheckoutInv, WorkersHold, WorkerHolds
    <3>2. \A k \in RefundKeys : /\ refunds'[k].amount = refunds[k].amount
                                /\ refunds'[k].status = refunds[k].status \/
                                   (refunds[k].status = "pending" /\ refunds'[k].status = q.outcome)
      BY <1>0, <2>3, <3>1 DEF RefundCompleted, RefundRow
    <3>3. \A k \in OrderKeys : Committed(k)' <= Committed(k) /\ Committed(k)' \in Nat
      BY <1>0, <3>1, <3>2 DEF Committed, RefundRow
    <3>4. OrderCommitted' <= OrderCommitted /\ OrderCommitted' \in Nat /\ OrderCommitted \in Nat
      BY <1>0, <1>3, <3>3 DEF OrderCommitted
    <3>5. OrderCommitted <= order.collected /\ order.collected \in Nat
      BY <1>0 DEF RefundsPaid, OrderRow
    <3> QED
      BY <1>0, <1>1, <2>3, <3>2, <3>4, <3>5 DEF RefundsPaid
  <2> QED
    BY <2>1, <2>2, <2>3, RefundStep
<1>5. decision'.status \in {"pending", "manual_required", "failed"} => Paid'
  <2>1. CASE decision' = decision
    BY <1>0, <1>1, <2>1 DEF RefundsPaid
  <2>2. CASE decision.status = "none" /\ decision' \in NewDecisions
    <3>1. order.collected > 0 => Paid
      BY <1>0 DEF CheckoutInv, OrderTells, Paid
    <3>2. refunds[CancellationKey].status # "none" => Paid
      BY <1>0 DEF RefundsPaid
    <3> QED
      BY <1>1, <2>2, <3>1, <3>2, DecisionsTyped DEF CheckoutInv
  <2>3. ASSUME NEW w \in Workers, RecordExecution(w) PROVE Paid'
    BY <1>1, <2>3 DEF RecordExecution, CheckoutInv, WorkersHold, WorkerHolds, OrderKeys
  <2> QED
    BY <2>1, <2>2, <2>3, DecisionStep
<1> QED
  BY <1>4, <1>5 DEF RefundsPaid

\* A step gives a duplicate's key only to the callback that has just settled
\* the duplicate, which the order did not capture.
LEMMA NextDuplicates ==
  ASSUME CheckoutInv, [Next]_vars
  PROVE  DuplicatesApart'
<1>0. /\ refunds \in [RefundKeys -> RefundRow] /\ workers \in [Workers -> Worker]
      /\ order \in OrderRow /\ Advances /\ DuplicatesApart
  BY NextAdvances DEF CheckoutInv, TypeOK, PaymentTypeOK
<1>1. \A a \in Attempts : DuplicateKey(a) \in RefundKeys /\ DuplicateKey(a) # None
                          /\ DuplicateKey(a) \notin OrderKeys
  BY DEF RefundKeys, DuplicateKey, None, OrderKeys, CancellationKey, UnconfirmableKey
<1>2. ASSUME NEW a \in Attempts, attempts[a].status = "succeeded", order.capture # a
      PROVE  attempts'[a].status = "succeeded" /\ order'.capture # a
  <2>1. attempts'[a].status = "succeeded"
    BY <1>0, <1>2 DEF Advances
  <2>2. order'.capture = order.capture \/
        \E w \in Workers : Succeeds(w) /\ order'.capture = workers[w].attempt
    BY <1>0, OrderStep DEF Capture, OrderCancelled, RefundCounted, ConfirmWithoutCollection, OrderRow
  <2>3. ASSUME NEW w \in Workers, Succeeds(w) PROVE workers[w].attempt # a
    BY <1>2, <2>3 DEF Succeeds
  <2> QED
    BY <1>2, <2>1, <2>2, <2>3
<1>3. ASSUME NEW a \in Attempts, refunds'[DuplicateKey(a)].status # "none"
      PROVE  attempts[a].status = "succeeded" /\ order.capture # a
  <2>1. CASE refunds' = refunds
    BY <1>0, <1>3, <2>1 DEF DuplicatesApart
  <2>2. ASSUME NEW w \in Workers, workers[w].pc = "refund",
               refunds' = [refunds EXCEPT ![workers[w].key] =
                             [status |-> "pending", amount |-> workers[w].amount]]
        PROVE  attempts[a].status = "succeeded" /\ order.capture # a
    BY <1>0, <1>1, <1>3, <2>2 DEF DuplicatesApart
  <2>3. ASSUME NEW w \in Workers, RefundCompleted(workers[w].key, workers[w].outcome)
        PROVE  attempts[a].status = "succeeded" /\ order.capture # a
    <3>1. refunds[DuplicateKey(a)].status # "none"
      BY <1>0, <1>1, <1>3, <2>3 DEF RefundCompleted, RefundRow
    <3> QED
      BY <1>0, <3>1 DEF DuplicatesApart
  <2> QED
    BY <2>1, <2>2, <2>3, RefundStep
<1>4. ASSUME NEW a \in Attempts, NEW x \in Workers, workers'[x].key = DuplicateKey(a)
      PROVE  \/ workers[x].key = DuplicateKey(a)
             \/ CallbackDuplicate(x) /\ workers[x].attempt = a
  <2>1. CASE workers' = workers
    BY <1>4, <2>1
  <2>2. ASSUME NEW w \in Workers, NEW q, Becomes(w, q), q.key \in {workers[w].key, None} \cup OrderKeys
        PROVE  workers[x].key = DuplicateKey(a)
    BY <1>0, <1>1, <1>4, <2>2 DEF Becomes
  <2>3. ASSUME NEW w \in Workers, Done(w) PROVE workers[x].key = DuplicateKey(a)
    BY <2>2, <2>3 DEF Done, Idle
  <2>4. ASSUME NEW w \in Workers, CheckoutPay(w) \/ RetryPayment(w) \/ RemedyBegin(w)
        PROVE  workers[x].key = DuplicateKey(a)
    <3>1. /\ \A i : [Idle EXCEPT !.pc = "initiate", !.intent = i].key = None
          /\ [Idle EXCEPT !.pc = "remedy"].key = None
      BY DEF Idle
    <3> QED
      BY <2>2, <2>4, <3>1 DEF CheckoutPay, RetryPayment, RemedyBegin
  <2>5. ASSUME NEW w \in Workers, NEW b \in Attempts, Callback(w, b)
        PROVE  workers[x].key = DuplicateKey(a)
    <3>1. \A v : [Idle EXCEPT !.pc = "apply", !.attempt = b, !.verdict = v].key = None
      BY DEF Idle
    <3> QED
      BY <2>2, <2>5, <3>1 DEF Callback
  <2>6. ASSUME NEW w \in Workers, NEW e \in Events, Handle(w, e)
        PROVE  workers[x].key = DuplicateKey(a)
    <3>1. \A y : [Idle EXCEPT !.pc = "mark", !.event = y].key = None
      BY DEF Idle
    <3>2. \A y, z : [Idle EXCEPT !.pc = "execute", !.event = e, !.key = CancellationKey,
                                 !.amount = y, !.outcome = z].key \in OrderKeys
      BY DEF Idle, OrderKeys
    <3> QED
      BY <2>2, <2>6, <3>1, <3>2 DEF Handle, DecideCancellation, HandleExpired, HandleRefunded
  <2>7. ASSUME NEW w \in Workers, InitiateAtGateway(w) PROVE workers[x].key = DuplicateKey(a)
    <3>1. \A y : [workers[w] EXCEPT !.pc = "insert", !.attempt = y].key = workers[w].key
      BY <1>0 DEF Worker
    <3> QED
      BY <2>2, <2>3, <2>7, <3>1 DEF InitiateAtGateway
  <2>8. ASSUME NEW w \in Workers, RefundOpen(w) \/ RefundSend(w) \/ RefundComplete(w)
        PROVE  workers[x].key = DuplicateKey(a)
    <3>1. /\ \A y : [workers[w] EXCEPT !.pc = "send", !.attempt = y].key = workers[w].key
          /\ \A y : [workers[w] EXCEPT !.pc = "complete", !.outcome = y].key = workers[w].key
          /\ \A y : [workers[w] EXCEPT !.pc = "record", !.outcome = y].key = workers[w].key
      BY <1>0 DEF Worker
    <3>2. \A y : AfterRefund(workers[w], y).key \in {workers[w].key, None}
      BY <3>1 DEF AfterRefund, Idle
    <3> QED
      BY <2>2, <2>3, <2>8, <3>1, <3>2 DEF RefundOpen, RefundSend, RefundComplete
  <2>9. ASSUME NEW w \in Workers, ExecuteCancellation(w) \/ RecordExecution(w)
        PROVE  workers[x].key = DuplicateKey(a)
    <3>1. \A y : [workers[w] EXCEPT !.pc = y, !.outcome = "none"].key = workers[w].key
      BY <1>0 DEF Worker
    <3> QED
      BY <2>2, <2>9, <3>1 DEF ExecuteCancellation, RecordExecution
  <2>10. ASSUME NEW w \in Workers, NEW permitted \in BOOLEAN, CallbackCaptured(w, permitted)
         PROVE  workers[x].key = DuplicateKey(a)
    <3>1. \A k : [Idle EXCEPT !.pc = "refund", !.key = k, !.amount = schedule].key = k
      BY DEF Idle
    <3> QED
      BY <2>2, <2>3, <2>10, <3>1 DEF CallbackCaptured, Compensate, OrderKeys
  <2>11. ASSUME NEW w \in Workers, CallbackDuplicate(w)
         PROVE  workers[x].key = DuplicateKey(a) \/ (CallbackDuplicate(x) /\ workers[x].attempt = a)
    <3>1. /\ workers'[w].key = DuplicateKey(workers[w].attempt)
          /\ x # w => workers'[x] = workers[x]
      BY <1>0, <2>11 DEF CallbackDuplicate, Compensate, Becomes, Idle
    <3> QED
      BY <1>4, <2>11, <3>1 DEF DuplicateKey
  <2>12. ASSUME NEW w \in Workers,
                \/ InitiateRefused(w) \/ InitiateInsert(w) \/ CallbackFailed(w) \/ MarkPublished(w)
                \/ RemedyCommit(w) \/ Crash(w)
         PROVE  workers[x].key = DuplicateKey(a)
    BY <2>3, <2>12
    DEF InitiateRefused, InitiateInsert, CallbackFailed, MarkPublished, RemedyCommit, Crash
  <2> QED
    BY <2>1, <2>4, <2>5, <2>6, <2>7, <2>8, <2>9, <2>10, <2>11, <2>12
    DEF Next, Request, Proceed, Workers, vars, CustomerDecides, Lapse, ConfirmWithoutCollection,
        ExpireBooking, CancelBooking
<1>5. ASSUME NEW x \in Workers, CallbackDuplicate(x)
      PROVE  /\ attempts'[workers[x].attempt].status = "succeeded"
             /\ order'.capture # workers[x].attempt
  <2>1. workers[x].attempt \in Attempts /\ attempts[workers[x].attempt].status = "initiated"
    BY <1>5 DEF CallbackDuplicate, Succeeds, CheckoutInv, WorkersHold, WorkerHolds
  <2>2. attempts'[workers[x].attempt].status = "succeeded"
    BY <1>5, <2>1, VerdictRows DEF CallbackDuplicate, Succeeds
  <2>3. order.capture # workers[x].attempt
    <3>1. workers[x].attempt # 0
      BY <2>1, PaymentAssumption DEF Attempts
    <3> QED
      BY <2>1, <3>1 DEF CheckoutInv, OrderTells
  <2> QED
    BY <1>5, <2>2, <2>3 DEF CallbackDuplicate
<1> QED
  BY <1>0, <1>2, <1>3, <1>4, <1>5 DEF DuplicatesApart

---------------------------------------------------------------------------
(* Theorems.                                                               *)

\* The strengthened invariant holds in every reachable state.
THEOREM CheckoutInvariant == Spec => []CheckoutInv
<1>1. Init => CheckoutInv
  BY InitInv
<1>2. CheckoutInv /\ [Next]_vars => CheckoutInv'
  BY NextTypes, NextWorkers, NextReferences, NextPlaced, NextOrder, NextRefunds, NextDuplicates,
     NextBooking
  DEF CheckoutInv
<1> QED
  BY <1>1, <1>2, PTL DEF Spec

\* Rows of orders, payments, refunds and decisions, and what workers remember,
\* are always well-typed.
THEOREM MoneyTypes == Spec => []TypeOK
  BY CheckoutInvariant, PTL DEF CheckoutInv

\* assertWithinCaptured and the request keys keep refunds within what the order
\* collected, however the checkout compensation, the cancellation consumer,
\* duplicates and crashes interleave; the capture itself is never refunded as a
\* duplicate.
THEOREM RefundsWithinCapture == Spec => []NeverOverRefunded
<1>1. CheckoutInv => NeverOverRefunded
  <2> SUFFICES ASSUME CheckoutInv PROVE NeverOverRefunded
    OBVIOUS
  <2>1. OrderCommitted <= order.collected
    BY DEF CheckoutInv, RefundsPaid
  <2>2. ASSUME order.capture # 0 PROVE refunds[DuplicateKey(order.capture)].status = "none"
    <3>1. order.capture \in Attempts
      BY <2>2 DEF CheckoutInv, TypeOK, OrderRow
    <3> QED
      BY <3>1 DEF CheckoutInv, DuplicatesApart
  <2> QED
    BY <2>1, <2>2 DEF NeverOverRefunded
<1> QED
  BY <1>1, CheckoutInvariant, PTL

\* The compare-and-swaps of recordVerifiedCapture and orders.cancel keep an
\* order that has collected from ever being cancelled or pending.
THEOREM CollectedStays == Spec => []CollectedIsNotCancelled
<1>1. CheckoutInv => CollectedIsNotCancelled
  BY DEF CheckoutInv, OrderTells, CollectedIsNotCancelled
<1> QED
  BY <1>1, CheckoutInvariant, PTL

\* No interleaving of callbacks, expiry, cancellation and remedy leaves a
\* confirmed booking whose order did not collect what its schedule asks.
THEOREM ConfirmedHasMoney == Spec => []ConfirmedIsCollected
<1>1. CheckoutInv => ConfirmedIsCollected
  BY DEF CheckoutInv, BookingTells, ConfirmedIsCollected
<1> QED
  BY <1>1, CheckoutInvariant, PTL

\* completeRefund, recordExecution and the live decision are compare-and-swaps:
\* no step changes an amount, or a status that has left pending.
THEOREM OutcomesStay == Spec => OutcomesAreFinal
<1> DEFINE Final ==
      /\ \A k \in RefundKeys : refunds[k].status # "none" =>
           /\ refunds'[k].amount = refunds[k].amount
           /\ refunds[k].status # "pending" => refunds'[k].status = refunds[k].status
      /\ decision.status # "none" =>
           /\ decision'.refund = decision.refund /\ decision'.retained = decision.retained
           /\ decision.status # "pending" => decision'.status = decision.status
<1>1. ASSUME CheckoutInv, [Next]_vars PROVE Final
  <2>0. refunds \in [RefundKeys -> RefundRow] /\ decision \in DecisionRow
    BY <1>1 DEF CheckoutInv, TypeOK, PaymentTypeOK
  <2>1. \A k \in RefundKeys : refunds[k].status # "none" =>
           /\ refunds'[k].amount = refunds[k].amount
           /\ refunds[k].status # "pending" => refunds'[k].status = refunds[k].status
    <3>1. ASSUME NEW x \in RefundKeys, refunds[x].status = "none", NEW row,
                 refunds' = [refunds EXCEPT ![x] = row]
          PROVE  \A k \in RefundKeys : refunds[k].status # "none" => refunds'[k] = refunds[k]
      BY <2>0, <3>1
    <3>2. ASSUME NEW x, NEW outcome, RefundCompleted(x, outcome), NEW k \in RefundKeys
          PROVE  /\ refunds'[k].amount = refunds[k].amount
                 /\ refunds[k].status # "pending" => refunds'[k].status = refunds[k].status
      BY <2>0, <3>2 DEF RefundCompleted, RefundRow
    <3>3. \A w \in Workers : workers[w].pc = "refund" => workers[w].key \in RefundKeys
      BY <1>1 DEF CheckoutInv, WorkersHold, WorkerHolds
    <3> QED
      BY <1>1, <3>1, <3>2, <3>3, RefundStep
  <2>2. decision.status # "none" =>
           /\ decision'.refund = decision.refund /\ decision'.retained = decision.retained
           /\ decision.status # "pending" => decision'.status = decision.status
    BY <1>1, <2>0, DecisionStep DEF RecordExecution, DecisionRow
  <2> QED
    BY <2>1, <2>2
<1>2. CheckoutInv /\ [Next]_vars => [Final]_vars
  BY <1>1
<1> QED
  BY <1>2, CheckoutInvariant, PTL DEF Spec, OutcomesAreFinal
=============================================================================
