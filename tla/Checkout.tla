------------------------------ MODULE Checkout ------------------------------
(***************************************************************************)
(* The money of one booking, from checkout to the last refund: the order    *)
(* (commerce), its payments (Payment), the booking's own status as these    *)
(* services see it, the cancellation's outcome decision and the customer's  *)
(* remedy, composed as apps/api composes them.                              *)
(*                                                                         *)
(* A worker is an HTTP request or a relay drain.  Each of its steps is one  *)
(* transaction or one gateway call; between two steps anything may happen,  *)
(* and a worker may be cut off for good.  The first checkout transaction,   *)
(* which creates booking and order together, is the initial state.          *)
(***************************************************************************)
EXTENDS Payment, FiniteSetsExt

CONSTANTS
  Requests, Relays,  \* workers
  Total,             \* orders.total_toman
  Schedules,         \* order_payment_schedules.platform_collectible_toman
  Retentions,        \* what accepted terms, capped by law, may retain
  MaxCancels,        \* bound on cancellations of the booking
  MaxCrashes         \* bound on workers cut off

Workers == Requests \cup Relays

ASSUME CheckoutAssumption ==
  /\ Total \in Nat /\ Schedules \subseteq 0 .. Total /\ Retentions \subseteq Nat
  /\ MaxCancels \in Nat /\ MaxCrashes \in Nat /\ Requests \cap Relays = {}

VARIABLES
  schedule,   \* the collectible amount of this order's schedule, immutable
  order,      \* commerce.orders
  booking,    \* booking.bookings, as far as money is concerned
  decision,   \* the live cancellation row of commerce.booking_outcome_decisions
  remedy,     \* commerce.customer_remedy_choices
  mail,       \* unpublished outbox events
  workers,
  crashes

vars == <<intents, attempts, gateway, refunds, schedule, order, booking, decision,
          remedy, mail, workers, crashes>>
outcomeVars == <<decision, remedy>>

Cancelled(n) == <<"BookingCancelled", n>>
Expired == <<"BookingExpired", 0>>
\* A request key stands for the RefundCompleted event of its refund.
Events == {Cancelled(n) : n \in 1 .. MaxCancels} \cup {Expired} \cup OrderKeys
None == <<"none", 0>>

Idle == [pc |-> "idle", intent |-> 0, attempt |-> 0, verdict |-> "none", key |-> None,
         amount |-> 0, outcome |-> "none", event |-> None]

OrderRow == [status : {"pending", "paid", "online_collection_completed",
                       "online_collection_not_required", "cancelled",
                       "refunded", "partially_refunded"},
             collected : Nat, refunded : Nat, capture : Attempts \cup {0}]
BookingRow == [status : {"pending", "confirmed", "cancelled", "expired"},
               by : {"nobody", "customer", "professional"}, wasConfirmed : BOOLEAN,
               cancels : 0 .. MaxCancels]
DecisionRow == [status : {"none", "pending", "executed", "manual_required", "failed"},
                refund : Nat, retained : Nat]
Worker == [pc : {"idle", "initiate", "insert", "apply", "refund", "send", "complete",
                 "execute", "record", "mark", "remedy"},
           intent : Intents \cup {0}, attempt : Attempts \cup {0},
           verdict : {"none", "succeeded", "failed", "mismatch", "expired"},
           key : RefundKeys \cup {None}, amount : Nat,
           outcome : RefundStatus \cup {"executed"}, event : Events \cup {None}]

TypeOK ==
  /\ PaymentTypeOK
  /\ schedule \in Schedules
  /\ order \in OrderRow
  /\ booking \in BookingRow
  /\ decision \in DecisionRow
  /\ remedy \in {"none", "default", "reschedule"}
  /\ mail \subseteq Events
  /\ workers \in [Workers -> Worker]
  /\ crashes \in 0 .. MaxCrashes

Init ==
  /\ PaymentInit
  /\ schedule \in Schedules
  /\ order = [status |-> "pending", collected |-> 0, refunded |-> 0, capture |-> 0]
  /\ booking = [status |-> "pending", by |-> "nobody", wasConfirmed |-> FALSE, cancels |-> 0]
  /\ decision = [status |-> "none", refund |-> 0, retained |-> 0]
  /\ remedy = "none"
  /\ mail = {}
  /\ workers = [w \in Workers |-> Idle]
  /\ crashes = 0

Becomes(w, state) == workers' = [workers EXCEPT ![w] = state]
Done(w) == Becomes(w, Idle)

---------------------------------------------------------------------------
(* Starting a payment.                                                     *)

\* checkout, replayed or not: the booking and the order exist, the intent is
\* found or created.  Nothing looks at the order's status here.
CheckoutPay(w) ==
  /\ workers[w].pc = "idle"
  /\ schedule > 0
  /\ \E i \in Intents :
       /\ IntentForOrder(i, schedule)
       /\ Becomes(w, [Idle EXCEPT !.pc = "initiate", !.intent = i])
  /\ UNCHANGED <<attempts, gateway, refunds, schedule, order, booking, outcomeVars, mail, crashes>>

\* retryPayment: the newest intent failed in a way that a retry can fix, and
\* no gateway transaction is open.
RetryPayment(w) ==
  /\ workers[w].pc = "idle"
  /\ order.status = "pending"
  /\ \E i \in Intents :
       /\ LatestIntent(i) /\ Payable(i) /\ OpenAttempts(i) = {}
       /\ intents[i].failure = "retryable"
       /\ Becomes(w, [Idle EXCEPT !.pc = "initiate", !.intent = i])
  /\ UNCHANGED <<paymentVars, schedule, order, booking, outcomeVars, mail, crashes>>

\* initiate refuses a settled intent, and expires a lapsed one.
InitiateRefused(w) ==
  LET i == workers[w].intent IN
  /\ workers[w].pc = "initiate"
  /\ ~Payable(i)
  /\ ExpireOnRead(i)
  /\ Done(w)
  /\ UNCHANGED <<attempts, gateway, refunds, schedule, order, booking, outcomeVars, mail, crashes>>

\* A live attempt is reused; otherwise the gateway opens a new transaction.
InitiateAtGateway(w) ==
  LET i == workers[w].intent IN
  /\ workers[w].pc = "initiate"
  /\ Payable(i)
  /\ IF OpenAttempts(i) # {}
     THEN Done(w) /\ UNCHANGED gateway
     ELSE \E a \in Attempts :
            /\ NextReference(a)
            /\ gateway' = [gateway EXCEPT ![a].state = "pending"]
            /\ Becomes(w, [workers[w] EXCEPT !.pc = "insert", !.attempt = a])
  /\ UNCHANGED <<intents, attempts, refunds, schedule, order, booking, outcomeVars, mail, crashes>>

\* The attempt row, or the redirect of the attempt that won the race.
InitiateInsert(w) ==
  LET q == workers[w] IN
  /\ q.pc = "insert"
  /\ IF AttemptAdmitted(q.intent)
     THEN AttemptInserted(q.attempt, q.intent)
     ELSE UNCHANGED <<intents, attempts>>
  /\ Done(w)
  /\ UNCHANGED <<gateway, refunds, schedule, order, booking, outcomeVars, mail, crashes>>

\* The customer decides at the gateway's page, as long as it stays open.
CustomerDecides(a) ==
  /\ attempts[a].status # "none"
  /\ gateway[a].state = "pending"
  /\ \E s \in {"paid", "mispaid", "declined"} : gateway' = [gateway EXCEPT ![a].state = s]
  /\ UNCHANGED <<intents, attempts, refunds, schedule, order, booking, outcomeVars, mail, workers, crashes>>

\* expires_at passes.
Lapse(i) ==
  /\ intents[i].status # "none" /\ ~intents[i].lapsed
  /\ intents' = [intents EXCEPT ![i].lapsed = TRUE]
  /\ UNCHANGED <<attempts, gateway, refunds, schedule, order, booking, outcomeVars, mail, workers, crashes>>

---------------------------------------------------------------------------
(* The gateway callback.                                                   *)

\* prepareVerification.  An attempt that is settled, and a verdict of unknown,
\* write nothing: those callbacks leave no trace.
Callback(w, a) ==
  /\ workers[w].pc = "idle"
  /\ attempts[a].status = "initiated"
  /\ \E v \in Verdicts(a) \ {"unknown"} :
       Becomes(w, [Idle EXCEPT !.pc = "apply", !.attempt = a, !.verdict = v])
  /\ UNCHANGED <<paymentVars, schedule, order, booking, outcomeVars, mail, crashes>>

\* applyVerification loses the compare-and-swap, or records a failure.
CallbackFailed(w) ==
  LET q == workers[w] IN
  /\ q.pc = "apply"
  /\ \/ attempts[q.attempt].status # "initiated" /\ UNCHANGED <<intents, attempts>>
     \/ /\ attempts[q.attempt].status = "initiated"
        /\ q.verdict # "succeeded"
        /\ VerdictRecorded(q.attempt, q.verdict)
  /\ Done(w)
  /\ UNCHANGED <<gateway, refunds, schedule, order, booking, outcomeVars, mail, crashes>>

Succeeds(w) ==
  LET q == workers[w] IN
  /\ q.pc = "apply" /\ q.verdict = "succeeded"
  /\ attempts[q.attempt].status = "initiated"
  /\ VerdictRecorded(q.attempt, "succeeded")

Compensate(w, key) ==
  Becomes(w, [Idle EXCEPT !.pc = "refund", !.key = key, !.amount = schedule])

\* recordVerifiedCapture's compare-and-swap.
Capture(a) ==
  /\ order.status = "pending" /\ order.collected = 0
  /\ order' = [order EXCEPT !.collected = schedule, !.capture = a,
                 !.status = IF schedule = Total THEN "paid" ELSE "online_collection_completed"]

\* The payment is recorded, the order captured and the booking confirmed in
\* one transaction.  When the entitlement is refused or the booking is no
\* longer pending the capture stands, and a refund follows the commit.
CallbackCaptured(w, permitted) ==
  /\ Succeeds(w)
  /\ Capture(workers[w].attempt)
  /\ IF permitted /\ booking.status = "pending"
     THEN booking' = [booking EXCEPT !.status = "confirmed"] /\ Done(w)
     ELSE /\ UNCHANGED booking
          /\ Compensate(w, IF permitted /\ booking.status = "cancelled"
                           THEN CancellationKey ELSE UnconfirmableKey)
  /\ UNCHANGED <<gateway, refunds, schedule, outcomeVars, mail, crashes>>

\* Mutant: the second charge is absorbed as a replay.
CallbackAbsorbed(w) ==
  /\ Succeeds(w)
  /\ order.status # "pending"
  /\ Done(w)
  /\ UNCHANGED <<gateway, refunds, schedule, order, booking, outcomeVars, mail, crashes>>

\* The order no longer waits for money: this charge is given back.
CallbackDuplicate(w) ==
  /\ Succeeds(w)
  /\ order.status # "pending"
  /\ Compensate(w, DuplicateKey(workers[w].attempt))
  /\ UNCHANGED <<gateway, refunds, schedule, order, booking, outcomeVars, mail, crashes>>

\* Mutant: the order's schedule is not consulted.
ConfirmAnyCollection ==
  /\ order.status = "pending" /\ booking.status = "pending"
  /\ order' = [order EXCEPT !.status = "online_collection_not_required"]
  /\ booking' = [booking EXCEPT !.status = "confirmed"]
  /\ UNCHANGED <<paymentVars, schedule, outcomeVars, mail, workers, crashes>>

\* confirmWithoutOnlineCollection: order, entitlement and booking in one
\* transaction, or nothing.
ConfirmWithoutCollection ==
  /\ schedule = 0
  /\ order.status = "pending" /\ booking.status = "pending"
  /\ order' = [order EXCEPT !.status = "online_collection_not_required"]
  /\ booking' = [booking EXCEPT !.status = "confirmed"]
  /\ UNCHANGED <<paymentVars, schedule, outcomeVars, mail, workers, crashes>>

---------------------------------------------------------------------------
(* refund, in three phases.                                                *)

\* What the caller does with the refund row it gets back: a callback is
\* finished, the cancellation consumer records how its decision ended.
AfterRefund(q, status) ==
  IF q.event = None THEN Idle ELSE [q EXCEPT !.pc = "record", !.outcome = status]

\* The key's refund exists, or no intent of the order succeeded, or the money
\* is already committed (both throw), or a pending row is written.
RefundOpen(w) ==
  LET q == workers[w] IN
  /\ q.pc = "refund"
  /\ IF refunds[q.key].status # "none"
     THEN Becomes(w, AfterRefund(q, refunds[q.key].status)) /\ UNCHANGED refunds
     ELSE \/ /\ \A i \in RefundableIntents : ~WithinCaptured(q.key, i, q.amount)
             /\ Done(w) /\ UNCHANGED refunds
          \/ \E i \in RefundableIntents, a \in Attempts \cup {0} :
               /\ WithinCaptured(q.key, i, q.amount)
               /\ RefundAttempt(q.key, i, a)
               /\ refunds' = [refunds EXCEPT ![q.key] =
                                [status |-> "pending", amount |-> q.amount]]
               /\ Becomes(w, [q EXCEPT !.pc = "send", !.attempt = a])
  /\ UNCHANGED <<intents, attempts, gateway, schedule, order, booking, outcomeVars, mail, crashes>>

RefundSend(w) ==
  LET q == workers[w] IN
  /\ q.pc = "send"
  /\ \E outcome \in GatewayAnswers(q.attempt) :
       /\ GatewayRefunded(q.attempt, outcome)
       /\ Becomes(w, [q EXCEPT !.pc = "complete", !.outcome = outcome])
  /\ UNCHANGED <<intents, attempts, refunds, schedule, order, booking, outcomeVars, mail, crashes>>

RefundComplete(w) ==
  LET q == workers[w] IN
  /\ q.pc = "complete"
  /\ RefundCompleted(q.key, q.outcome)
  /\ mail' = IF q.outcome = "succeeded" /\ q.key \in OrderKeys THEN mail \cup {q.key} ELSE mail
  /\ Becomes(w, AfterRefund(q, q.outcome))
  /\ UNCHANGED <<intents, attempts, gateway, schedule, order, booking, outcomeVars, crashes>>

---------------------------------------------------------------------------
(* What happens to the booking.                                            *)

ExpireBooking ==
  /\ booking.status = "pending"
  /\ booking' = [booking EXCEPT !.status = "expired"]
  /\ mail' = mail \cup {Expired}
  /\ UNCHANGED <<paymentVars, schedule, order, outcomeVars, workers, crashes>>

CancelBooking(actor) ==
  /\ booking.status \in {"pending", "confirmed"}
  /\ booking.cancels < MaxCancels
  /\ booking' = [status |-> "cancelled", by |-> actor,
                 wasConfirmed |-> booking.status = "confirmed",
                 cancels |-> booking.cancels + 1]
  /\ mail' = mail \cup {Cancelled(booking.cancels + 1)}
  /\ UNCHANGED <<paymentVars, schedule, order, outcomeVars, workers, crashes>>

---------------------------------------------------------------------------
(* Consumers of the outbox.                                                *)

\* Mutant: the refund's status is stored as it is.
ExecutionStatusRaw(status) == status

ExecutionStatusOf(status) == IF status = "succeeded" THEN "executed" ELSE status

\* What is left of the collected money once refunds under other keys are out.
CollectedRemaining ==
  LET committed == Max({order.refunded, Committed(UnconfirmableKey)}) IN
  Max({0, order.collected - committed})

\* The decisions evaluateBookingOutcome may reach: retention only for a
\* customer's cancellation of a confirmed booking, a full refund otherwise.
\* A refund that the key already has is adopted.
NewDecisions ==
  LET adopted == refunds[CancellationKey]
      remaining == CollectedRemaining
      retentions == IF booking.by = "customer" /\ booking.wasConfirmed
                    THEN {0} \cup {Min({r, remaining}) : r \in Retentions} ELSE {0}
  IN
  IF adopted.status # "none"
  THEN {[status |-> ExecutionStatusOf(adopted.status), refund |-> adopted.amount, retained |-> 0]}
  ELSE {[status |-> IF remaining > r THEN "pending" ELSE "executed",
         refund |-> remaining - r, retained |-> r] : r \in retentions}

\* Mutant: the order is cancelled whatever it has collected.
OrderCancelledBlindly == [order EXCEPT !.status = "cancelled"]

\* orders.cancel: never an order that has collected.
OrderCancelled ==
  IF order.status \in {"pending", "online_collection_not_required"}
  THEN [order EXCEPT !.status = "cancelled"] ELSE order

\* Mutant: every delivery decides anew.
UndecidedAlways == TRUE

\* liveDecision finds no decision.
Undecided == decision.status = "none"

\* decideCancellation, under the order's lock: the live decision, or a new one.
DecideCancellation(w, e) ==
  /\ workers[w].pc = "idle"
  /\ e \in mail /\ \E n \in 1 .. MaxCancels : e = Cancelled(n)
  /\ IF Undecided
     THEN /\ decision' \in NewDecisions
          /\ order' = OrderCancelled
          /\ remedy' = IF booking.by = "professional" /\ remedy = "none" THEN "default" ELSE remedy
     ELSE UNCHANGED <<decision, order, remedy>>
  /\ Becomes(w, [Idle EXCEPT !.pc = "execute", !.event = e, !.key = CancellationKey,
                             !.amount = decision'.refund, !.outcome = decision'.status])
  /\ UNCHANGED <<paymentVars, schedule, booking, mail, crashes>>

\* Mutant: a remedy that was only offered counts as taken.
RefundDueUnlessOffered(q) == remedy = "none" /\ q.outcome = "pending" /\ q.amount > 0

\* A pending decision with money to refund, unless the customer has taken the
\* reschedule; the remedy is read without a lock.
RefundDue(q) == remedy # "reschedule" /\ q.outcome = "pending" /\ q.amount > 0

ExecuteCancellation(w) ==
  LET q == workers[w] IN
  /\ q.pc = "execute"
  /\ Becomes(w, [q EXCEPT !.pc = IF RefundDue(q) THEN "refund" ELSE "mark", !.outcome = "none"])
  /\ UNCHANGED <<paymentVars, schedule, order, booking, outcomeVars, mail, crashes>>

\* recordExecution: compare-and-swap from pending.
RecordExecution(w) ==
  LET q == workers[w] IN
  /\ q.pc = "record"
  /\ decision' = [decision EXCEPT !.status =
       IF @ = "pending" THEN ExecutionStatusOf(q.outcome) ELSE @]
  /\ Becomes(w, [q EXCEPT !.pc = "mark", !.outcome = "none"])
  /\ UNCHANGED <<paymentVars, schedule, order, booking, remedy, mail, crashes>>

HandleExpired(w) ==
  /\ workers[w].pc = "idle"
  /\ Expired \in mail
  /\ order' = OrderCancelled
  /\ Becomes(w, [Idle EXCEPT !.pc = "mark", !.event = Expired])
  /\ UNCHANGED <<paymentVars, schedule, booking, outcomeVars, mail, crashes>>

\* recordRefund, behind the handler's own guard; a refund that does not fit
\* throws, and the event stays.
RefundCounted(amount) ==
  IF order.refunded >= order.collected
     \/ order.status \notin {"paid", "partially_refunded", "online_collection_completed"}
  THEN order
  ELSE [order EXCEPT !.refunded = @ + amount,
          !.status = IF order.refunded + amount >= order.collected
                     THEN "refunded" ELSE "partially_refunded"]

HandleRefunded(w, k) ==
  /\ workers[w].pc = "idle"
  /\ k \in mail \cap OrderKeys
  /\ order.refunded >= order.collected \/ order.refunded + refunds[k].amount <= order.collected
  /\ order' = RefundCounted(refunds[k].amount)
  /\ Becomes(w, [Idle EXCEPT !.pc = "mark", !.event = k])
  /\ UNCHANGED <<paymentVars, schedule, booking, outcomeVars, mail, crashes>>

\* The relay marks the row published once its handlers have returned.
MarkPublished(w) ==
  /\ workers[w].pc = "mark"
  /\ mail' = mail \ {workers[w].event}
  /\ Done(w)
  /\ UNCHANGED <<paymentVars, schedule, order, booking, outcomeVars, crashes>>

---------------------------------------------------------------------------
(* The customer's remedy after a cancellation that was not theirs.         *)

\* The choice row is locked; the decision is only read.
RemedyBegin(w) ==
  /\ workers[w].pc = "idle"
  /\ remedy = "default"
  /\ decision.status \in {"pending", "manual_required"}
  /\ \A v \in Workers : workers[v].pc # "remedy"
  /\ Becomes(w, [Idle EXCEPT !.pc = "remedy"])
  /\ UNCHANGED <<paymentVars, schedule, order, booking, outcomeVars, mail, crashes>>

\* The free reschedule revives the booking, or finds no slot and changes nothing.
RemedyCommit(w) ==
  /\ workers[w].pc = "remedy"
  /\ \/ /\ booking.status = "cancelled"
        /\ booking' = [booking EXCEPT !.status = "confirmed"]
        /\ remedy' = "reschedule"
     \/ UNCHANGED <<booking, remedy>>
  /\ Done(w)
  /\ UNCHANGED <<paymentVars, schedule, order, decision, mail, crashes>>

\* A process dies, or a call of the worker throws.
Crash(w) ==
  /\ workers[w].pc # "idle"
  /\ crashes < MaxCrashes
  /\ crashes' = crashes + 1
  /\ Done(w)
  /\ UNCHANGED <<paymentVars, schedule, order, booking, outcomeVars, mail>>

---------------------------------------------------------------------------

Request(w) ==
  \/ CheckoutPay(w)
  \/ RetryPayment(w)
  \/ \E a \in Attempts : Callback(w, a)
  \/ RemedyBegin(w)

Handle(w, e) == DecideCancellation(w, e) \/ (e = Expired /\ HandleExpired(w)) \/ HandleRefunded(w, e)

Proceed(w) ==
  \/ InitiateRefused(w)
  \/ InitiateAtGateway(w)
  \/ InitiateInsert(w)
  \/ CallbackFailed(w)
  \/ \E permitted \in BOOLEAN : CallbackCaptured(w, permitted)
  \/ CallbackDuplicate(w)
  \/ RefundOpen(w)
  \/ RefundSend(w)
  \/ RefundComplete(w)
  \/ ExecuteCancellation(w)
  \/ RecordExecution(w)
  \/ MarkPublished(w)
  \/ RemedyCommit(w)

Next ==
  \/ \E w \in Requests : Request(w)
  \/ \E w \in Relays, e \in Events : Handle(w, e)
  \/ \E w \in Workers : Proceed(w)
  \/ \E w \in Workers : Crash(w)
  \/ \E a \in Attempts : CustomerDecides(a)
  \/ \E i \in Intents : Lapse(i)
  \/ ConfirmWithoutCollection
  \/ ExpireBooking
  \/ \E actor \in {"customer", "professional"} : CancelBooking(actor)

Spec == Init /\ [][Next]_vars

\* Calls that are made return, and the relay comes back to every event it
\* has left; nobody is obliged to pay, cancel or retry.
Fairness ==
  /\ \A w \in Workers : WF_vars(Proceed(w))
  /\ \A w \in Relays, e \in Events : SF_vars(Handle(w, e))
FairSpec == Spec /\ Fairness

---------------------------------------------------------------------------
(* Properties.                                                             *)

\* Refunds of the order that have not failed never exceed what the order
\* collected, whichever of the checkout compensation and the cancellation
\* consumer runs first, and the order's own capture is never given back as a
\* duplicate charge.
NeverOverRefunded ==
  /\ OrderCommitted <= order.collected
  /\ order.capture # 0 => refunds[DuplicateKey(order.capture)].status = "none"

\* An order that has collected money is never cancelled, although the capture
\* races the consumers of BookingCancelled and BookingExpired.
CollectedIsNotCancelled ==
  order.collected > 0 => order.status \notin {"pending", "cancelled"}

\* A confirmed booking is one whose order collected what its schedule asks.
ConfirmedIsCollected ==
  booking.status = "confirmed" => order.collected = schedule /\ order.status \notin {"pending", "cancelled"}

Quiet == mail = {} /\ \A w \in Workers : workers[w].pc = "idle"
Unbooked == booking.status = "expired" \/ (booking.status = "cancelled" /\ remedy # "reschedule")
Answered ==
  \/ \E k \in OrderKeys : refunds[k].status # "none"
  \/ decision.retained > 0
  \/ order.capture # 0 /\ intents[attempts[order.capture].intent].status # "succeeded"

\* Unless a worker was cut off, every charge that the order did not capture
\* has its refund once things are quiet, and so has the capture of a booking
\* that came to nothing, except for what accepted terms retain.
ChargesAreAnswered ==
  (Quiet /\ crashes = 0) =>
    /\ \A a \in Attempts : (attempts[a].status = "succeeded" /\ a # order.capture) =>
         refunds[DuplicateKey(a)].status # "none" \/ intents[attempts[a].intent].status # "succeeded"
    /\ (order.collected > 0 /\ Unbooked) => Answered

\* The money of a confirmed booking that is cancelled is answered for, even if
\* the relay dies between the decision and the refund: the event stays until
\* it is handled.  The customer may take the remedy first.
CancelledMoneyReturns ==
  (order.collected > 0 /\ booking.status = "cancelled" /\ booking.wasConfirmed)
    ~> (Answered \/ booking.status # "cancelled")

\* A refund's outcome, and the decision taken for a cancellation, are final:
\* amounts never change, and a status only leaves pending.
OutcomesAreFinal ==
  [][/\ \A k \in RefundKeys : refunds[k].status # "none" =>
          /\ refunds'[k].amount = refunds[k].amount
          /\ refunds[k].status # "pending" => refunds'[k].status = refunds[k].status
     /\ decision.status # "none" =>
          /\ decision'.refund = decision.refund /\ decision'.retained = decision.retained
          /\ decision.status # "pending" => decision'.status = decision.status]_vars

---------------------------------------------------------------------------
(* What the comments of the code say, refuted by the runs named after them. *)

\* "Idempotent: recordRefund compare-and-swaps ... so a redelivery affects zero
\* rows": the order never counts more than what was refunded.
RefundCountedOnce ==
  order.refunded <=
    MapThenSumSet(LAMBDA k : refunds[k].amount, {k \in OrderKeys : refunds[k].status = "succeeded"})

\* "the refund is a consequence of the cancellation event itself, so no
\* cancellation path can be added later that forgets it".
CancellationIsAnswered ==
  (Quiet /\ crashes = 0 /\ booking.status = "cancelled" /\ order.collected > 0) => Answered
============================================================================
