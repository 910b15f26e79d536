------------------------------ MODULE Payment ------------------------------
(***************************************************************************)
(* payment-service for the payments of one order: intents, gateway          *)
(* attempts and refunds, and the gateway they are settled at.  The          *)
(* operations are written as the database transactions and gateway calls    *)
(* they consist of; Checkout interleaves them.                              *)
(*                                                                         *)
(* An intent's expires_at is abstracted to the flag `lapsed`, which time    *)
(* sets once.  A failure code is abstracted to whether a retry may follow.  *)
(* An attempt and its gateway reference carry the same number.              *)
(***************************************************************************)
EXTENDS Integers

CONSTANTS
  NIntents,    \* bound on payment_intents rows
  NAttempts    \* bound on gateway references

Intents == 1 .. NIntents
Attempts == 1 .. NAttempts

ASSUME PaymentAssumption == NIntents \in Nat /\ NAttempts \in Nat

VARIABLES
  intents,     \* payment.payment_intents
  attempts,    \* payment.payment_attempts
  gateway,     \* the gateway's own books
  refunds      \* payment.refunds, by request key

paymentVars == <<intents, attempts, gateway, refunds>>

\* Request keys: one per cause, and one per duplicate attempt.
CancellationKey == <<"booking-cancelled", 0>>
UnconfirmableKey == <<"booking-unconfirmable", 0>>
DuplicateKey(a) == <<"duplicate-charge", a>>
OrderKeys == {CancellationKey, UnconfirmableKey}
RefundKeys == OrderKeys \cup {DuplicateKey(a) : a \in Attempts}

IntentRow == [status : {"none", "created", "pending", "succeeded", "failed", "expired"},
              lapsed : BOOLEAN, failure : {"none", "retryable", "final"}, amount : Nat]
AttemptRow == [status : {"none", "initiated", "succeeded", "failed"}, intent : Intents \cup {0}]
GatewayRow == [state : {"none", "pending", "paid", "mispaid", "declined"}, refunded : BOOLEAN]
RefundStatus == {"none", "pending", "succeeded", "failed", "manual_required"}
RefundRow == [status : RefundStatus, amount : Nat]

PaymentTypeOK ==
  /\ intents \in [Intents -> IntentRow]
  /\ attempts \in [Attempts -> AttemptRow]
  /\ gateway \in [Attempts -> GatewayRow]
  /\ refunds \in [RefundKeys -> RefundRow]

PaymentInit ==
  /\ intents = [i \in Intents |->
       [status |-> "none", lapsed |-> FALSE, failure |-> "none", amount |-> 0]]
  /\ attempts = [a \in Attempts |-> [status |-> "none", intent |-> 0]]
  /\ gateway = [a \in Attempts |-> [state |-> "none", refunded |-> FALSE]]
  /\ refunds = [k \in RefundKeys |-> [status |-> "none", amount |-> 0]]

---------------------------------------------------------------------------
(* Intents and attempts.                                                   *)

LiveIntents == {i \in Intents : intents[i].status \in {"created", "pending", "succeeded"}}
OpenAttempts(i) == {a \in Attempts : attempts[a].status = "initiated" /\ attempts[a].intent = i}
LatestIntent(i) ==
  intents[i].status # "none" /\ \A j \in Intents : j > i => intents[j].status = "none"

\* createIntentForOrder: the live intent, or a new one when there is none
\* (uq_payment_intents_live_order turns a lost race into the winner's intent).
IntentForOrder(i, amount) ==
  \/ i \in LiveIntents /\ UNCHANGED intents
  \/ /\ LiveIntents = {}
     /\ intents[i].status = "none" /\ \A j \in Intents : j < i => intents[j].status # "none"
     /\ intents' = [intents EXCEPT ![i] =
          [status |-> "created", lapsed |-> FALSE, failure |-> "none", amount |-> amount]]

\* initiate, first half: the intent as it is read.
Payable(i) == intents[i].status \in {"created", "pending", "failed"} /\ ~intents[i].lapsed
ExpireOnRead(i) ==
  intents' = [intents EXCEPT ![i].status =
    IF intents[i].lapsed /\ @ \in {"created", "pending", "failed"} THEN "expired" ELSE @]

\* provider.initiate hands out the next reference.
NextReference(a) ==
  gateway[a].state = "none" /\ \A b \in Attempts : b < a => gateway[b].state # "none"

\* The indexes that the insert of an attempt, and the intent's move to
\* pending, must satisfy.
AttemptAdmitted(i) ==
  /\ OpenAttempts(i) = {}
  /\ intents[i].status = "failed" => LiveIntents = {}

AttemptInserted(a, i) ==
  /\ attempts' = [attempts EXCEPT ![a] = [status |-> "initiated", intent |-> i]]
  /\ intents' = [intents EXCEPT ![i].status = IF @ \in {"created", "failed"} THEN "pending" ELSE @]

---------------------------------------------------------------------------
(* Verification.                                                           *)

\* prepareVerification: what it may hand to applyVerification.  A lapsed
\* intent is answered without asking the gateway; a timeout or a transport
\* error is unknown; the sandbox gateway calls a pending transaction failed.
Verdicts(a) ==
  LET i == attempts[a].intent IN
  IF intents[i].lapsed /\ intents[i].status # "succeeded" THEN {"expired"}
  ELSE {"unknown", CASE gateway[a].state = "paid"    -> "succeeded"
                     [] gateway[a].state = "mispaid" -> "mismatch"
                     [] OTHER                        -> "failed"}

\* applyVerification, for an attempt that is still initiated and a verdict
\* other than unknown.
VerdictRecorded(a, verdict) ==
  LET i == attempts[a].intent
      won == verdict = "succeeded"
      row == [intents[i] EXCEPT
                !.status = IF won THEN "succeeded" ELSE "failed",
                !.failure = IF won THEN "none"
                            ELSE IF verdict = "failed" THEN "retryable" ELSE "final"]
  IN
  /\ attempts' = [attempts EXCEPT ![a].status = IF won THEN "succeeded" ELSE "failed"]
  /\ intents' = IF intents[i].status \in {"created", "pending"}
                THEN [intents EXCEPT ![i] = row] ELSE intents

---------------------------------------------------------------------------
(* Refunds.                                                                *)

RefundableIntents == {i \in Intents : intents[i].status = "succeeded"}
SucceededAttempts(i) == {a \in Attempts : attempts[a].status = "succeeded" /\ attempts[a].intent = i}

\* The attempt a refund is sent for: the named duplicate, or the newest
\* succeeded attempt of the intent (0: none).
RefundAttempt(k, i, a) ==
  IF k \in OrderKeys
  THEN a \in {0} \cup SucceededAttempts(i) /\ \A b \in SucceededAttempts(i) : b <= a
  ELSE a = k[2]

\* What a refund that has not failed takes from the captured amount.
Committed(k) ==
  IF refunds[k].status \in {"pending", "succeeded", "manual_required"} THEN refunds[k].amount ELSE 0
OrderCommitted == Committed(CancellationKey) + Committed(UnconfirmableKey)

Captured(k, i) ==
  IF k \in OrderKeys THEN intents[i].amount
  ELSE IF attempts[k[2]].status = "succeeded" THEN intents[attempts[k[2]].intent].amount ELSE 0

\* Mutant: only refunds that have completed are counted.
WithinCompleted(k, i, amount) ==
  LET completed(x) == IF refunds[x].status = "succeeded" THEN refunds[x].amount ELSE 0 IN
  amount <= Captured(k, i) - completed(CancellationKey) - completed(UnconfirmableKey)

\* assertWithinCaptured, under the lock on the intent.
WithinCaptured(k, i, amount) ==
  amount <= Captured(k, i) - (IF k \in OrderKeys THEN OrderCommitted ELSE Committed(k))

\* provider.refund.  The sandbox refunds a paid reference once and answers
\* success when asked again; a gateway without a refund interface leaves the
\* refund to be made by hand, and any gateway may refuse.
GatewayAnswers(a) ==
  IF a = 0 \/ gateway[a].state # "paid" THEN {"failed", "manual_required"}
  ELSE {"succeeded", "failed", "manual_required"}
GatewayRefunded(a, outcome) ==
  gateway' = IF outcome = "succeeded" THEN [gateway EXCEPT ![a].refunded = TRUE] ELSE gateway

\* completeRefund: compare-and-swap from pending.
RefundCompleted(k, outcome) ==
  refunds' = [refunds EXCEPT ![k].status = IF @ = "pending" THEN outcome ELSE @]
============================================================================
