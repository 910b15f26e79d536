------------------------------ MODULE Credits ------------------------------
(***************************************************************************)
(* services/commercial-policy: seller subscriptions, the booking credits    *)
(* they grant, the confirmation gate that consumes a credit, and the        *)
(* rollout of its enforcement (governance rows, activation, kill switch).   *)
(*                                                                         *)
(* A confirmation is one database transaction in three actions: it reads    *)
(* the control row FOR SHARE, it decides and spends under the party's       *)
(* advisory lock, and it commits or rolls back.  The bulk governance        *)
(* commands and the creation of a party read first and write at commit,     *)
(* holding the shared coordination lock in between.                         *)
(***************************************************************************)
EXTENDS Integers, FiniteSets, Sequences

CONSTANTS
  Sellers,            \* professionals and businesses
  Bookings, SellerOf, \* bookings with an order, and the party that sells each
  Founders,           \* sellers that exist before the rollout starts
  PlusPlan, BasePlan, \* included credits of the selectable and the base plan
  MaxGrants           \* bound on subscriptions activated for one seller

ASSUME CreditsAssumption ==
  /\ SellerOf \in [Bookings -> Sellers] /\ Founders \subseteq Sellers
  /\ {PlusPlan, BasePlan} \subseteq Nat /\ MaxGrants \in Nat

VARIABLES
  control,      \* booking_credit_enforcement_control, the singleton row
  governance,   \* booking_credit_party_governance
  eligible,     \* parties whose creation has committed
  plan,         \* plan of the active subscription
  creditGrants, \* booking_credit_grants of each party, oldest first
  consumption,  \* booking_credit_consumptions: the grant a booking spent, or 0
  returned,     \* bookings whose consumption has a booking_credit_returns row
  creditBooking,\* status of each booking
  confirming,   \* the open confirmation transaction of each booking
  cancelling,   \* the open cancellation of each booking, and what it read
  commands,     \* the open bulk governance commands and their candidates
  creating      \* what the open creation of each party read of the rollout

creditVars == <<control, governance, eligible, plan, creditGrants, consumption, returned,
                creditBooking, confirming, cancelling, commands, creating>>

GovernanceRow == {"none", "governed", "legacy_exempt"}
ControlRow == [rollout : {"inactive", "active"}, killed : BOOLEAN]
SubscriptionRow == {"none", "base", "plus"}
Verdicts == {"none", "legacy", "exempt", "governed"}

CreditsTypeOK ==
  /\ control \in ControlRow
  /\ governance \in [Sellers -> GovernanceRow]
  /\ eligible \subseteq Sellers
  /\ plan \in [Sellers -> SubscriptionRow]
  /\ creditGrants \in [Sellers -> Seq({PlusPlan, BasePlan})]
  /\ \A p \in Sellers : Len(creditGrants[p]) <= MaxGrants
  /\ consumption \in [Bookings -> 0 .. MaxGrants]
  /\ returned \subseteq Bookings
  /\ creditBooking \in [Bookings -> {"pending", "confirmed", "cancelled"}]
  /\ confirming \in [Bookings -> [step : {"no", "shared", "spent"}, verdict : Verdicts,
                                  grant : 0 .. MaxGrants]]
  /\ cancelling \in [Bookings -> {"no", "saw_pending", "saw_confirmed"}]
  /\ commands \in [{"govern", "exempt"} -> [open : BOOLEAN, parties : SUBSET Sellers]]
  /\ creating \in [Sellers -> {"no", "inactive", "active"}]

CreditsInit ==
  /\ control = [rollout |-> "inactive", killed |-> FALSE]
  /\ governance = [p \in Sellers |-> "none"]
  /\ eligible = Founders
  /\ plan = [p \in Sellers |-> "none"]
  /\ creditGrants = [p \in Sellers |-> <<>>]
  /\ consumption = [b \in Bookings |-> 0]
  /\ returned = {}
  /\ creditBooking = [b \in Bookings |-> "pending"]
  /\ confirming = [b \in Bookings |-> [step |-> "no", verdict |-> "none", grant |-> 0]]
  /\ cancelling = [b \in Bookings |-> "no"]
  /\ commands = [k \in {"govern", "exempt"} |-> [open |-> FALSE, parties |-> {}]]
  /\ creating = [p \in Sellers |-> "no"]

---------------------------------------------------------------------------
(* Subscriptions.  Each change is one transaction whose compare-and-swap    *)
(* on the active row makes the loser of a race roll back.                   *)

IssueForActivation(p, credits) ==
  /\ Len(creditGrants[p] \o credits) <= MaxGrants
  /\ creditGrants' = [creditGrants EXCEPT ![p] = @ \o credits]

EnsureBaseSubscription(p) ==
  /\ p \in eligible /\ plan[p] = "none"
  /\ plan' = [plan EXCEPT ![p] = "base"]
  /\ IssueForActivation(p, <<BasePlan>>)
  /\ UNCHANGED <<control, governance, eligible, consumption, returned, creditBooking,
                 confirming, cancelling, commands, creating>>

\* Another plan than the current one; without a subscription the base plan is
\* assigned first, in the same transaction.
ApplyPlanSelection(p) ==
  /\ p \in eligible /\ plan[p] # "plus"
  /\ plan' = [plan EXCEPT ![p] = "plus"]
  /\ IssueForActivation(p, IF plan[p] = "none" THEN <<BasePlan, PlusPlan>> ELSE <<PlusPlan>>)
  /\ UNCHANGED <<control, governance, eligible, consumption, returned, creditBooking,
                 confirming, cancelling, commands, creating>>

\* The base plan is restored, with a subscription and a grant of its own.
ApplyCancellation(p) ==
  /\ plan[p] = "plus"
  /\ plan' = [plan EXCEPT ![p] = "base"]
  /\ IssueForActivation(p, <<BasePlan>>)
  /\ UNCHANGED <<control, governance, eligible, consumption, returned, creditBooking,
                 confirming, cancelling, commands, creating>>

---------------------------------------------------------------------------
(* Confirmation.                                                           *)

BookingsOf(p) == {b \in Bookings : SellerOf[b] = p}

\* readForConfirmation FOR SHARE, and decideBeforeLedger.
BeginConfirm(b) ==
  /\ creditBooking[b] = "pending" /\ confirming[b].step = "no"
  /\ ~control.killed
  /\ confirming' = [confirming EXCEPT ![b].step = "shared"]
  /\ UNCHANGED <<control, governance, eligible, plan, creditGrants, consumption, returned,
                 creditBooking, cancelling, commands, creating>>

\* The party's advisory lock is free: it is held to the end of the transaction.
PartyLockFree(p) == \A b \in BookingsOf(p) : confirming[b].step # "spent"

\* decideGovernance, for a rollout that cannot change under the share lock.
Verdict(p) ==
  IF control.rollout = "inactive" THEN "legacy"
  ELSE IF governance[p] = "legacy_exempt" THEN "exempt"
  ELSE governance[p]

\* activeConsumptionCountByGrant, over committed rows.
SpentOf(p, g) ==
  Cardinality({b \in BookingsOf(p) : consumption[b] = g /\ b \notin returned})

PositiveGrants(p) == {g \in DOMAIN creditGrants[p] : creditGrants[p][g] > 0}
Spendable(p) == {g \in PositiveGrants(p) : SpentOf(p, g) < creditGrants[p][g]}

\* decideGovernedLedger: not_configured is refused to a governed party.
PermitsWithoutGrant(verdict) == verdict # "governed"

\* consumeForConfirmation: the oldest grant with room, once per booking.
Consume(b) ==
  LET p == SellerOf[b]
      verdict == Verdict(p)
      spent(g) == [step |-> "spent", verdict |-> verdict, grant |-> g]
  IN
  /\ confirming[b].step = "shared" /\ PartyLockFree(p)
  /\ verdict # "none"
  /\ \/ /\ Spendable(p) # {}
        /\ confirming' = [confirming EXCEPT ![b] =
             spent(CHOOSE g \in Spendable(p) : \A h \in Spendable(p) : g <= h)]
     \/ /\ PositiveGrants(p) = {} /\ PermitsWithoutGrant(verdict)
        /\ confirming' = [confirming EXCEPT ![b] = spent(0)]
  /\ UNCHANGED <<control, governance, eligible, plan, creditGrants, consumption, returned,
                 creditBooking, cancelling, commands, creating>>

CommitConfirm(b) ==
  /\ confirming[b].step = "spent"
  /\ creditBooking' = [creditBooking EXCEPT ![b] = "confirmed"]
  /\ consumption' = [consumption EXCEPT ![b] = confirming[b].grant]
  /\ confirming' = [confirming EXCEPT ![b].step = "no"]
  /\ UNCHANGED <<control, governance, eligible, plan, creditGrants, returned, cancelling,
                 commands, creating>>

\* A refusal of the gate, or any later failure, rolls the transaction back.
AbortConfirm(b) ==
  /\ confirming[b].step # "no"
  /\ confirming' = [confirming EXCEPT ![b] = [step |-> "no", verdict |-> "none", grant |-> 0]]
  /\ UNCHANGED <<control, governance, eligible, plan, creditGrants, consumption, returned,
                 creditBooking, cancelling, commands, creating>>

---------------------------------------------------------------------------
(* Cancellation.  The row is read before the compare-and-swap, which waits  *)
(* for a confirmation that has already moved the booking.                   *)

ReadForCancel(b) ==
  /\ cancelling[b] = "no" /\ creditBooking[b] # "cancelled"
  /\ cancelling' = [cancelling EXCEPT ![b] = IF creditBooking[b] = "confirmed"
                                             THEN "saw_confirmed" ELSE "saw_pending"]
  /\ UNCHANGED <<control, governance, eligible, plan, creditGrants, consumption, returned,
                 creditBooking, confirming, commands, creating>>

\* CAUSE_BY_ACTOR: a customer's cancellation returns nothing.
Returns(actor) == actor \in {"professional", "system"}

\* The hook's return is skipped when the row was read as not confirmed.
Cancel(b, actor) ==
  /\ cancelling[b] # "no" /\ confirming[b].step = "no"
  /\ creditBooking' = [creditBooking EXCEPT ![b] = "cancelled"]
  /\ cancelling' = [cancelling EXCEPT ![b] = "no"]
  /\ returned' = IF cancelling[b] = "saw_confirmed" /\ consumption[b] # 0 /\ Returns(actor)
                 THEN returned \cup {b} ELSE returned
  /\ UNCHANGED <<control, governance, eligible, plan, creditGrants, consumption, confirming,
                 commands, creating>>

---------------------------------------------------------------------------
(* The rollout.                                                            *)

\* No transaction holds the control row FOR SHARE.
ControlRowFree == /\ \A b \in Bookings : confirming[b].step = "no"
                  /\ \A k \in DOMAIN commands : ~commands[k].open
                  /\ \A p \in Sellers : creating[p] = "no"

\* Mutant: the kill switch is a plain UPDATE read without a row lock.
KillSwitchUnlocked == TRUE
\* moveKillSwitch: SELECT ... FOR UPDATE waits for every share lock.
KillSwitchFree == ControlRowFree

MoveKillSwitch ==
  /\ KillSwitchFree
  /\ control' = [control EXCEPT !.killed = ~@]
  /\ UNCHANGED <<governance, eligible, plan, creditGrants, consumption, returned,
                 creditBooking, confirming, cancelling, commands, creating>>

\* takeCoordinationExclusive, then the control row FOR UPDATE.
Coordinated == ControlRowFree

\* Refused while the partition still counts an unresolved party.
Activate ==
  /\ Coordinated /\ control.rollout = "inactive"
  /\ \A p \in eligible : governance[p] # "none"
  /\ control' = [control EXCEPT !.rollout = "active"]
  /\ UNCHANGED <<governance, eligible, plan, creditGrants, consumption, returned,
                 creditBooking, confirming, cancelling, commands, creating>>

\* transitionEntitledParties: the candidates hold a positive grant.
Entitled(p) == governance[p] # "governed" /\ PositiveGrants(p) # {}
\* exemptUnentitledParties: the candidates hold no positive grant when read.
Unentitled(p) == governance[p] = "none" /\ PositiveGrants(p) = {}

BeginCommand(kind) ==
  /\ ~commands[kind].open
  /\ commands' = [commands EXCEPT ![kind] =
       [open |-> TRUE, parties |-> {p \in eligible : IF kind = "govern" THEN Entitled(p)
                                                     ELSE Unentitled(p)}]]
  /\ UNCHANGED <<control, governance, eligible, plan, creditGrants, consumption, returned,
                 creditBooking, confirming, cancelling, creating>>

\* Only the governance row is read again under the party locks: a party that
\* was governed meanwhile is left alone, a grant issued meanwhile is not seen.
CommitCommand(kind) ==
  LET parties == commands[kind].parties IN
  /\ commands[kind].open
  /\ \A p \in parties : PartyLockFree(p)
  /\ governance' = [p \in Sellers |->
       IF p \notin parties THEN governance[p]
       ELSE IF kind = "govern" THEN "governed"
       ELSE IF governance[p] = "none" THEN "legacy_exempt" ELSE governance[p]]
  /\ commands' = [commands EXCEPT ![kind] = [open |-> FALSE, parties |-> {}]]
  /\ UNCHANGED <<control, eligible, plan, creditGrants, consumption, returned, creditBooking,
                 confirming, cancelling, creating>>

\* initializeCreatedParty, in the transaction that creates the party.
BeginCreate(p) ==
  /\ p \notin eligible /\ creating[p] = "no"
  /\ creating' = [creating EXCEPT ![p] = control.rollout]
  /\ UNCHANGED <<control, governance, eligible, plan, creditGrants, consumption, returned,
                 creditBooking, confirming, cancelling, commands>>

CommitCreate(p) ==
  /\ creating[p] # "no"
  /\ eligible' = eligible \cup {p}
  /\ governance' = [governance EXCEPT ![p] = IF creating[p] = "active" THEN "governed" ELSE @]
  /\ creating' = [creating EXCEPT ![p] = "no"]
  /\ UNCHANGED <<control, plan, creditGrants, consumption, returned, creditBooking, confirming,
                 cancelling, commands>>

---------------------------------------------------------------------------
CreditsNext ==
  \/ \E p \in Sellers : \/ EnsureBaseSubscription(p) \/ ApplyPlanSelection(p)
                        \/ ApplyCancellation(p) \/ BeginCreate(p) \/ CommitCreate(p)
  \/ \E b \in Bookings : \/ BeginConfirm(b) \/ Consume(b) \/ CommitConfirm(b)
                         \/ AbortConfirm(b) \/ ReadForCancel(b)
                         \/ \E a \in {"customer", "professional", "system"} : Cancel(b, a)
  \/ \E k \in DOMAIN commands : BeginCommand(k) \/ CommitCommand(k)
  \/ MoveKillSwitch \/ Activate

CreditsSpec == CreditsInit /\ [][CreditsNext]_creditVars

---------------------------------------------------------------------------
\* No grant is spent beyond its quantity, whichever confirmations of one
\* seller run at the same time (consumeForConfirmation's advisory lock).
NeverOverspent ==
  \A p \in Sellers : \A g \in DOMAIN creditGrants[p] : SpentOf(p, g) <= creditGrants[p][g]

\* Under an active rollout every party that exists has a governance row: the
\* activation counts the unresolved parties while no party is being created
\* (activate and initializeCreatedParty, coordination lock).
ActiveCoversEveryone ==
  control.rollout = "active" => \A p \in eligible : governance[p] # "none"

\* A booking confirmed for a governed seller has spent a credit, even if the
\* seller's governance changed while the confirmation ran.
GovernedIsPaidFor ==
  \A b \in Bookings :
    creditBooking[b] = "confirmed" /\ confirming[b].verdict = "governed" => consumption[b] # 0

\* While the kill switch is engaged no booking becomes confirmed, not even
\* one whose gate was passed before (readForConfirmation FOR SHARE against
\* moveKillSwitch FOR UPDATE).
KillSwitchStops ==
  [][control.killed => \A b \in Bookings :
       creditBooking'[b] = "confirmed" => creditBooking[b] = "confirmed"]_creditVars

\* The confirmation gate holds: no credit spent twice, no seller outside the
\* rollout, no governed booking unpaid, nothing confirmed past the kill switch.
CreditsGateConfirmations ==
  /\ [](CreditsTypeOK /\ NeverOverspent /\ ActiveCoversEveryone /\ GovernedIsPaidFor)
  /\ KillSwitchStops
=============================================================================
