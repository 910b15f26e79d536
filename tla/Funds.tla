------------------------------- MODULE Funds -------------------------------
(***************************************************************************)
(* services/financial: the legacy ledger of orders collected before the     *)
(* pending-funds journal existed, the journal of all later ones, and the    *)
(* settlement batches of the old regime; fed by the commerce events that    *)
(* apps/api/src/events/financial-projection.handlers.ts consumes.           *)
(*                                                                         *)
(* The journal is written under a per-order advisory lock, so one of its    *)
(* transactions is one action.  The ledger is read before the transaction   *)
(* that appends to it: two actions.                                        *)
(***************************************************************************)
EXTENDS Integers, FiniteSets, Functions

CONSTANTS
  FundOrders, LegacyOrders,  \* LegacyOrders: collected before the journal existed
  NRefunds,                  \* bound on refunds; their ids sort in creation order
  RefundedOrder,             \* [FundRefunds -> FundOrders]
  RefundSize,                \* [FundRefunds -> Nat \ {0}]
  FundAmount,                \* [FundOrders -> Nat \ {0}], what the order collected
  RatePercent,               \* commission rate of the legacy rows
  FundRelays,
  MaxFundFaults              \* bound on handler calls that throw

FundRefunds == 1 .. NRefunds

ASSUME FundsAssumption ==
  /\ NRefunds \in Nat
  /\ LegacyOrders \subseteq FundOrders /\ FundOrders \cap (FundRefunds \cup {0}) = {}
  /\ RefundedOrder \in [FundRefunds -> FundOrders]
  /\ RefundSize \in [FundRefunds -> Nat \ {0}]
  /\ FundAmount \in [FundOrders -> Nat \ {0}]
  /\ RatePercent \in 0 .. 100 /\ MaxFundFaults \in Nat

VARIABLES
  reversals,    \* ledger_entries of reference_type order_refund, by refund
  journal,      \* fund_journals: the collections and refunds recorded
  postings,     \* balance_after of the latest posting of each account
  unsettled,    \* reversal batches of each order's settlement
  fundEvents,   \* OrderPaid / OrderRefunded rows: none, queued, done
  fundRelays,   \* one dispatch at a time, and what this drain has passed
  fundFailed,   \* observer: events of which some dispatch threw
  fundFaults

fundsVars == <<reversals, journal, postings, unsettled, fundEvents, fundRelays,
               fundFailed, fundFaults>>

\* An event is named after its order (OrderPaid) or its refund (OrderRefunded).
FundEvents == (FundOrders \ LegacyOrders) \cup FundRefunds
OrderOfEvent(e) == IF e \in FundRefunds THEN RefundedOrder[e] ELSE e

LedgerRow == [posted : BOOLEAN, commission : Int, receivable : Int]
PostingRow == [pending : Nat, collected : Nat, refunded : Nat]
FundRelay == [pc : {"idle", "dispatch", "insert", "mark"}, event : FundEvents \cup {0},
              commission : Int, receivable : Int, passed : SUBSET FundEvents]

FundsTypeOK ==
  /\ reversals \in [FundRefunds -> LedgerRow]
  /\ journal \subseteq FundEvents
  /\ postings \in [FundOrders -> PostingRow]
  /\ unsettled \in [LegacyOrders -> Nat]
  /\ fundEvents \in [FundEvents -> {"none", "queued", "done"}]
  /\ fundRelays \in [FundRelays -> FundRelay]
  /\ fundFailed \subseteq FundEvents
  /\ fundFaults \in 0 .. MaxFundFaults

Between(passed) == [pc |-> "idle", event |-> 0, commission |-> 0, receivable |-> 0, passed |-> passed]
IdleRelay == Between({})

FundsInit ==
  /\ reversals = [x \in FundRefunds |-> [posted |-> FALSE, commission |-> 0, receivable |-> 0]]
  /\ journal = {}
  /\ postings = [o \in FundOrders |-> [pending |-> 0, collected |-> 0, refunded |-> 0]]
  /\ unsettled = [o \in LegacyOrders |-> 0]
  /\ fundEvents = [e \in FundEvents |-> "none"]
  /\ fundRelays = [w \in FundRelays |-> IdleRelay]
  /\ fundFailed = {} /\ fundFaults = 0

---------------------------------------------------------------------------
(* libs/money.                                                             *)

\* roundHalf(total * rate): halves away from zero.
PercentOf(total) ==
  IF total < 0 THEN -((-total * RatePercent + 50) \div 100)
  ELSE (total * RatePercent + 50) \div 100
SplitExact(total) == [part |-> PercentOf(total), remainder |-> total - PercentOf(total)]

RefundsOf(o) == {x \in FundRefunds : RefundedOrder[x] = o}
Asked(o) == SumFunctionOnSet(RefundSize, {x \in RefundsOf(o) : fundEvents[x] # "none"})

---------------------------------------------------------------------------
(* Commerce appends its events; an order's refunds fit what it collected.  *)

EmitOrderPaid(o) ==
  /\ o \in FundOrders \ LegacyOrders /\ fundEvents[o] = "none"
  /\ fundEvents' = [fundEvents EXCEPT ![o] = "queued"]
  /\ UNCHANGED <<reversals, journal, postings, unsettled, fundRelays, fundFailed, fundFaults>>

EmitOrderRefunded(x) ==
  LET o == RefundedOrder[x] IN
  /\ fundEvents[x] = "none"
  /\ o \notin LegacyOrders => fundEvents[o] # "none"
  /\ \A y \in RefundsOf(o) : y < x => fundEvents[y] # "none"
  /\ Asked(o) + RefundSize[x] <= FundAmount[o]
  /\ fundEvents' = [fundEvents EXCEPT ![x] = "queued"]
  /\ UNCHANGED <<reversals, journal, postings, unsettled, fundRelays, fundFailed, fundFaults>>

---------------------------------------------------------------------------
(* A relay walks the rows it reads in id order; a row that throws is passed *)
(* over until the next drain.                                              *)

\* Mutant: the batch is read without ORDER BY id.
InTurnUnordered(w, e) == TRUE
\* Earlier events of the same order come first.
InTurn(w, e) ==
  \A d \in FundEvents :
    /\ fundEvents[d] = "queued" /\ OrderOfEvent(d) = OrderOfEvent(e)
    /\ e \in FundRefunds /\ (d \in FundRefunds => d < e)
    => d \in fundRelays[w].passed

TakeFundEvent(w, e) ==
  /\ fundRelays[w].pc = "idle" /\ e \notin fundRelays[w].passed
  /\ fundEvents[e] = "queued" /\ InTurn(w, e)
  /\ fundRelays' = [fundRelays EXCEPT ![w] =
       [pc |-> "dispatch", event |-> e, commission |-> 0, receivable |-> 0, passed |-> fundRelays[w].passed]]
  /\ UNCHANGED <<reversals, journal, postings, unsettled, fundEvents, fundFailed, fundFaults>>

Handled(w) == fundRelays' = [fundRelays EXCEPT ![w].pc = "mark"]
Passed(w) == fundRelays' = [fundRelays EXCEPT
               ![w] = Between(fundRelays[w].passed \cup {fundRelays[w].event})]

\* OrderPaidLedgerHandler and recordCollection: a journal key that exists
\* makes the whole call a no-op.
RecordCollection(w) ==
  LET o == fundRelays[w].event IN
  /\ fundRelays[w].pc = "dispatch" /\ o \in FundOrders
  /\ IF o \in journal THEN UNCHANGED <<journal, postings>>
     ELSE /\ journal' = journal \cup {o}
          /\ postings' = [postings EXCEPT ![o] =
               [pending |-> @.pending + FundAmount[o], collected |-> @.collected + FundAmount[o],
                refunded |-> @.refunded]]
  /\ Handled(w)
  /\ UNCHANGED <<reversals, unsettled, fundEvents, fundFailed, fundFaults>>

\* A refund draws on a recorded collection, once per refund id.
JournalAdmits(x) == postings[RefundedOrder[x]].collected > 0 /\ x \notin journal

\* OrderRefundedLedgerHandler for an order of the new regime.  A refund that
\* finds no collection is dropped: recordRefund returns false.
RecordFundRefund(w) ==
  LET x == fundRelays[w].event
      o == RefundedOrder[x]
  IN
  /\ fundRelays[w].pc = "dispatch" /\ x \in FundRefunds /\ o \notin LegacyOrders
  /\ IF JournalAdmits(x)
     THEN /\ postings[o].pending >= RefundSize[x]
          /\ journal' = journal \cup {x}
          /\ postings' = [postings EXCEPT ![o] =
               [pending |-> @.pending - RefundSize[x], collected |-> @.collected,
                refunded |-> @.refunded + RefundSize[x]]]
     ELSE UNCHANGED <<journal, postings>>
  /\ Handled(w)
  /\ UNCHANGED <<reversals, unsettled, fundEvents, fundFailed, fundFaults>>

\* What the legacy ledger carries for an order: the original pair, at the rate
\* captured then, plus every reversal posted since.
Commissions == [x \in FundRefunds |-> reversals[x].commission]
Receivables == [x \in FundRefunds |-> reversals[x].receivable]
Posted(o) == {x \in RefundsOf(o) : reversals[x].posted}
LedgerNet(o) ==
  LET orig == SplitExact(FundAmount[o])
  IN [commission |-> orig.part + SumFunctionOnSet(Commissions, Posted(o)),
      receivable |-> orig.remainder + SumFunctionOnSet(Receivables, Posted(o))]

\* LedgerService.recordRefund: the split the remaining amount should carry,
\* less what is recorded.
CumulativeDelta(o, amount) ==
  LET now == LedgerNet(o)
      target == SplitExact(now.commission + now.receivable - amount)
  IN [commission |-> target.part - now.commission, receivable |-> target.remainder - now.receivable]

\* The rows are read, and the delta computed, before the transaction.
ReadLedger(w) ==
  LET x == fundRelays[w].event
      delta == CumulativeDelta(RefundedOrder[x], RefundSize[x])
  IN
  /\ fundRelays[w].pc = "dispatch" /\ x \in FundRefunds /\ RefundedOrder[x] \in LegacyOrders
  /\ fundRelays' = [fundRelays EXCEPT ![w] =
       [pc |-> "insert", event |-> x, commission |-> delta.commission,
        receivable |-> delta.receivable, passed |-> fundRelays[w].passed]]
  /\ UNCHANGED <<reversals, journal, postings, unsettled, fundEvents, fundFailed, fundFaults>>

\* insertEntries: ON CONFLICT (entry_type, reference_type, reference_id) DO NOTHING.
ReversalInserted(x, commission, receivable) ==
  IF reversals[x].posted THEN reversals[x]
  ELSE [posted |-> TRUE, commission |-> commission, receivable |-> receivable]

InsertReversal(w) ==
  LET q == fundRelays[w] IN
  /\ q.pc = "insert"
  /\ reversals' = [reversals EXCEPT ![q.event] = ReversalInserted(q.event, q.commission, q.receivable)]
  /\ Handled(w)
  /\ UNCHANGED <<journal, postings, unsettled, fundEvents, fundFailed, fundFaults>>

\* The handler throws, its transaction is rolled back, the row stays.
FundHandlerThrows(w) ==
  /\ fundRelays[w].pc \in {"dispatch", "insert"}
  /\ fundFaults < MaxFundFaults
  /\ fundFaults' = fundFaults + 1
  /\ fundFailed' = fundFailed \cup {fundRelays[w].event}
  /\ Passed(w)
  /\ UNCHANGED <<reversals, journal, postings, unsettled, fundEvents>>

MarkFundEvent(w) ==
  /\ fundRelays[w].pc = "mark"
  /\ fundEvents' = [fundEvents EXCEPT ![fundRelays[w].event] = "done"]
  /\ fundRelays' = [fundRelays EXCEPT ![w] = Between(fundRelays[w].passed)]
  /\ UNCHANGED <<reversals, journal, postings, unsettled, fundFailed, fundFaults>>

\* The drain is over, or the process dies after its handler has committed.
EndFundDrain(w) ==
  /\ fundRelays[w].pc \in {"idle", "mark"} /\ fundRelays[w] # IdleRelay
  /\ fundRelays' = [fundRelays EXCEPT ![w] = IdleRelay]
  /\ UNCHANGED <<reversals, journal, postings, unsettled, fundEvents, fundFailed, fundFaults>>

---------------------------------------------------------------------------
(* Settlement.  createSettlement refuses every call; the batches settled    *)
(* before, one per legacy order, can be reversed.                          *)

Reversible(o) == unsettled[o] = 0

ReverseSettlement(o) ==
  /\ Reversible(o)
  /\ unsettled' = [unsettled EXCEPT ![o] = @ + 1]
  /\ UNCHANGED <<reversals, journal, postings, fundEvents, fundRelays, fundFailed, fundFaults>>

\* outstandingForOrder, for an order whose whole receivable was settled.
Settled(o) == SplitExact(FundAmount[o]).remainder * (1 - unsettled[o])
Outstanding(o) == LedgerNet(o).receivable - Settled(o)

---------------------------------------------------------------------------

FundRelayStep(w) ==
  \/ \E e \in FundEvents : TakeFundEvent(w, e)
  \/ RecordCollection(w)
  \/ RecordFundRefund(w)
  \/ ReadLedger(w)
  \/ InsertReversal(w)
  \/ MarkFundEvent(w)

FundsNext ==
  \/ \E o \in FundOrders : EmitOrderPaid(o)
  \/ \E x \in FundRefunds : EmitOrderRefunded(x)
  \/ \E w \in FundRelays : FundRelayStep(w)
  \/ \E w \in FundRelays : FundHandlerThrows(w)
  \/ \E w \in FundRelays : EndFundDrain(w)
  \/ \E o \in LegacyOrders : ReverseSettlement(o)

FundsSpec == FundsInit /\ [][FundsNext]_fundsVars

---------------------------------------------------------------------------
(* Properties.                                                             *)

\* Money in the journal is neither made nor lost, however often an event is
\* delivered: an order's pending balance is its collection less the refunds
\* recorded, each counted once.
FundsConserved ==
  \A o \in FundOrders \ LegacyOrders :
    /\ postings[o].collected = IF o \in journal THEN FundAmount[o] ELSE 0
    /\ postings[o].refunded = SumFunctionOnSet(RefundSize, RefundsOf(o) \cap journal)
    /\ postings[o].pending = postings[o].collected - postings[o].refunded

\* Two relays that compute reversals of one legacy order from the same rows
\* may divide them differently, but never reverse more or less than the
\* refunds: commission and receivable always add up to what remains.
LedgerConserved ==
  \A o \in LegacyOrders :
    LedgerNet(o).commission + LedgerNet(o).receivable =
      FundAmount[o] - SumFunctionOnSet(RefundSize, Posted(o))

\* "A refund racing ahead of the collection" needs a collection whose dispatch
\* failed: otherwise every refund published is in the journal.
RefundReachesJournal ==
  \A x \in FundRefunds :
    (fundEvents[x] = "done" /\ RefundedOrder[x] \notin LegacyOrders
       /\ RefundedOrder[x] \notin fundFailed)
      => x \in journal

\* Cumulative reversal: unless a dispatch has failed and lets a later refund
\* overtake an earlier one, what is recorded is the split of what remains, so
\* that a full refund leaves 0 and 0 however many partial refunds preceded it.
SplitFollowsRate ==
  \A o \in LegacyOrders :
    RefundsOf(o) \cap fundFailed = {} =>
      LET now == LedgerNet(o)
          due == SplitExact(now.commission + now.receivable)
      IN now.commission = due.part /\ now.receivable = due.remainder

\* A refund after settlement makes the outstanding amount negative, and a
\* settlement is taken back at most once: the seller is never owed more than
\* the order's own receivable.
NeverUnsettledTwice ==
  \A o \in LegacyOrders : Outstanding(o) <= LedgerNet(o).receivable

\* The books balance: what services/financial records of an order's money agrees
\* with its collections and refunds, each counted once, under two relays.
BooksBalance ==
  /\ FundsTypeOK /\ FundsConserved /\ LedgerConserved
  /\ RefundReachesJournal /\ SplitFollowsRate /\ NeverUnsettledTwice
============================================================================
