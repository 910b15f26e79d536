--------------------------- MODULE SellerPolicies ---------------------------
(***************************************************************************)
(* Which policy governs a booking of one seller party: administrators       *)
(* publish and retire versions of policies and of the copy shown to the     *)
(* customer, the seller's staff choose a policy key, and an order resolves  *)
(* the choice into the terms it keeps for ever.  Collection and outcome     *)
(* policies follow the same protocol; policyKind says which one a behaviour *)
(* is about.  Only outcome policies have a copy, options to choose from and *)
(* an acceptance by the customer.                                           *)
(*                                                                         *)
(* READ COMMITTED: a transaction's share locks (FOR SHARE) last until it    *)
(* ends, and a locking read that waited looks again at the row it waited    *)
(* for, not at the rows that were inserted meanwhile.                       *)
(***************************************************************************)
EXTENDS Naturals, FiniteSets

CONSTANTS
  PolicyKeys, CopyKeys,
  Options,          \* what a seller may choose within an outcome policy
  Assigners,        \* requests of the seller's staff
  PolicyOrders,     \* order transactions of this seller
  MaxTerms,         \* bound on the version rows
  MaxAssignments    \* bound on the assignment rows

ASSUME SellerPoliciesAssumption ==
  MaxTerms \in Nat /\ MaxAssignments \in Nat /\ PolicyKeys \cap CopyKeys = {}

VARIABLES
  policyKind,   \* "collection" or "outcome"
  terms,        \* policy and copy versions
  assignments,  \* seller_*_policy_assignments of the party
  assigners,    \* the open assignment transactions
  policyOrders  \* the order transactions

policyVars == <<policyKind, terms, assignments, assigners, policyOrders>>

TermIds == 1 .. MaxTerms
AssignmentIds == 1 .. MaxAssignments
NoKey == "none"
NoTerms == [key |-> NoKey, state |-> "none", offers |-> {}]
NoAssignment == [key |-> NoKey, option |-> NoKey, state |-> "none"]
NotAssigning == [at |-> "idle", seen |-> 0, key |-> NoKey, option |-> NoKey, version |-> 0]
\* What a customer accepts names the policy's version and the copy's, and not the
\* option the seller chose within the policy.
Unquoted == [version |-> 0, copy |-> 0]
\* shown is an observer: the assignment the quote was made from.
NotOrdering == [at |-> "quoting", row |-> 0, shown |-> 0, accepted |-> Unquoted,
                version |-> 0, copy |-> 0]

PoliciesTypeOK ==
  /\ policyKind \in {"collection", "outcome"}
  /\ terms \in [TermIds -> [key : PolicyKeys \union CopyKeys \union {NoKey}, offers : SUBSET (Options \union {NoKey}),
                            state : {"none", "draft", "published", "lapsed", "retired"}]]
  /\ assignments \in [AssignmentIds -> [key : PolicyKeys \union {NoKey}, option : Options \union {NoKey},
                                        state : {"none", "current", "superseded"}]]
  /\ assigners \in [Assigners ->
       [at : {"idle", "read", "locked", "superseding", "done"}, seen : 0 .. MaxAssignments,
        key : PolicyKeys \union {NoKey}, option : Options \union {NoKey}, version : 0 .. MaxTerms]]
  /\ policyOrders \in [PolicyOrders ->
       [at : {"quoting", "asking", "waiting", "assigned", "resolved", "unbound", "legacy", "ordered", "refused"},
        row : 0 .. MaxAssignments, shown : 0 .. MaxAssignments,
        version : 0 .. MaxTerms, copy : 0 .. MaxTerms,
        accepted : [version : 0 .. MaxTerms, copy : 0 .. MaxTerms]]]

PoliciesInit ==
  /\ policyKind \in {"collection", "outcome"}
  /\ terms = [v \in TermIds |-> NoTerms]
  /\ assignments = [i \in AssignmentIds |-> NoAssignment]
  /\ assigners = [a \in Assigners |-> NotAssigning]
  /\ policyOrders = [o \in PolicyOrders |-> NotOrdering]

---------------------------------------------------------------------------
(* Versions.                                                               *)

ActiveTerms(key) == {v \in TermIds : terms[v].key = key /\ terms[v].state = "published"}
ActiveCopies == UNION {ActiveTerms(key) : key \in CopyKeys}
FreshTerms == {v \in TermIds : terms[v].state = "none"}
EditedTerms(v, t) == /\ terms' = [terms EXCEPT ![v] = t]
                     /\ UNCHANGED <<policyKind, assignments, assigners, policyOrders>>

\* What a version may offer and a seller choose.  A collection policy has nothing to choose.
Offers == IF policyKind = "outcome" THEN SUBSET Options \ {{}} ELSE {{NoKey}}

\* createVersionDraft of a policy.
DraftPolicy(key) ==
  \E v \in FreshTerms, offers \in Offers :
    /\ \A w \in FreshTerms : v <= w
    /\ EditedTerms(v, [key |-> key, state |-> "draft", offers |-> offers])

DraftCopy(key) ==
  \E v \in FreshTerms :
    /\ \A w \in FreshTerms : v <= w
    /\ policyKind = "outcome" /\ EditedTerms(v, [key |-> key, state |-> "draft", offers |-> {}])

\* replaceVersionDraft, whose update matches a draft only.
ReplaceDraft(v) ==
  /\ terms[v].state = "draft" /\ terms[v].key \in PolicyKeys
  /\ \E offers \in Offers \ {terms[v].offers} :
       EditedTerms(v, [terms[v] EXCEPT !.offers = offers])

DiscardTermsDraft(v) == terms[v].state = "draft" /\ EditedTerms(v, NoTerms)

\* transitionVersion to published; the exclusion constraint keeps one effective
\* version of a key, a retired one being effective no longer.
PublishTerms(v) ==
  /\ terms[v].state = "draft" /\ ActiveTerms(terms[v].key) = {}
  /\ EditedTerms(v, [terms[v] EXCEPT !.state = "published"])

\* activation_ends_at passes.
Lapse(v) ==
  terms[v].state = "published" /\ EditedTerms(v, [terms[v] EXCEPT !.state = "lapsed"])

\* The transactions that hold a version's row FOR SHARE.
SharesTerms(v) ==
  \/ \E a \in Assigners : assigners[a].at \in {"locked", "superseding"} /\ assigners[a].version = v
  \/ \E o \in PolicyOrders : policyOrders[o].at \in {"resolved"}
                             /\ v \in {policyOrders[o].version, policyOrders[o].copy}
\* Mutant: retirement does not wait for them.
TermsUnlocked(v) == TRUE
TermsLockFree(v) == ~SharesTerms(v)

\* transitionVersion to retired.
RetireTerms(v) ==
  /\ terms[v].state \in {"published", "lapsed"} /\ TermsLockFree(v)
  /\ EditedTerms(v, [terms[v] EXCEPT !.state = "retired"])

---------------------------------------------------------------------------
(* The seller's choice.                                                    *)

CurrentAssignments == {i \in AssignmentIds : assignments[i].state = "current"}
\* Rows an open transaction has superseded and not committed.
BeingSuperseded(i) == \E a \in Assigners : assigners[a].at = "superseding" /\ assigners[a].seen = i
\* A locking read holds the assignment until the order ends.
SharesAssignment(i) ==
  \E o \in PolicyOrders : policyOrders[o].at \in {"assigned", "resolved"} /\ policyOrders[o].row = i

Assigning(a, t) == /\ assigners' = [assigners EXCEPT ![a] = t]
                   /\ UNCHANGED <<policyKind, terms, policyOrders>>
AssigningOnly(a, t) == Assigning(a, t) /\ UNCHANGED assignments
AssignmentOver == [NotAssigning EXCEPT !.at = "done"]

\* assign: the current row is read without a lock; the same choice is a no-op.
ReadAssignment(a, key, option) ==
  /\ assigners[a].at = "idle"
  /\ \E i \in CurrentAssignments \union (IF CurrentAssignments = {} THEN {0} ELSE {}) :
       IF i # 0 /\ assignments[i].key = key /\ assignments[i].option = option
       THEN AssigningOnly(a, AssignmentOver)
       ELSE AssigningOnly(a, [at |-> "read", seen |-> i, key |-> key, option |-> option, version |-> 0])

\* requireSelectableAndLock: the one active version, held FOR SHARE, offers the option.
LockSelectable(a) ==
  /\ assigners[a].at = "read"
  /\ \/ \E v \in ActiveTerms(assigners[a].key) :
          /\ assigners[a].option \in terms[v].offers
          /\ AssigningOnly(a, [at |-> "locked", seen |-> assigners[a].seen, key |-> assigners[a].key,
                             option |-> assigners[a].option, version |-> v])
     \/ /\ \A v \in ActiveTerms(assigners[a].key) : assigners[a].option \notin terms[v].offers
        /\ AssigningOnly(a, AssignmentOver)

\* UPDATE ... WHERE id = :id AND superseded_at IS NULL ...
StillCurrent(i) == assignments[i].state = "current"

\* ... which waits for the orders that hold the row and for another supersession.
Supersede(a) ==
  LET i == assigners[a].seen IN
  /\ assigners[a].at = "locked" /\ i # 0
  /\ ~SharesAssignment(i) /\ ~BeingSuperseded(i)
  /\ AssigningOnly(a, IF StillCurrent(i) THEN [assigners[a] EXCEPT !.at = "superseding"]
                      ELSE AssignmentOver)

\* uq_*_one_current_per_party.
OneCurrent(a) == CurrentAssignments \subseteq {assigners[a].seen}

\* The successor is inserted and the transaction commits, or both are refused.
InsertAssignment(a) ==
  LET i == assigners[a].seen IN
  /\ assigners[a].at = "superseding" \/ (assigners[a].at = "locked" /\ i = 0)
  /\ \E j \in AssignmentIds :
       /\ assignments[j].state = "none" /\ \A k \in 1 .. j - 1 : assignments[k].state # "none"
       /\ assignments' =
            IF ~OneCurrent(a) THEN assignments
            ELSE [k \in AssignmentIds |->
                   CASE k = j -> [key |-> assigners[a].key, option |-> assigners[a].option,
                                  state |-> "current"]
                     [] k = i -> [assignments[i] EXCEPT !.state = "superseded"]
                     [] OTHER -> assignments[k]]
  /\ Assigning(a, AssignmentOver)

---------------------------------------------------------------------------
(* The order.                                                              *)

Ordering(o, t) == /\ policyOrders' = [policyOrders EXCEPT ![o] = t]
                  /\ UNCHANGED <<policyKind, terms, assignments, assigners>>
RefusedOrder(o) == [policyOrders[o] EXCEPT !.at = "refused"]

\* The quote the customer is shown, and accepts; its locks end with it.
QuoteTerms(o) ==
  /\ policyOrders[o].at = "quoting"
  /\ \/ Ordering(o, [NotOrdering EXCEPT !.at = "asking"])
     \/ /\ policyKind = "outcome"
        /\ \E i \in CurrentAssignments : \E v \in ActiveTerms(assignments[i].key), c \in ActiveCopies :
             /\ assignments[i].option \in terms[v].offers /\ ActiveCopies = {c}
             /\ Ordering(o, [at |-> "asking", row |-> 0, shown |-> i, version |-> 0, copy |-> 0,
                             accepted |-> [version |-> v, copy |-> c]])

\* resolveForParty, first statement: the current assignment FOR SHARE.  No row
\* is the answer of a party that is not enrolled.
AskAssignment(o) ==
  /\ policyOrders[o].at = "asking"
  /\ \/ CurrentAssignments = {} /\ Ordering(o, [policyOrders[o] EXCEPT !.at = "legacy"])
     \/ \E i \in CurrentAssignments :
          Ordering(o, [at |-> IF BeingSuperseded(i) THEN "waiting" ELSE "assigned", row |-> i,
                       shown |-> policyOrders[o].shown, version |-> 0, copy |-> 0,
                       accepted |-> policyOrders[o].accepted])

\* The row waited for is looked at again; if it was superseded nothing is left.
AssignmentReread(o) ==
  LET i == policyOrders[o].row IN
  /\ policyOrders[o].at = "waiting" /\ ~BeingSuperseded(i)
  /\ Ordering(o, [policyOrders[o] EXCEPT
       !.at = IF assignments[i].state = "current" THEN "assigned" ELSE "legacy"])

\* The version of the key, then the copy, FOR SHARE.  Anything but one of each,
\* or an option no longer offered, refuses the order; an order of which the
\* platform collects nothing goes on without outcome terms instead
\* (outcomeForCollection).
ResolveTerms(o) ==
  LET i == policyOrders[o].row
      vs == {v \in ActiveTerms(assignments[i].key) : assignments[i].option \in terms[v].offers}
      cs == IF policyKind = "outcome" THEN ActiveCopies ELSE {0} IN
  /\ policyOrders[o].at = "assigned"
  /\ \/ \E v \in vs, c \in cs :
          /\ cs = {c}
          /\ Ordering(o, [at |-> "resolved", row |-> i, shown |-> policyOrders[o].shown,
                          version |-> v, copy |-> c, accepted |-> policyOrders[o].accepted])
     \/ /\ vs = {} \/ Cardinality(cs) # 1
        /\ \/ Ordering(o, RefusedOrder(o))
           \/ policyKind = "outcome" /\ Ordering(o, [policyOrders[o] EXCEPT !.at = "unbound"])

\* requireAcceptance.
AcceptanceMatches(o) ==
  policyOrders[o].accepted =
    IF policyOrders[o].at # "resolved" \/ policyKind = "collection" THEN Unquoted
    ELSE [version |-> policyOrders[o].version, copy |-> policyOrders[o].copy]

\* The snapshot is inserted with the order and the transaction commits.
CommitOrder(o) ==
  /\ policyOrders[o].at \in {"resolved", "unbound", "legacy"}
  /\ Ordering(o, IF AcceptanceMatches(o) THEN [policyOrders[o] EXCEPT !.at = "ordered"]
                 ELSE RefusedOrder(o))

---------------------------------------------------------------------------
PoliciesNext ==
  \/ \E key \in PolicyKeys : DraftPolicy(key)
  \/ \E key \in CopyKeys : DraftCopy(key)
  \/ \E v \in TermIds : ReplaceDraft(v) \/ DiscardTermsDraft(v) \/ PublishTerms(v) \/ Lapse(v) \/ RetireTerms(v)
  \/ \E a \in Assigners : \/ \E key \in PolicyKeys, option \in UNION Offers : ReadAssignment(a, key, option)
                          \/ LockSelectable(a) \/ Supersede(a) \/ InsertAssignment(a)
  \/ \E o \in PolicyOrders : \/ QuoteTerms(o) \/ AskAssignment(o) \/ AssignmentReread(o)
                             \/ ResolveTerms(o) \/ CommitOrder(o)

PoliciesSpec == PoliciesInit /\ [][PoliciesNext]_policyVars

---------------------------------------------------------------------------
\* An order about to commit its terms takes them from the assignment that is in
\* force and from versions nobody has retired since it resolved them, however
\* administrators and the seller's staff move meanwhile (resolveForParty's locks).
TermsStayInForce ==
  \A o \in PolicyOrders : policyOrders[o].at = "resolved" =>
    /\ assignments[policyOrders[o].row].state = "current"
    /\ \A v \in {policyOrders[o].version, policyOrders[o].copy} \ {0} : terms[v].state # "retired"

\* A party has one choice at a time although each request reads the current one
\* without a lock (CollectionPolicyAssignmentService.assign).
OneChoiceAtATime == Cardinality(CurrentAssignments) <= 1

\* An outcome order is bound by exactly the version and the copy that the
\* customer was shown, whatever was published between the quote and the order
\* (OrderService.requireAcceptance).  The option within the policy is no part of
\* what is accepted: it is the one shown unless the seller's staff have
\* superseded the choice the quote was made from.
OrderedAsAccepted ==
  policyKind = "outcome" =>
    \A o \in PolicyOrders : policyOrders[o].at = "ordered" =>
      /\ policyOrders[o].version = policyOrders[o].accepted.version
      /\ policyOrders[o].copy = policyOrders[o].accepted.copy
      /\ policyOrders[o].version # 0 =>
           \/ policyOrders[o].row = policyOrders[o].shown
           \/ assignments[policyOrders[o].shown].state = "superseded"
=============================================================================
