------------------------------- MODULE Reviews -------------------------------
(***************************************************************************)
(* Reviews of one professional and the rating counters that search ranks    *)
(* by: a completed booking makes its customer eligible, a review is created *)
(* once per booking, moderators who may work at once hide and restore it,   *)
(* and each visible change is an event that search folds into two counters  *)
(* (the sum of ratings and the number of reviews), delivered at least once  *)
(* and in any order.  Every review here has rating 1, so that the counters  *)
(* are one.                                                                 *)
(***************************************************************************)
EXTENDS Naturals, FiniteSets

CONSTANTS
  ReviewedBookings,  \* bookings of this professional
  ReviewModerators,
  MaxModerations     \* bound on the moderation events of a review

ASSUME ReviewsAssumption == MaxModerations \in Nat /\ IsFiniteSet(ReviewedBookings)

VARIABLES
  reviewable,    \* provider.review_eligibility
  reviews,     \* provider.reviews by booking: status, and whether a moderator has triaged it
  reviewEvents,\* the provider's outbox: ReviewCreated and ReviewModerated
  moderating,  \* the review each moderator has read, and the decision
  applied,     \* search.signal_applications
  reviewCount, \* search.ranking_signals.review_count
  clamped      \* observer: a subtraction met a counter at zero

reviewVars == <<reviewable, reviews, reviewEvents, moderating, applied, reviewCount, clamped>>

NoReview == [status |-> "none", triaged |-> FALSE]
NotModerating == [booking |-> "none", from |-> "none", to |-> "none"]

ReviewsTypeOK ==
  /\ reviewable \subseteq ReviewedBookings
  /\ reviews \in [ReviewedBookings -> [status : {"none", "published", "hidden"}, triaged : BOOLEAN]]
  /\ reviewEvents \subseteq [booking : ReviewedBookings, n : 1 .. MaxModerations + 1, delta : {"add", "take"}]
  /\ moderating \in [ReviewModerators ->
       [booking : ReviewedBookings \union {"none"}, from : {"none", "published", "hidden"},
        to : {"none", "published", "hidden"}]]
  /\ applied \subseteq reviewEvents
  /\ reviewCount \in Nat /\ clamped \in BOOLEAN

ReviewsInit ==
  /\ reviewable = {}
  /\ reviews = [b \in ReviewedBookings |-> NoReview]
  /\ reviewEvents = {}
  /\ moderating = [m \in ReviewModerators |-> NotModerating]
  /\ applied = {} /\ reviewCount = 0 /\ clamped = FALSE

EventsOf(b) == {e \in reviewEvents : e.booking = b}
Emitted(b, d) ==
  reviewEvents \union {[booking |-> b, n |-> Cardinality(EventsOf(b)) + 1, delta |-> d]}

\* recordEligibility, on BookingCompleted.
RecordEligibility(b) ==
  /\ b \notin reviewable
  /\ reviewable' = reviewable \union {b}
  /\ UNCHANGED <<reviews, reviewEvents, moderating, applied, reviewCount, clamped>>

\* create: one review for a booking, by its unique index.
CreateReview(b) ==
  /\ b \in reviewable /\ reviews[b] = NoReview
  /\ reviews' = [reviews EXCEPT ![b].status = "published"]
  /\ reviewEvents' = Emitted(b, "add")
  /\ UNCHANGED <<reviewable, moderating, applied, reviewCount, clamped>>

\* moderate: the review is read ...
ReadReview(m, b, to) ==
  /\ moderating[m] = NotModerating /\ reviews[b] # NoReview
  /\ moderating' = [moderating EXCEPT ![m] = [booking |-> b, from |-> reviews[b].status, to |-> to]]
  /\ UNCHANGED <<reviewable, reviews, reviewEvents, applied, reviewCount, clamped>>

\* Mutant: the decision is written over whatever status the review has now.
DecidesAlways(m) == TRUE
\* UPDATE ... WHERE status = :fromStatus AND (status <> :toStatus OR moderated_at IS NULL).
Decides(m) ==
  LET d == moderating[m] IN
  reviews[d.booking].status = d.from /\ (d.from # d.to \/ ~reviews[d.booking].triaged)

\* ... and the decision written with its event, or refused as already made.
DecideReview(m) ==
  LET d == moderating[m] IN
  /\ d # NotModerating
  /\ \/ /\ Decides(m)
        /\ d.from # d.to => Cardinality(EventsOf(d.booking)) <= MaxModerations
        /\ reviews' = [reviews EXCEPT ![d.booking] = [status |-> d.to, triaged |-> TRUE]]
        /\ reviewEvents' = IF d.from = d.to THEN reviewEvents
                           ELSE Emitted(d.booking, IF d.to = "hidden" THEN "take" ELSE "add")
     \/ ~Decides(m) /\ UNCHANGED <<reviews, reviewEvents>>
  /\ moderating' = [moderating EXCEPT ![m] = NotModerating]
  /\ UNCHANGED <<reviewable, applied, reviewCount, clamped>>

\* insertOnce into signal_applications.
Claimed(e) == e \notin applied

\* applyRatingSignal: the counters move by the event's amount, never below zero.
ApplyRating(e) ==
  /\ e \in reviewEvents /\ Claimed(e)
  /\ applied' = applied \union {e}
  /\ reviewCount' = IF e.delta = "add" THEN reviewCount + 1
                    ELSE IF reviewCount = 0 THEN 0 ELSE reviewCount - 1
  /\ clamped' = (clamped \/ (e.delta = "take" /\ reviewCount = 0))
  /\ UNCHANGED <<reviewable, reviews, reviewEvents, moderating>>

ReviewsNext ==
  \/ \E b \in ReviewedBookings : RecordEligibility(b) \/ CreateReview(b)
  \/ \E m \in ReviewModerators :
       \/ \E b \in ReviewedBookings, to \in {"published", "hidden"} : ReadReview(m, b, to)
       \/ DecideReview(m)
  \/ \E e \in reviewEvents : ApplyRating(e)

ReviewsSpec == ReviewsInit /\ [][ReviewsNext]_reviewVars

---------------------------------------------------------------------------
\* Once every event has been applied, search counts exactly the reviews that are
\* published, however often events were redelivered, in whatever order they came
\* and whoever moderated at once -- unless a subtraction came before its addition
\* and was clamped at zero (applyRatingSignal, moderate).
RatingsAgree ==
  (applied = reviewEvents /\ ~clamped) =>
    reviewCount = Cardinality({b \in ReviewedBookings : reviews[b].status = "published"})
=============================================================================
