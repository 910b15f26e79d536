-------------------------- MODULE MCBookingScenes --------------------------
(***************************************************************************)
(* Booking with what customer and professional may have under way at once:  *)
(* either two bookings that customers claim from each other, or one booking *)
(* that customer and professional both act on.  Only requests are limited;  *)
(* a request under way, the sweep and the clock are those of Booking.       *)
(***************************************************************************)
EXTENDS MCBooking

Creating == {p \in Sessions : sessions[p].pc = "create"}
Created == {b \in DOMAIN bookings : bookings[b].status # "none"}

Alone == Cardinality(Creating) + Cardinality(Created) <= 1
ByProfessional ==
  \/ \E p \in Sessions : sessions[p].actor = "professional"
  \/ \E b \in Created : cancellation[b].by = "professional"

Moved == \E b \in Created : bookings[b].moves > 0

\* A second booking joins while no professional has acted and nobody has moved.
SceneRequest(p) ==
  /\ Request(p)
  /\ ByProfessional' => Alone'
  /\ Moved /\ p \in Creating' => p \in Creating

SceneNext ==
  \/ \E s \in Slots : CreateSlot(s)
  \/ \E s \in Slots : DeleteSlot(s)
  \/ \E p \in Sessions : SceneRequest(p)
  \/ \E p \in Sessions : Proceed(p)
  \/ \E b \in Bookings : Confirm(b)
  \/ \E b \in Bookings : Complete(b)
  \/ \E b \in Bookings : MarkNoShow(b)
  \/ \E b \in Bookings, s \in Slots, a \in BOOLEAN : RescheduleGoverned(b, s, a)
  \/ SweepRead
  \/ SweepStep
  \/ Tick

\* Nothing that Fairness speaks of is limited, so it carries over.
SceneSpec == Init /\ [][SceneNext]_vars /\ Fairness
============================================================================
