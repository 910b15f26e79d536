----------------------------- MODULE MCBooking -----------------------------
(***************************************************************************)
(* Small calendars for Booking.  Slots a and b belong to the first          *)
(* professional and follow each other; c belongs to the second and overlaps *)
(* a, so that only the resource they share can keep them apart.             *)
(***************************************************************************)
EXTENDS Booking, TLC

CONSTANTS slotA, slotB, slotC, proA, proB, facial, chair

MCStartAt == [s \in Slots |-> IF s = slotB THEN 2 ELSE 1]
MCEndAt == [s \in Slots |-> IF s = slotA THEN 2 ELSE 3]
MCProfessionalOf == [s \in Slots |-> IF s = slotC THEN proB ELSE proA]
MCServiceOf == [s \in Slots |-> IF s = slotC THEN facial ELSE None]
MCRequirement == Services \X Slots
MCEligible == {<<facial, s, chair>> : s \in Slots}

\* Sessions are interchangeable.
SessionSymmetry == Permutations(Sessions)
============================================================================
