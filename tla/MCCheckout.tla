----------------------------- MODULE MCCheckout -----------------------------
(***************************************************************************)
(* Checkout with small sets of workers, amounts and retentions.            *)
(***************************************************************************)
EXTENDS Checkout, TLC

WorkerSymmetry == Permutations(Requests) \cup Permutations(Relays)
============================================================================
