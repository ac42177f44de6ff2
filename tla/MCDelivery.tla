----------------------------- MODULE MCDelivery -----------------------------
(* Small instances of Delivery for TLC. *)
EXTENDS Delivery, TLC

\* Calls and request ids are interchangeable.
Symmetry == Permutations(Calls) \union Permutations(Requests)
=============================================================================
