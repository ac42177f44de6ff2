----------------------------- MODULE MCBilling -----------------------------
(* A small instance of Billing: two users, either of whom may own or win.*)
EXTENDS Billing, TLC

CONSTANTS u1, u2, l1, l2, r1, r2, r3, r4, e1, e2, e3, e4, e5

MCUsers == {u1, u2}
MCLots == {l1, l2}
MCRequests == {r1, r2, r3, r4}
MCEvents == {e1, e2, e3, e4, e5}
MCSymmetry == Permutations(MCRequests) \union Permutations(MCEvents)
============================================================================
