------------------------------ MODULE MCAuction ------------------------------
(* Lots of u1, bidders u2 and u3.                                            *)
EXTENDS Auction, TLC

CONSTANTS u1, u2, u3, l1, c1, c2, r1, q1, q2, q3

Bid(u, l, a, q) == [user |-> u, lot |-> l, amount |-> a, request |-> q]

MCUsers == {u1, u2, u3}
MCUIDs == Nat
MCOffer == [l \in Lots |-> [owner |-> u1, start |-> 1, buyNow |-> 3]]
MCFunds == [u \in Users |-> IF u = u1 THEN 1 ELSE 3]

\* u2 is short of the buy-it-now price; Width 4 then bounds the totals.
ShortFunds == [u \in Users |-> CASE u = u1 -> 1 [] u = u2 -> 2 [] u = u3 -> 3]

\* Rising bids, a bid at the buy-it-now price, and a client that sends one
\* request id twice.
MCBids == { Bid(u2, l1, 1, q2), Bid(u3, l1, 2, q3), Bid(u2, l1, 3, q2) }

\* A first bid and the one at the buy-it-now price that beats it.
TwoBids == { Bid(u2, l1, 1, q2), Bid(u3, l1, 3, q3) }

MCSymmetry == Permutations(Calls)
==============================================================================
