---------------------------- MODULE MCBillingTx ----------------------------
(* Two users.  u2 owns lot l1 and u1 owns lot l2.                           *)
EXTENDS BillingTx, TLC

CONSTANTS u1, u2, l1, l2, r1, r2, r3, r4, e1, e2, e3, e4, e5, h1, h2, c1, c2

Job(k, id, user, owner, l, a) ==
  [kind |-> k, id |-> id, user |-> user, owner |-> owner, lot |-> l, amount |-> a]

MCNameRank == [u \in Users |-> IF u = u1 THEN 1 ELSE 2]
DistinctKeys == [u \in Users |-> u]

Registrations ==
  { Job("registered", e1, u1, u1, l1, 1), Job("registered", e2, u2, u2, l1, 1) }

\* Two payments of u1 race for the same funds and the same lot; the release
\* fits one of them, the settlement the other.  Settlements go in both
\* directions: u1 wins l1 from u2, u2 wins l2 from u1.
MCJobs == Registrations \union
  { Job("topUp", r1, u1, u1, l1, 2),
    Job("payment", r2, u1, u1, l1, 1), Job("payment", r3, u1, u1, l1, 2),
    Job("released", e3, u1, u1, l1, 2), Job("received", e4, u1, u2, l1, 1),
    Job("payment", r4, u2, u2, l2, 1), Job("received", e5, u2, u1, l2, 1) }

\* The goroutines are interchangeable, and so are the consumers.
MCSymmetry == Permutations(HttpWorkers) \union Permutations(Consumers)
============================================================================
