----------------------------- MODULE LotQueries -----------------------------
(***************************************************************************)
(* The queries of the Lot service, while lots are sold and bids are made.  *)
(* FindByOwnerID reads the lots, and then their bids, without a            *)
(* transaction; FindAvailable is one statement.  Both then ask for the     *)
(* logins of the users they found: the answers of the User service are     *)
(* kept in a map that all requests share without a lock.                   *)
(*                                                                         *)
(* All lots here are of one owner; searchString and createdAfter, which    *)
(* only narrow a list, are left out.  What lots and bids may do is taken   *)
(* from Auction: an active lot gets bids, a lot is decided once.           *)
(*                                                                         *)
(* Sources: lot/infrastructure/postgres/lotqueryservice.go, lot/           *)
(* infrastructure/user/client.go, lot transport/http/server.go.            *)
(***************************************************************************)
EXTENDS Integers, Sequences

CONSTANTS
  Lots, Bidders, Owner,
  Readers,   \* goroutines that serve queries
  MaxBids    \* BOUND of the bids of a lot

ASSUME QueriesAssumption == Owner \notin Bidders /\ MaxBids \in Nat

VARIABLES
  status,   \* lot -> its status
  bids,     \* lot -> bidders, the last one leads
  logins,   \* userLoginMap: the users whose login it has
  reader    \* reader -> [pc, query, rows, bids, missing]

queryVars == <<status, bids, logins, reader>>

LeadsIn(seq, u) == seq # <<>> /\ seq[Len(seq)] = u

(* A reader has rows: lot -> status; the bids it has read; and the users   *)
(* whose logins it still needs.                                            *)
NoQuery == [kind |-> "none", user |-> Owner, participation |-> FALSE, won |-> FALSE]
NoRows == [l \in {} |-> Lots]
IdleReader == [pc |-> "idle", query |-> NoQuery, rows |-> NoRows, bids |-> NoRows, missing |-> {}]

QueriesInit ==
  /\ status = [l \in Lots |-> "active"]
  /\ bids = [l \in Lots |-> <<>>]
  /\ logins = {}
  /\ reader = [q \in Readers |-> IdleReader]

----------------------------------------------------------------------------
(* Lots and bids.                                                          *)

StoreBid(l, u) ==
  /\ status[l] = "active"
  /\ Len(bids[l]) < MaxBids
  /\ bids' = [bids EXCEPT ![l] = Append(@, u)]
  /\ UNCHANGED <<status, logins, reader>>

\* ProcessCompletedLots; to the queries "sent" and "received" are the same as
\* "finished".
DecideLot(l) ==
  /\ status[l] = "active"
  /\ status' = [status EXCEPT ![l] = IF bids[l] = <<>> THEN "closed" ELSE "finished"]
  /\ UNCHANGED <<bids, logins, reader>>

----------------------------------------------------------------------------
(* The statements.                                                         *)

TablesUnchanged == UNCHANGED <<status, bids, logins>>
Some(f, S) == [l \in S |-> f[l]]
BiddersIn(f) == UNION { { f[l][i] : i \in DOMAIN f[l] } : l \in DOMAIN f }

\* GET lots/my, the first statement: the lots.  Without lots there is no second.
FindByOwnerID(q) ==
  /\ reader[q].pc = "idle"
  /\ reader' = [reader EXCEPT ![q] =
       [IdleReader EXCEPT !.pc = "lots", !.query = [NoQuery EXCEPT !.kind = "owned"],
                          !.rows = status]]
  /\ TablesUnchanged

\* The second statement: the bids of these lots.
LotBidsMap(q) ==
  /\ reader[q].pc = "lots"
  /\ LET found == Some(bids, DOMAIN reader[q].rows)
     IN  reader' = [reader EXCEPT ![q] =
               [@ EXCEPT !.pc = "logins", !.bids = found, !.missing = BiddersIn(found)]]
  /\ TablesUnchanged

\* One statement finds lots with their last bids, and the owner's login follows.
Select(q, query, S) ==
  /\ reader[q].pc = "idle"
  /\ reader' = [reader EXCEPT ![q] =
       [pc |-> "logins", query |-> query, rows |-> Some(status, S),
        bids |-> Some(bids, S), missing |-> IF S = {} THEN {} ELSE {Owner}]]
  /\ TablesUnchanged

\* Mutant of InStatus: a lot is won by who leads.
InAnyStatus(l, won) == won \/ status[l] = "active"

\* "check status" of FindAvailable.
InStatus(l, won) == (status[l] = "active") # won

\* The conditions of FindAvailable; those on the status only without
\* participation.
Available(query) ==
  { l \in Lots :
      /\ IF query.participation
         THEN query.user \in BiddersIn(Some(bids, {l}))
         ELSE InStatus(l, query.won)
      /\ query.won => LeadsIn(bids[l], query.user)
      /\ query.user # Owner }

\* GET lots.
FindAvailable(q) ==
  \E u \in Bidders \union {Owner}, participation, won \in BOOLEAN :
    LET query == [kind |-> "available", user |-> u, participation |-> participation, won |-> won]
    IN  Select(q, query, Available(query))

\* GET lot.
Get(q) == \E l \in Lots : Select(q, [NoQuery EXCEPT !.kind = "one"], {l})

----------------------------------------------------------------------------
(* GetUserLogin.                                                           *)

\* A login that is in the map.
KnownLogin(q) ==
  /\ reader[q].pc = "logins"
  /\ reader[q].missing \intersect logins # {}
  /\ reader' = [reader EXCEPT ![q] = [@ EXCEPT !.missing = reader[q].missing \ logins]]
  /\ TablesUnchanged

\* The User service is asked, and the map is written.
AskUserService(q) ==
  /\ reader[q].pc = "logins"
  /\ reader[q].missing \ logins # {}
  /\ reader' = [reader EXCEPT ![q] = [@ EXCEPT !.pc = "writing"]]
  /\ TablesUnchanged

KeepLogin(q) ==
  /\ reader[q].pc = "writing"
  /\ \E u \in reader[q].missing :
       /\ logins' = logins \union {u}
       /\ reader' = [reader EXCEPT ![q] =
                       [@ EXCEPT !.pc = "logins", !.missing = reader[q].missing \ {u}]]
  /\ UNCHANGED <<status, bids>>

\* 500: the User service, or the database, does not answer.
QueryFails(q) ==
  /\ reader[q].pc \in {"lots", "logins"}
  /\ reader' = [reader EXCEPT ![q] = IdleReader]
  /\ TablesUnchanged

\* The map is used by one request while another one writes it: the Go runtime
\* notices, if it does, and ends the process.
RacingAccess ==
  \E p, q \in Readers :
    /\ p # q
    /\ reader[p].pc = "writing"
    /\ \/ reader[q].pc = "writing"
       \/ reader[q].pc = "logins" /\ reader[q].missing # {}

Answered(q) == reader[q].pc = "logins" /\ reader[q].missing = {}

WriteLots(q) ==
  /\ Answered(q)
  /\ reader' = [reader EXCEPT ![q] = IdleReader]
  /\ TablesUnchanged

----------------------------------------------------------------------------
Query(q) ==
  \/ FindByOwnerID(q) \/ LotBidsMap(q) \/ FindAvailable(q) \/ Get(q)
  \/ KnownLogin(q) \/ AskUserService(q) \/ KeepLogin(q)
  \/ QueryFails(q) \/ WriteLots(q)

LotServes ==
  \/ \E l \in Lots : DecideLot(l) \/ \E u \in Bidders : StoreBid(l, u)
  \/ \E q \in Readers : Query(q)

\* The map and the queries under way are lost with the process.
QueriesGone ==
  /\ logins' = {}
  /\ reader' = [q \in Readers |-> IdleReader]
  /\ UNCHANGED <<status, bids>>

----------------------------------------------------------------------------
\* description.md: a user can ask for the lots he has won.  What a client is
\* told of a lot that is no longer active is final, though its bids may be read
\* later than its status: all its bids are listed, none is added, and a lot
\* listed as won is won by the user who asked.  (With participation=1 and win=1
\* the status is not looked at, and lots he leads are listed.)
ListsAreTrue ==
  \A q \in Readers : Answered(q) =>
    \A l \in DOMAIN reader[q].rows :
      LET query == reader[q].query IN
      /\ reader[q].rows[l] # "active" => reader[q].bids[l] = bids[l]
      /\ query.won /\ ~query.participation =>
           status[l] # "active" /\ LeadsIn(bids[l], query.user)
============================================================================
