--------------------------- MODULE MCNotification ---------------------------
(* A user is outbid and wins the lot all the same.  The first event is in    *)
(* the stream before the Notification service starts; two of its processes   *)
(* may run at a time, the old one and its successor.                         *)
EXTENDS Notification

CONSTANTS owner, winner

Event(t, u) == [type |-> t, owner |-> owner, user |-> u]

MCEventOf == <<Event("bid_outbid", winner), Event("lot_won", winner)>>
=============================================================================
