------------------------------ MODULE Services ------------------------------
(***************************************************************************)
(* The life of a service process (ServiceProcess) with the state of the    *)
(* handlers that depend on it: the sessions of Auth and the queries of the *)
(* Lot service.  A behaviour is about one endpoint; the service it belongs *)
(* to decides how the process starts, and what it serves.                  *)
(***************************************************************************)
EXTENDS ServiceProcess, Session, LotQueries

allVars == <<processVars, sessionVars, queryVars>>

Init == ProcessInit /\ SessionInit /\ QueriesInit

\* The process ends, with everything that is in its memory.
MemoryGone == AuthGone /\ QueriesGone
ProcessEnds == Ends /\ MemoryGone

\* fatal error: concurrent map read and map write.
RuntimeEndsIt == endpoint = "lists" /\ Alive /\ RacingAccess /\ Gone /\ UNCHANGED faults /\ MemoryGone

Next ==
  \/ ProcessStep /\ UNCHANGED <<sessionVars, queryVars>>
  \/ ProcessEnds
  \/ RuntimeEndsIt
  \/ endpoint = "sessions" /\ Alive /\ AuthServes /\ UNCHANGED <<processVars, queryVars>>
  \/ endpoint = "sessions" /\ TimePasses /\ UNCHANGED <<processVars, queryVars>>
  \/ endpoint = "lists" /\ Alive /\ LotServes /\ UNCHANGED <<processVars, sessionVars>>

Spec == Init /\ [][Next]_allVars
FairSpec == Spec /\ ProcessFairness
============================================================================
