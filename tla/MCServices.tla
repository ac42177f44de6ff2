----------------------------- MODULE MCServices -----------------------------
(***************************************************************************)
(* One process of each service.  Two overlapping requests with one id; the *)
(* session of a user; two queries of a lot.                                *)
(***************************************************************************)
EXTENDS Services, TLC

CONSTANTS c1, c2, r1

\* A client repeats a request while it is served; other ids do not touch it.
MCRequestOf == (c1 :> r1) @@ (c2 :> r1)

\* Where the memory of the process makes the state, its queries end it
\* themselves.
MCFaults == [e \in DOMAIN ServiceOf |->
               CASE e = "sessions" -> 1 [] e = "lists" -> 0 [] OTHER -> 2]
============================================================================
