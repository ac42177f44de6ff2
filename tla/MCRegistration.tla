--------------------------- MODULE MCRegistration ---------------------------
(* A small instance of Registration: see MCRegistration.cfg.                *)
EXTENDS Registration, TLC
=============================================================================
