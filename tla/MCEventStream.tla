--------------------------- MODULE MCEventStream ---------------------------
(* A small instance of EventStream.                                        *)
EXTENDS EventStream, TLC

MCSymmetry == Permutations(Writers)
============================================================================
