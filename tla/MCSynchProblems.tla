-------------------------- MODULE MCSynchProblems --------------------------
(* Four cars: one more than allow3sem lets in, and as many as a ring of       *)
(* waiting cars needs.  Two whales of each kind: enough for a second match    *)
(* with a whale that is on its way out.                                       *)
EXTENDS SynchProblems

CONSTANTS c1, c2, c3, c4

MCCars == {c1, c2, c3, c4}
=============================================================================
