------------------------------- MODULE MCSFS -------------------------------
(***************************************************************************)
(* TLC instance of SFS: the clients are interchangeable, and so are names. *)
(***************************************************************************)
EXTENDS SFS, TLC

Symmetry == Permutations(Clients) \cup Permutations(Names)
=============================================================================
