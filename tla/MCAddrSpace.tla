---------------------------- MODULE MCAddrSpace ----------------------------
(* Two processes and four page frames; a page is two addresses, so that a  *)
(* break may lie inside one.  sbrk(3) moves the break by a page and a half *)
(* and, once it is near the end of the addresses, below itself, as         *)
(* sbrk(-9) would.                                                         *)
EXTENDS AddrSpace, TLC

CONSTANTS p1, p2

Symmetry == Permutations(Procs)
============================================================================
