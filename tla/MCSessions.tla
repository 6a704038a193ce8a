------------------------------ MODULE MCSessions ------------------------------
(***************************************************************************)
(* Sessions in two processes.  Users can be exchanged, and so can          *)
(* processes.                                                              *)
(***************************************************************************)
EXTENDS Sessions, TLC

Symmetry == Permutations(Users) \cup Permutations(Workers)
===============================================================================
