------------------------------ MODULE MCAccounts ------------------------------
(***************************************************************************)
(* Accounts with two users, one of whom buys plans and is edited while the *)
(* other shares the file.  The paid plans can be exchanged.                *)
(***************************************************************************)
EXTENDS Accounts, TLC

PlanSymmetry == Permutations(PaidPlans)
===============================================================================
