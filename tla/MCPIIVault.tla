------------------------------ MODULE MCPIIVault ------------------------------
(***************************************************************************)
(* PIIVault with two types and two values, one of which occurs as both     *)
(* types, and with literals that may collide with the first two tokens of  *)
(* a type; all texts of up to two items.                                   *)
(***************************************************************************)
EXTENDS PIIVault

Found(type, value) == [kind |-> "pii", type |-> type, value |-> value]

MCItems == {Found("email", "a"), Found("email", "b"), Found("phone", "a"),
            TokenOf("email", 1), TokenOf("email", 2), TokenOf("phone", 1)}

MCTexts == UNION {[1..n -> MCItems] : n \in 1..2}
===============================================================================
