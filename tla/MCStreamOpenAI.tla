---------------------------- MODULE MCStreamOpenAI ----------------------------
(***************************************************************************)
(* StreamOpenAI with one token in the vault, [N1], whose value is longer   *)
(* than the token, and all texts over the symbols tokens are made of and   *)
(* one more.                                                               *)
(***************************************************************************)
EXTENDS StreamOpenAI, TLC

MCToken == <<"[", "N", "1", "]">>
MCVault == MCToken :> <<"v", "v", "v", "v", "v">>
MCPhrase == <<"x", "x">>
MCSymbols == {"[", "N", "1", "]", "x"}
\* The schema: texts without an opening bracket.
MCConforming == Seq(MCSymbols \ {"["})
================================================================================
