--------------------------- MODULE MCStreamAnthropic ---------------------------
(***************************************************************************)
(* StreamAnthropic with one token in the vault, [N1], and all texts over   *)
(* the four symbols of a token; the guardrails object to "]]", which may   *)
(* come about across two deltas or two blocks.                             *)
(***************************************************************************)
EXTENDS StreamAnthropic, TLC

MCToken == <<"[", "N", "1", "]">>
MCVault == MCToken :> <<"v", "v">>
MCPhrase == <<"]", "]">>
MCSymbols == {"[", "N", "1", "]"}
\* The schema: texts without an opening bracket.
MCConforming == Seq(MCSymbols \ {"["})
================================================================================
