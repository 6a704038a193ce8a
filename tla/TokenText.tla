------------------------------- MODULE TokenText -------------------------------
(***************************************************************************)
(* Text as the PII vault sees it, and the restoring of tokens in it        *)
(* (guardrails/pii.py, PIIVault.restore and StreamRestorer).               *)
(*                                                                         *)
(* A text is a sequence of symbols: the brackets, "N" for a piece of a     *)
(* token's name (PII_EMAIL_), "1" for a digit, and others for anything     *)
(* else.  A token is "[", name, number, "]"; chunks are cut between        *)
(* symbols, so a token may arrive in up to as many pieces as it has.       *)
(***************************************************************************)
EXTENDS Integers, Sequences, SequencesExt

CONSTANT Vault    \* the value behind each token the vault has handed out

ASSUME VaultAssumption ==
    /\ IsFiniteSet(DOMAIN Vault)
    /\ \A token \in DOMAIN Vault :
          /\ Len(token) > 0 /\ Len(Vault[token]) > 0
          /\ Vault[token] \in Seq(ToSet(Vault[token]))

AllAre(s, first, last, symbol) == \A i \in first..last : s[i] = symbol

(* Does s[i..j] have the shape of a token (_TOKEN_RE)? *)
TokenAt(s, i, j) ==
    /\ i + 3 <= j
    /\ s[i] = "[" /\ s[j] = "]"
    /\ \E k \in (i + 1)..(j - 2) : AllAre(s, i + 1, k, "N") /\ AllAre(s, k + 1, j - 1, "1")

(* The part of a restored text that stands for position i of s: the value  *)
(* where a known token begins, nothing inside one, else the symbol itself. *)
RestoredAt(s, i) ==
    LET known == {span \in (1..i) \X (i..Len(s)) :
                     /\ TokenAt(s, span[1], span[2])
                     /\ SubSeq(s, span[1], span[2]) \in DOMAIN Vault}
    IN  IF known = {} THEN <<s[i]>>
        ELSE LET span == CHOOSE p \in known : TRUE
             IN  IF span[1] = i THEN Vault[SubSeq(s, span[1], span[2])] ELSE <<>>

Restore(s) == FlattenSeq([i \in 1..Len(s) |-> RestoredAt(s, i)])

(* The end of a text that could be the beginning of a token (_PARTIAL). *)
Partial(s) ==
    /\ Len(s) > 0 /\ s[1] = "["
    /\ \/ Len(s) = 1
       \/ \E k \in 2..Len(s) : AllAre(s, 2, k, "N") /\ AllAre(s, k + 1, Len(s), "1")

(* Where the text that must be held back begins. *)
HoldFrom(s) ==
    Min({i \in 1..Len(s) : Partial(SubSeq(s, i, Len(s)))} \cup {Len(s) + 1})

(***************************************************************************)
(* StreamRestorer.feed on buffer buf: what goes out, and what is kept.     *)
(***************************************************************************)
Feed(buf, text) ==
    LET s == buf \o text
        h == HoldFrom(s)
    IN  [out |-> Restore(SubSeq(s, 1, h - 1)), buf |-> SubSeq(s, h, Len(s))]
================================================================================
