----------------------------- MODULE StreamGuards -----------------------------
(***************************************************************************)
(* The output guardrails of a stream, the same for both providers: after   *)
(* each piece of text the whole text so far is judged, by its length       *)
(* (pipeline.check_stream_chunk) and by the toxicity checker               *)
(* (toxicity.check_stream).                                                *)
(***************************************************************************)
EXTENDS TokenText

CONSTANTS
    Symbols,        \* the symbols upstream text is made of
    MaxChunk,       \* bound: symbols in one piece of text
    MaxLength,      \* output.max_length of the policy, which is set
    Conforming,     \* texts output.json_schema lets pass: all, when there is none
    Providers,      \* values of toxicity.provider: "wordlist", "ml" or "off"
    Interval,       \* _STREAM_CHECK_INTERVAL
    Phrase,         \* a text the toxicity check objects to
    MaxText         \* bound: symbols the upstream sends in all

ASSUME GuardsAssumption ==
    /\ MaxChunk \in Nat \ {0}
    /\ MaxLength \in Nat \ {0}
    /\ Providers \subseteq {"wordlist", "ml", "off"}
    /\ Interval \in Nat \ {0}
    /\ Len(Phrase) \in Nat \ {0}
    /\ MaxText \in Nat

VARIABLES
    provider,       \* the provider of the request's policy
    hasTokens,      \* whether the vault has handed out tokens: is there a restorer?
    accumulated,    \* upstream text so far
    buf,            \* the restorer's held-back text
    toxLast,        \* tox_last_len
    state,          \* open, or how the generator ended
    rows            \* audit rows written

policy == <<provider, hasTokens>>

PolicyInit == provider \in Providers /\ hasTokens \in BOOLEAN

Text == UNION {[1..n -> Symbols] : n \in 1..MaxChunk}

Toxic(s) ==
    \E i \in 0..(Len(s) - Len(Phrase)) : SubSeq(s, i + 1, i + Len(Phrase)) = Phrase

(* Mutated form (of TooLong): a text that just fits is refused. *)
TooLongInclusive(s) == Len(s) >= MaxLength

(* The raw text against the maximal length. *)
TooLong(s) == Len(s) > MaxLength

(* Mutated form (of Due): asked at the multiples of the interval only. *)
DueAtMultiples(s, last) == Len(s) % Interval = 0

(* An ML provider is asked only when the text has grown by the interval    *)
(* since it was last asked, at length last.                                *)
Due(s, last) == Len(s) - last >= Interval

(* The length at which the provider was last asked, once s is judged. *)
LastAsked(s, last) ==
    IF provider = "ml" /\ ~TooLong(s) /\ Due(s, last) THEN Len(s) ELSE last

(* The checks that may stop s. *)
Rejected(s, last) ==
    \/ TooLong(s)
    \/ provider = "wordlist" /\ Toxic(s)
    \/ provider = "ml" /\ Due(s, last) /\ Toxic(s)

(***************************************************************************)
(* What becomes of a complete response s, tokens restored: the validator's *)
(* _validate_text, its length and then its schema, and after it the word   *)
(* list (what an ML provider would say is not told).                       *)
(***************************************************************************)
CompleteRejected(s) ==
    \/ Len(s) > MaxLength
    \/ s \notin Conforming
    \/ provider = "wordlist" /\ Toxic(s)

(* The checks that may let s go: an ML provider that fails lets it go too. *)
Accepted(s, last) ==
    /\ ~TooLong(s)
    /\ ~(provider = "wordlist" /\ Toxic(s))

(* What a response of text s comes to at the client. *)
Reply(s) == IF hasTokens THEN Restore(s) ELSE s
===============================================================================
