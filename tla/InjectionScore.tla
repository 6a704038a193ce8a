---------------------------- MODULE InjectionScore ----------------------------
(***************************************************************************)
(* The score of a text in guardrails/injection.py.  What the patterns find *)
(* is left open: a profile says which signatures match the normalised      *)
(* text, its leetspeak fold and each base64 payload in it, and which       *)
(* character tricks it shows.  Scores are counted in halves.               *)
(***************************************************************************)
EXTENDS Integers, Sequences, FiniteSetsExt

CONSTANTS
    Signatures,   \* the patterns
    Category,     \* Category[s]: the category of s
    Weight        \* Weight[s]: its weight in halves

ASSUME SignaturesAssumption == IsFiniteSet(Signatures) /\ Weight \in [Signatures -> {1, 2}]

Profile == [plain : SUBSET Signatures, folded : SUBSET Signatures,
            payloads : Seq(SUBSET Signatures), bidi : BOOLEAN, spliced : BOOLEAN]

Block == 2        \* a score of 1.0

Half(b) == IF b THEN 1 ELSE 0

(* _scan: each pattern counts once. *)
Scan(S) == MapThenSumSet(LAMBDA s : Weight[s], S)

NewCategories(p) == {Category[s] : s \in p.folded} \ {Category[s] : s \in p.plain}

(* The fold counts, all of it, when it shows a category the plain text did *)
(* not.                                                                    *)
FoldScore(p) == IF NewCategories(p) = {} THEN 0 ELSE Scan(p.folded)

(* Mutated form (of PayloadScore): a payload counts as it scores. *)
PayloadScoreRaw(p) ==
    LET hot == {i \in DOMAIN p.payloads : Scan(p.payloads[i]) > 0}
    IN  IF hot = {} THEN 0 ELSE Scan(p.payloads[Min(hot)])

(* The first payload that scores counts, and as 1.0 at least. *)
PayloadScore(p) ==
    LET hot == {i \in DOMAIN p.payloads : Scan(p.payloads[i]) > 0}
    IN  IF hot = {} THEN 0 ELSE Max({Scan(p.payloads[Min(hot)]), Block})

(* InjectionGuardrail._analyze. *)
Score(p) ==
    Scan(p.plain) + FoldScore(p) + PayloadScore(p) + Half(p.bidi) + Half(p.spliced)

(* The guardrail's threshold: 0 and none mean 1.0. *)
Threshold(configured) == IF configured = 0 THEN Block ELSE configured

Flagged(p, configured) == Score(p) >= Threshold(configured)

(***************************************************************************)
(* What the comments of _analyze say is counted: the signals of the text,  *)
(* those only the fold shows, the character tricks; and any payload with a *)
(* signal is enough.  (Reference, up to a threshold of 1.0.)               *)
(***************************************************************************)
Suspicious(p, configured) ==
    \/ \E i \in DOMAIN p.payloads : p.payloads[i] # {}
    \/ Scan(p.plain \cup {s \in p.folded : Category[s] \in NewCategories(p)})
       + Half(p.bidi) + Half(p.spliced) >= Threshold(configured)
===============================================================================
