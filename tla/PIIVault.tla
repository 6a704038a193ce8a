------------------------------- MODULE PIIVault -------------------------------
(***************************************************************************)
(* The vault of one request (guardrails/pii.py): PIIGuardrail.check takes  *)
(* the texts of the messages, then the system prompt, and replaces each    *)
(* piece of PII by a token; the vault remembers what is behind each token, *)
(* so that the reply can be given back its values.                         *)
(*                                                                         *)
(* A text is what the guardrail sees in it: a sequence of pieces of PII    *)
(* and of strings that already look like tokens, in the order they stand.  *)
(***************************************************************************)
EXTENDS Integers, Sequences, FiniteSets

CONSTANTS
    Types,     \* the types of PII the policy asks for
    Values,    \* values that occur as PII
    Texts,     \* the texts a request may be made of
    MaxTexts   \* bound: texts in one request

PII   == [kind : {"pii"}, type : Types, value : Values]
Token == [kind : {"token"}, type : Types, n : Nat]

ASSUME TextsAssumption == Texts \subseteq Seq(PII \cup Token)
ASSUME MaxTextsAssumption == MaxTexts \in Nat

VARIABLES
    source,         \* the texts as they came
    out,            \* the texts as they go upstream
    counters,       \* _counters, 0 where the code has no entry yet
    tokenForValue,  \* _token_for_value
    valueForToken   \* _value_for_token

vars == <<source, out, counters, tokenForValue, valueForToken>>

TokenOf(type, n) == [kind |-> "token", type |-> type, n |-> n]

IsPII(item) == item.kind = "pii"

HasPII(text) == \E k \in DOMAIN text : IsPII(text[k])

(* The literals of a text: what already looks like a token of the type. *)
Literals(text, type) ==
    {text[k].n : k \in {j \in DOMAIN text : ~IsPII(text[j]) /\ text[j].type = type}}

(* f with x mapped to y as well. *)
With(f, x, y) == [z \in DOMAIN f \cup {x} |-> IF z = x THEN y ELSE f[z]]

Largest(S) == CHOOSE x \in S : \A y \in S : y <= x

Init ==
    /\ source = <<>> /\ out = <<>>
    /\ counters = [t \in Types |-> 0]
    /\ tokenForValue = <<>> /\ valueForToken = <<>>

Current == Len(source)
Busy == Current > 0 /\ Len(out[Current]) < Len(source[Current])

(* Mutated form (of ReserveExisting): the counters start at the literals' *)
(* count instead of past the largest.                                      *)
ReserveExistingCount(text) ==
    [t \in Types |-> LET c == Cardinality(Literals(text, t))
                     IN  IF c > counters[t] THEN c ELSE counters[t]]

(* Mutated form (of ReserveExisting): the literal's number replaces the    *)
(* counter even when it is smaller.                                        *)
ReserveExistingReset(text) ==
    [t \in Types |-> IF Literals(text, t) = {} THEN counters[t]
                     ELSE Largest(Literals(text, t))]

(* The counters once they are past the literals of text. *)
ReserveExisting(text) ==
    [t \in Types |-> Largest(Literals(text, t) \cup {counters[t]})]

(* Mutated form (of Begin): the text goes on as it came. *)
BeginUnmasked(text) ==
    /\ ~Busy /\ Len(source) < MaxTexts
    /\ source' = Append(source, text)
    /\ out' = Append(out, text)
    /\ UNCHANGED <<counters, tokenForValue, valueForToken>>

(* The next text is taken up.  Without PII it goes through as it is, and   *)
(* its literals are not reserved.                                          *)
Begin(text) ==
    /\ ~Busy /\ Len(source) < MaxTexts
    /\ source' = Append(source, text)
    /\ IF HasPII(text)
       THEN /\ counters' = ReserveExisting(text)
            /\ out' = Append(out, <<>>)
       ELSE /\ out' = Append(out, text)
            /\ UNCHANGED counters
    /\ UNCHANGED <<tokenForValue, valueForToken>>

(* The item of the current text that is to be written next. *)
NextItem == source[Current][Len(out[Current]) + 1]

Write(item) == out' = [out EXCEPT ![Current] = Append(@, item)]

Copy ==
    /\ Busy /\ ~IsPII(NextItem)
    /\ Write(NextItem)
    /\ UNCHANGED <<source, counters, tokenForValue, valueForToken>>

Key(item) == <<item.type, item.value>>

(* Mutated form (of Tokenize): each occurrence gets a token of its own. *)
TokenizeAfresh ==
    /\ Busy /\ IsPII(NextItem)
    /\ LET token == TokenOf(NextItem.type, counters[NextItem.type] + 1)
       IN  /\ counters' = [counters EXCEPT ![NextItem.type] = @ + 1]
           /\ tokenForValue' = With(tokenForValue, Key(NextItem), token)
           /\ valueForToken' = With(valueForToken, token, NextItem.value)
           /\ Write(token)
    /\ UNCHANGED source

(* A piece of PII becomes its token: the one its value already has, else   *)
(* the next number of its type.                                            *)
Tokenize ==
    /\ Busy /\ IsPII(NextItem)
    /\ IF Key(NextItem) \in DOMAIN tokenForValue
       THEN /\ Write(tokenForValue[Key(NextItem)])
            /\ UNCHANGED <<counters, tokenForValue, valueForToken>>
       ELSE LET n     == counters[NextItem.type] + 1
                token == TokenOf(NextItem.type, n)
            IN  /\ counters' = [counters EXCEPT ![NextItem.type] = n]
                /\ tokenForValue' = With(tokenForValue, Key(NextItem), token)
                /\ valueForToken' = With(valueForToken, token, NextItem.value)
                /\ Write(token)
    /\ UNCHANGED source

Next == (\E text \in Texts : Begin(text)) \/ Copy \/ Tokenize

Spec == Init /\ [][Next]_vars

-----------------------------------------------------------------------------

(* What restore makes of a token: the value behind it, if there is one. *)
RestoredItem(item) ==
    IF item \in DOMAIN valueForToken
    THEN [kind |-> "pii", type |-> item.type, value |-> valueForToken[item]]
    ELSE item

(* Every variable holds what the guardrail puts there. *)
TypeOK ==
    /\ source \in Seq(Texts) /\ Len(source) <= MaxTexts
    /\ out \in Seq(Seq(Token)) /\ Len(out) = Len(source)
    /\ \A i \in DOMAIN out : Len(out[i]) <= Len(source[i])
    /\ counters \in [Types -> Nat]
    /\ DOMAIN tokenForValue \subseteq Types \X Values
    /\ \A key \in DOMAIN tokenForValue : tokenForValue[key] \in Token
    /\ DOMAIN valueForToken \subseteq Token
    /\ \A token \in DOMAIN valueForToken : valueForToken[token] \in Values

(* The two maps of the vault are each other's inverse, so that no two      *)
(* values share a token and no value has two: "the same value always maps  *)
(* to the same token within a request" (README:257; pii.py 111-120).       *)
VaultIsOneToOne ==
    /\ \A key \in DOMAIN tokenForValue :
          /\ tokenForValue[key] \in DOMAIN valueForToken
          /\ tokenForValue[key].type = key[1]
          /\ valueForToken[tokenForValue[key]] = key[2]
    /\ \A token \in DOMAIN valueForToken :
          /\ <<token.type, valueForToken[token]>> \in DOMAIN tokenForValue
          /\ tokenForValue[<<token.type, valueForToken[token]>>] = token

(* A model that repeats what it was sent gives the caller the caller's own *)
(* words back: every piece of PII comes back as the very value that stood  *)
(* there, also after later texts have added to the vault                   *)
(* (pipeline.py 98-103, pii.py 122-127).                                   *)
EchoIsRestored ==
    \A i \in DOMAIN out : \A k \in DOMAIN out[i] :
        IsPII(source[i][k]) => RestoredItem(out[i][k]) = source[i][k]

(* The text number i got this token for a piece of PII. *)
GivenIn(token, i) ==
    \E k \in DOMAIN out[i] : IsPII(source[i][k]) /\ out[i][k] = token

(* Reserving works from a text on: what looks like a token in a text with  *)
(* PII is never the token the vault gives to a value it first met in that  *)
(* text or in a later one (pii.py 103-109, 177-178).                       *)
ReservedLiteralsSurvive ==
    \A i \in DOMAIN source : \A k \in DOMAIN source[i] :
        HasPII(source[i]) /\ source[i][k] \in DOMAIN valueForToken
            => \E j \in 1..(i - 1) : GivenIn(source[i][k], j)

(* "a client-supplied literal [PII_EMAIL_1] can never alias a vault entry  *)
(* and be swapped for someone's real value on restore" (pii.py:104-106):   *)
(* a literal comes back as it was.                                         *)
LiteralsSurvive ==
    \A i \in DOMAIN out : \A k \in DOMAIN out[i] :
        ~IsPII(source[i][k]) => RestoredItem(out[i][k]) = source[i][k]
===============================================================================
