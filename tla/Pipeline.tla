------------------------------- MODULE Pipeline -------------------------------
(***************************************************************************)
(* One conversation on its way through the guardrails (pipeline.py) and    *)
(* the complete reply on its way back, for both APIs.  The steps are those *)
(* of run_input, run_output_* and the toxicity check of the routes, each   *)
(* able to end the request.                                                *)
(*                                                                         *)
(* A text is a sequence of words and an injection profile.  A piece of     *)
(* PII, the token that stands for it and the mask of a redaction are words *)
(* of a kind of their own; how tokens get their numbers is in PIIVault.    *)
(***************************************************************************)
EXTENDS InjectionScore, SequencesExt

CONSTANTS
    Conversations,   \* the requests that may come
    Policies,        \* the guardrail settings of a policy
    Replies,         \* what the upstream may answer: a sequence of texts, the
                     \* choices of OpenAI or the text blocks of Anthropic
    Width,           \* Width[k]: characters of a word of kind k
    Toxic            \* the words the word list objects to, one after the other

(* A word of a text; what comes in has no tokens and no masks yet: what    *)
(* only looks like a token is a plain word (see PIIVault).                 *)
Word == [kind : {"plain", "pii", "token", "mask"}, name : STRING]
GivenText == [words : Seq([kind : {"plain", "pii"}, name : STRING]), profile : Profile]

Action == {"off", "redact", "tokenize", "block"}

ASSUME ConversationsAssumption ==
    \A c \in Conversations :
        /\ c.messages \in Seq([role : STRING, text : GivenText])
        /\ c.system \in GivenText

ASSUME PoliciesAssumption ==
    \A p \in Policies : p.pii \in Action /\ p.threshold \in Int /\ p.maxLength \in Nat

ASSUME RepliesAssumption ==
    /\ Replies \subseteq Seq(Seq(Word))
    /\ Toxic \in Seq(Word)
    /\ Width \in [{"plain", "pii", "token", "mask"} -> Nat]

VARIABLES
    policy, conversation,   \* given
    stage,     \* the step that is next
    working,   \* working_messages
    system,    \* working_system; the empty text if there is none
    vault,     \* the PII the vault has tokens for
    reply,     \* the texts of the reply
    verdict    \* the guardrail that refused, or "ok"

vars == <<policy, conversation, stage, working, system, vault, reply, verdict>>
given == <<policy, conversation>>

IsPII(word) == word.kind = "pii"
HasPII(text) == \E i \in DOMAIN text.words : IsPII(text.words[i])
PIIOf(text) == {text.words[i].name : i \in {j \in DOMAIN text.words : IsPII(text.words[j])}}

(* The words of texts put together with blanks (get_text of a list). *)
Joined(texts) == FlattenSeq(texts)

(* Their length in characters, the blanks between n texts included. *)
Length(words) == FoldSeq(LAMBDA w, n : Width[w.kind] + n, 0, words)

Mentions(words, phrase) ==
    phrase # <<>> /\ \E i \in 0..(Len(words) - Len(phrase)) :
                        SubSeq(words, i + 1, i + Len(phrase)) = phrase

Init ==
    /\ policy \in Policies
    /\ conversation \in Conversations
    /\ stage = "injection"
    /\ working = conversation.messages
    /\ system = conversation.system
    /\ vault = {}
    /\ reply = <<>>
    /\ verdict = "none"

-----------------------------------------------------------------------------

Refuse(guardrail) ==
    /\ stage' = "done"
    /\ verdict' = guardrail
    /\ UNCHANGED <<given, working, system, vault, reply>>

GoOn(next) ==
    /\ stage' = next
    /\ UNCHANGED <<given, working, system, vault, reply, verdict>>

(* InjectionGuardrail.check: each message of a user for itself. *)
Injected(messages) ==
    \E i \in DOMAIN messages :
        /\ messages[i].role = "user"
        /\ Flagged(messages[i].text.profile, policy.threshold)

CheckInjection ==
    /\ stage = "injection"
    /\ IF policy.injection /\ Injected(working)
       THEN Refuse("prompt_injection")
       ELSE GoOn("topic")

(* TopicFilterGuardrail.check: all messages together, so that a topic of   *)
(* several words may begin in one and end in the next.                     *)
OffTopic(messages) ==
    LET all == Joined([i \in DOMAIN messages |-> messages[i].text.words])
    IN  \E topic \in policy.topics : Mentions(all, topic)

(* A filter that is switched off is one without topics. *)
CheckTopics ==
    /\ stage = "topic"
    /\ IF OffTopic(working) THEN Refuse("topic_filter") ELSE GoOn("pii")

(* PIIGuardrail._sanitize. *)
Masked(word) ==
    CASE policy.pii = "tokenize" -> [kind |-> "token", name |-> word.name]
      [] policy.pii = "redact"   -> [kind |-> "mask", name |-> "redacted"]
      [] OTHER                   -> word

Sanitized(text) ==
    [text EXCEPT !.words = [i \in DOMAIN @ |-> IF IsPII(@[i]) THEN Masked(@[i]) ELSE @[i]]]

(* The tokens handed out for texts. *)
Tokenized(texts) ==
    IF policy.pii = "tokenize" THEN UNION {PIIOf(text) : text \in texts} ELSE {}

TextsOf(messages) == {messages[i].text : i \in DOMAIN messages}

(* Mutated form (of SanitizeMessages): the guardrail's refusal is not      *)
(* looked at.                                                              *)
SanitizeMessagesOnly ==
    /\ stage = "pii"
    /\ IF policy.pii = "off" THEN GoOn("upstream") ELSE
         /\ stage' = "system"
         /\ working' = [i \in DOMAIN working |->
                [working[i] EXCEPT !.text = Sanitized(@)]]
         /\ vault' = vault \cup Tokenized(TextsOf(working))
         /\ UNCHANGED <<given, system, reply, verdict>>

(* PIIGuardrail.check on the messages. *)
SanitizeMessages ==
    /\ stage = "pii"
    /\ IF policy.pii = "off" THEN GoOn("upstream")
       ELSE IF policy.pii = "block" /\ \E text \in TextsOf(working) : HasPII(text)
       THEN Refuse("pii")
       ELSE /\ stage' = "system"
            /\ working' = [i \in DOMAIN working |->
                   [working[i] EXCEPT !.text = Sanitized(@)]]
            /\ vault' = vault \cup Tokenized(TextsOf(working))
            /\ UNCHANGED <<given, system, reply, verdict>>

(* Mutated form (of SanitizeSystem): the system prompt is only looked at   *)
(* to refuse it.                                                           *)
SanitizeSystemUnmasked ==
    /\ stage = "system"
    /\ IF policy.pii = "block" /\ HasPII(system) THEN Refuse("pii") ELSE GoOn("upstream")

(* The same on Anthropic's system prompt, which OpenAI has as a message. *)
SanitizeSystem ==
    /\ stage = "system"
    /\ IF policy.pii = "block" /\ HasPII(system)
       THEN Refuse("pii")
       ELSE /\ stage' = "upstream"
            /\ system' = Sanitized(system)
            /\ vault' = vault \cup Tokenized({system})
            /\ UNCHANGED <<given, working, reply, verdict>>

-----------------------------------------------------------------------------

(* The upstream answers (external). *)
Answer ==
    /\ stage = "upstream"
    /\ reply' \in Replies
    /\ stage' = "reinject"
    /\ UNCHANGED <<given, working, system, vault, verdict>>

(* PIIVault.restore on a text: known tokens only. *)
Restored(words) ==
    [i \in DOMAIN words |->
        IF words[i].kind = "token" /\ words[i].name \in vault
        THEN [kind |-> "pii", name |-> words[i].name] ELSE words[i]]

(* Mutated form (of Reinject): only the first text is restored. *)
ReinjectFirst ==
    /\ stage = "reinject"
    /\ reply' = [i \in DOMAIN reply |-> IF i = 1 THEN Restored(reply[i]) ELSE reply[i]]
    /\ stage' = "validate"
    /\ UNCHANGED <<given, working, system, vault, verdict>>

(* run_output_*: tokens first, so that what is judged is what is sent. *)
Reinject ==
    /\ stage = "reinject"
    /\ reply' = [i \in DOMAIN reply |-> Restored(reply[i])]
    /\ stage' = "validate"
    /\ UNCHANGED <<given, working, system, vault, verdict>>

(* A text of the JSON the schema asks for, here one that starts with "{". *)
Conforms(words) == words # <<>> /\ words[1].name = "{"

(* _validate_text, of a text put together from n parts; maxLength 0 is no  *)
(* limit.                                                                  *)
Invalid(words, n) ==
    \/ policy.maxLength # 0 /\ Length(words) + (n - 1) > policy.maxLength
    \/ policy.schema /\ ~Conforms(words)

(* check and check_anthropic: choices one by one, blocks put together.     *)
(* Words are joined by nothing in Length, texts by a blank.                *)
InvalidReply ==
    IF conversation.api = "openai"
    THEN \E i \in DOMAIN reply : Invalid(reply[i], 1)
    ELSE Invalid(Joined(reply), Max({Len(reply), 1}))

Validate ==
    /\ stage = "validate"
    /\ IF InvalidReply THEN Refuse("output_validator") ELSE GoOn("toxicity")

(* What the toxicity check is given: the first choice, or all blocks. *)
Judged ==
    IF conversation.api = "openai"
    THEN IF reply = <<>> THEN <<>> ELSE reply[1]
    ELSE Joined(reply)

JudgeToxicity ==
    /\ stage = "toxicity"
    /\ IF policy.toxicity /\ Mentions(Judged, Toxic) THEN Refuse("toxicity")
       ELSE /\ stage' = "done" /\ verdict' = "ok"
            /\ UNCHANGED <<given, working, system, vault, reply>>

Next ==
    \/ CheckInjection \/ CheckTopics \/ SanitizeMessages \/ SanitizeSystem
    \/ Answer \/ Reinject \/ Validate \/ JudgeToxicity

Spec == Init /\ [][Next]_vars

-----------------------------------------------------------------------------
(* POST /playground/test: all guardrails on one message of a user, none of *)
(* them ends the test.                                                     *)
PlaygroundTest(text) ==
    LET message   == <<[role |-> "user", text |-> text]>>
        refused   == \/ policy.injection /\ Injected(message)
                     \/ OffTopic(message)
                     \/ policy.pii = "block" /\ HasPII(text)
        sanitized == IF policy.pii \in {"redact", "tokenize"} THEN Sanitized(text) ELSE text
    IN  [overall |-> IF refused THEN "blocked"
                     ELSE IF sanitized # text THEN "redacted" ELSE "passed",
         sanitized |-> sanitized]

-----------------------------------------------------------------------------

InputRefusals == {"prompt_injection", "topic_filter", "pii"}
Forwarded == stage \in {"upstream", "reinject", "validate", "toxicity"}
             \/ verdict \in {"output_validator", "toxicity", "ok"}

(* With the PII guardrail on, no PII of messages or system prompt goes     *)
(* upstream, and what went in its place can be brought back: each token is *)
(* in the vault (run_input 70-92).                                         *)
NothingRawUpstream ==
    (Forwarded /\ policy.pii # "off") =>
        \A text \in TextsOf(working) \cup {system} :
            /\ ~HasPII(text)
            /\ \A i \in DOMAIN text.words :
                  text.words[i].kind = "token" => text.words[i].name \in vault

(* The playground (main.py 292-366), which runs the guardrails on its own  *)
(* and in full, foretells what the proxy, which stops at the first one,    *)
(* does with the message: refuse it, or forward it as shown.               *)
PlaygroundForetells ==
    LET text == conversation.messages[1].text
        test == PlaygroundTest(text)
    IN  (Len(conversation.messages) = 1 /\ conversation.messages[1].role = "user"
         /\ conversation.system.words = <<>>) =>
            /\ verdict \in InputRefusals => test.overall = "blocked"
            /\ Forwarded => /\ test.overall = IF working[1].text = text
                                              THEN "passed" ELSE "redacted"
                            /\ working[1].text = test.sanitized

(* What the client of a reply that is passed on gets is fully restored and *)
(* was judged as such: every text is within the length allowed with the    *)
(* values in it, and as far as they are looked at the texts are free of    *)
(* the word list.  Choices are of the schema each for itself, and only the *)
(* first of them faces the word list; blocks are of the schema put         *)
(* together, and together within the length and free of the list.          *)
PassedReplyWasJudged ==
    verdict = "ok" =>
        /\ \A i \in DOMAIN reply :
              /\ reply[i] = Restored(reply[i])
              /\ policy.maxLength # 0 => Length(reply[i]) <= policy.maxLength
        /\ policy.toxicity => reply = <<>> \/ ~Mentions(reply[1], Toxic)
        /\ conversation.api = "openai" /\ policy.schema =>
              \A i \in DOMAIN reply : Conforms(reply[i])
        /\ conversation.api # "openai" =>
              /\ policy.maxLength # 0 =>
                    Length(Joined(reply)) + Len(reply) - 1 <= policy.maxLength
              /\ policy.schema => Conforms(Joined(reply))
              /\ policy.toxicity =>
                    /\ ~Mentions(Joined(reply), Toxic)
                    /\ \A i \in DOMAIN reply : ~Mentions(reply[i], Toxic)

(* Up to the default threshold of 1.0 the score refuses exactly what the   *)
(* comments of _analyze say it should, although a fold with a new category *)
(* counts the signals of the plain text a second time (injection.py        *)
(* 170-201).                                                               *)
InjectionAsDocumented ==
    (stage # "injection" /\ policy.injection /\ policy.threshold <= Block) =>
        (verdict = "prompt_injection" <=>
            \E i \in DOMAIN conversation.messages :
                /\ conversation.messages[i].role = "user"
                /\ Suspicious(conversation.messages[i].text.profile, policy.threshold))
===============================================================================
