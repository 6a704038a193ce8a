------------------------------ MODULE MCPipeline ------------------------------
(***************************************************************************)
(* Pipeline with four signatures in two categories, a topic of two words,  *)
(* and texts that show one thing each or two at once.                      *)
(***************************************************************************)
EXTENDS Pipeline

MCSignatures == {"override", "must_obey", "hijack", "you_are_now"}
MCCategory == [s \in MCSignatures |->
    IF s \in {"override", "must_obey"} THEN "override" ELSE "persona"]
MCWeight == [s \in MCSignatures |-> IF s \in {"override", "hijack"} THEN 2 ELSE 1]

Plain(name) == [kind |-> "plain", name |-> name]
Value(name) == [kind |-> "pii", name |-> name]
TokenFor(name) == [kind |-> "token", name |-> name]

Quiet == [plain |-> {}, folded |-> {}, payloads |-> <<>>, bidi |-> FALSE, spliced |-> FALSE]

(* What the plain scan finds, and what its fold may find besides. *)
Profiles ==
    {[Quiet EXCEPT !.plain = plain, !.folded = folded] :
        plain \in {{}, {"must_obey"}, {"override"}},
        folded \in {{}, {"must_obey"}, {"must_obey", "you_are_now"}, {"hijack"}}}
    \cup {[Quiet EXCEPT !.payloads = payloads, !.bidi = bidi] :
        payloads \in {<<{}>>, <<{}, {"must_obey"}>>}, bidi \in BOOLEAN}
    \cup {[Quiet EXCEPT !.plain = plain, !.bidi = TRUE, !.spliced = spliced] :
        plain \in {{}, {"must_obey"}}, spliced \in BOOLEAN}

Text(words, profile) == [words |-> words, profile |-> profile]

Ordinary == {<<>>, <<Plain("hello")>>, <<Plain("stock"), Value("alice")>>,
             <<Plain("tips"), Value("bob")>>, <<Plain("stock"), Plain("tips")>>}

Texts == {Text(words, Quiet) : words \in Ordinary}
         \cup {Text(<<Value("alice")>>, profile) : profile \in Profiles}

Message == [role : {"user", "assistant"}, text : {Text(words, Quiet) : words \in Ordinary}
                                   \cup {Text(<<Plain("hello")>>, [Quiet EXCEPT !.plain = {"override"}])}]

Empty == Text(<<>>, Quiet)

MCConversations ==
    {[api |-> "openai", messages |-> <<[role |-> "user", text |-> text]>>, system |-> Empty] :
        text \in Texts}
    \cup {[api |-> "openai", messages |-> <<m, n>>, system |-> Empty] : m, n \in Message}
    \cup {[api |-> "anthropic", messages |-> <<m>>, system |-> Text(words, Quiet)] :
        m \in Message, words \in Ordinary}

MCPolicies ==
    [injection : {TRUE}, threshold : {0, 2, 3}, topics : {{<<Plain("stock"), Plain("tips")>>}},
     pii : {"redact", "tokenize", "block"}, maxLength : {3}, schema : {FALSE}, toxicity : {TRUE}]
    \cup
    [injection : {FALSE}, threshold : {0}, topics : {{}}, pii : {"off", "tokenize"},
     maxLength : {0, 3}, schema : BOOLEAN, toxicity : BOOLEAN]

ReplyTexts == {<<>>, <<Plain("{"), TokenFor("alice")>>, <<TokenFor("alice"), TokenFor("bob")>>,
               <<Plain("go"), Plain("die")>>, <<Plain("{"), Plain("go")>>, <<Plain("die")>>}

MCReplies == {<<>>} \cup {<<s>> : s \in ReplyTexts} \cup {<<s, t>> : s, t \in ReplyTexts}

MCWidth == [k \in {"plain", "pii", "token", "mask"} |-> IF k = "pii" THEN 2 ELSE 1]
MCToxic == <<Plain("go"), Plain("die")>>
===============================================================================
