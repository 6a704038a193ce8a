----------------------------- MODULE StreamOpenAI -----------------------------
(***************************************************************************)
(* One streamed OpenAI response: generate() of stream_openai, between the  *)
(* upstream's event stream and the client's.  Each chunk is accumulated,   *)
(* judged, restored and passed on before the next one is read.  The        *)
(* request may have asked for several choices (n): the upstream sends      *)
(* their chunks in any order, one choice in each, and generate() keeps one *)
(* text and one restorer for them all.                                     *)
(***************************************************************************)
EXTENDS StreamGuards

CONSTANT ChoiceCount    \* n of the request

ASSUME ChoicesAssumption == ChoiceCount \in Nat \ {0}

VARIABLES
    texts,        \* the upstream's own account: the text it sent of each choice
    cleared,      \* upstream text of the chunks that passed the guardrails
    delivered,    \* text the client was sent, all deltas put together
    lastChunk,    \* last_chunk is not None
    finished,     \* the choices whose chunk with the finish_reason went by
    ahead         \* history: lengths of what was sent ahead of its turn at the
                  \* finish, and of what it was sent ahead of

vars == <<texts, accumulated, cleared, buf, delivered, toxLast, lastChunk, finished,
          state, rows, ahead, policy>>

Init ==
    /\ PolicyInit
    /\ texts = [choice \in 1..ChoiceCount |-> <<>>]
    /\ accumulated = <<>> /\ cleared = <<>> /\ buf = <<>> /\ delivered = <<>>
    /\ toxLast = 0 /\ lastChunk = FALSE /\ finished = {}
    /\ state = "open" /\ rows = <<>> /\ ahead = <<0, 0>>

-----------------------------------------------------------------------------

(* Mutated form (of Block): the generator does not return. *)
BlockContinues(text) ==
    /\ accumulated' = accumulated \o text
    /\ Rejected(accumulated', toxLast)
    /\ toxLast' = LastAsked(accumulated', toxLast)
    /\ rows' = Append(rows, "output_blocked")
    /\ UNCHANGED <<cleared, buf, delivered, lastChunk, finished, state, ahead>>

(* The refusal of a chunk: audited, announced in an error event, the end. *)
Block(text) ==
    /\ accumulated' = accumulated \o text
    /\ Rejected(accumulated', toxLast)
    /\ toxLast' = LastAsked(accumulated', toxLast)
    /\ state' = "blocked"
    /\ rows' = Append(rows, "output_blocked")
    /\ UNCHANGED <<cleared, buf, delivered, lastChunk, finished, ahead>>

(* What the guardrails make of a chunk that goes by. *)
Judge(text) ==
    /\ accumulated' = accumulated \o text
    /\ cleared' = accumulated'
    /\ IF text = <<>> THEN UNCHANGED toxLast
       ELSE /\ Accepted(accumulated', toxLast)
            /\ toxLast' = LastAsked(accumulated', toxLast)

(***************************************************************************)
(* The text of a chunk is fed to the restorer, if there is one and there   *)
(* is text; at the finish what is still held back is sent, in a chunk of   *)
(* its own ahead of this one.                                              *)
(***************************************************************************)
Reinject(text, finish) ==
    IF hasTokens
    THEN LET fed  == IF text = <<>> THEN [out |-> <<>>, buf |-> buf] ELSE Feed(buf, text)
             tail == IF finish THEN Restore(fed.buf) ELSE <<>>
         IN  /\ delivered' = delivered \o tail \o fed.out
             /\ buf' = IF finish THEN <<>> ELSE fed.buf
             /\ lastChunk' = TRUE
             /\ ahead' = <<Len(tail), Len(fed.out)>>
    ELSE /\ delivered' = delivered \o text
         /\ UNCHANGED <<buf, lastChunk, ahead>>

(* Mutated form (of Pass): the chunk goes out before it is judged. *)
PassUnjudged(choice, text, finish) ==
    /\ accumulated' = accumulated \o text
    /\ cleared' = IF Accepted(accumulated', toxLast) THEN accumulated' ELSE cleared
    /\ Reinject(text, finish)
    /\ finished' = finished \cup {c \in {choice} : finish}
    /\ UNCHANGED <<toxLast, state, rows>>

(* A chunk goes by. *)
Pass(choice, text, finish) ==
    /\ Judge(text)
    /\ Reinject(text, finish)
    /\ finished' = finished \cup {c \in {choice} : finish}
    /\ UNCHANGED <<state, rows>>

(* A chunk of a choice that goes on, with text or without, which may       *)
(* announce the finish of that choice.                                     *)
Chunk ==
    /\ state = "open"
    /\ \E choice \in (1..ChoiceCount) \ finished, finish \in BOOLEAN :
          \/ \E text \in Text :
                /\ Len(accumulated) + Len(text) <= MaxText
                /\ texts' = [texts EXCEPT ![choice] = @ \o text]
                /\ Block(text) \/ Pass(choice, text, finish)
          \/ Pass(choice, <<>>, finish) /\ UNCHANGED texts

(* A chunk whose choices are an empty list, as the one that reports usage: *)
(* choices[0] raises, which nothing here catches.                          *)
EmptyChoices ==
    /\ state = "open"
    /\ state' = "raised"
    /\ UNCHANGED <<texts, accumulated, cleared, buf, delivered, toxLast, lastChunk,
                   finished, rows, ahead>>

(* Mutated form (of Done): the fallback flush is missing. *)
DoneUnflushed ==
    /\ state = "open"
    /\ state' = "passed"
    /\ rows' = Append(rows, "passed")
    /\ UNCHANGED <<texts, accumulated, cleared, buf, delivered, toxLast, lastChunk,
                   finished, ahead>>

(***************************************************************************)
(* The end marker, with a flush in case no finish came.  The row is        *)
(* written before the marker is passed on: a client that goes away at that *)
(* very moment is not told apart from one that has got it.                 *)
(***************************************************************************)
Done ==
    /\ state = "open"
    /\ IF hasTokens /\ lastChunk
       THEN delivered' = delivered \o Restore(buf) /\ buf' = <<>>
       ELSE UNCHANGED <<delivered, buf>>
    /\ state' = "passed"
    /\ rows' = Append(rows, "passed")
    /\ UNCHANGED <<texts, accumulated, cleared, toxLast, lastChunk, finished, ahead>>

(* Mutated form (of Abort): a failure is audited, under a name of its own. *)
AbortAudited ==
    /\ state = "open"
    /\ state' \in {"failed", "cut"}
    /\ rows' = Append(rows, "upstream_error")
    /\ UNCHANGED <<texts, accumulated, cleared, buf, delivered, toxLast, lastChunk,
                   finished, ahead>>

(* The upstream fails, which is announced in an error event; or it ends    *)
(* without its end marker, or the client is gone, which are not.           *)
Abort ==
    /\ state = "open"
    /\ state' \in {"failed", "cut"}
    /\ UNCHANGED <<texts, accumulated, cleared, buf, delivered, toxLast, lastChunk,
                   finished, rows, ahead>>

Next == (Chunk \/ EmptyChoices \/ Done \/ Abort) /\ UNCHANGED policy

Spec == Init /\ [][Next]_vars

-----------------------------------------------------------------------------

Symbol == Symbols \cup UNION {ToSet(Vault[token]) : token \in DOMAIN Vault}

(* Every variable holds what generate() puts there. *)
TypeOK ==
    /\ texts \in [1..ChoiceCount -> Seq(Symbols)]
    /\ accumulated \in Seq(Symbols) /\ Len(accumulated) <= MaxText
    /\ cleared \in Seq(Symbols)
    /\ buf \in Seq(Symbols)
    /\ delivered \in Seq(Symbol)
    /\ toxLast \in 0..MaxText
    /\ lastChunk \in BOOLEAN /\ finished \subseteq 1..ChoiceCount
    /\ state \in {"open", "passed", "blocked", "raised", "failed", "cut"}
    /\ rows \in Seq({"passed", "output_blocked"})
    /\ ahead \in Nat \X Nat
    /\ provider \in Providers /\ hasTokens \in BOOLEAN

(* What the client has, with the text that was sent ahead of its turn put  *)
(* where it belongs.                                                       *)
Straightened ==
    LET n == Len(delivered)
        t == ahead[1]
        o == ahead[2]
    IN  SubSeq(delivered, 1, n - t - o) \o SubSeq(delivered, n - o + 1, n)
        \o SubSeq(delivered, n - t - o + 1, n - o)

(* Of a response of one choice, once the stream is done the client has     *)
(* what it would have got without streaming, wherever the upstream cut its *)
(* chunks (streaming.py 118-133), but for one thing: what is still held    *)
(* back at the finish goes out ahead of the text that came with the        *)
(* finish_reason (127-131).                                                *)
RestoredWhenDone ==
    ChoiceCount = 1 /\ state = "passed" => Straightened = Reply(accumulated)

(* On the way there the client only ever has a beginning of that text, and *)
(* nothing of a chunk a guardrail objected to.                             *)
DeliveredIsClearedPrefix ==
    ChoiceCount = 1 => IsPrefix(Straightened, Reply(cleared))

(***************************************************************************)
(* Streams are judged before they are complete and before their tokens are *)
(* restored, by a copy of some of the tests complete responses face        *)
(* (check_stream and _validate_text, pipeline.py 97-113).  Where there is  *)
(* nothing to restore, a refusal is never premature: whatever the upstream *)
(* had still to say, the complete response would be refused.  And a stream *)
(* that passes would be refused, complete, over its schema alone, which is *)
(* documented not to apply to streams (streaming.py 9-10).                 *)
(***************************************************************************)
StreamJudgedAsComplete ==
    provider # "ml" =>
        /\ state = "blocked" =>
              \A more \in UNION {[1..n -> Symbols] : n \in 0..(MaxText - Len(accumulated))} :
                 LET whole == accumulated \o more
                 IN  Reply(whole) = whole => CompleteRejected(whole)
        /\ state = "passed" /\ Reply(accumulated) = accumulated =>
              (CompleteRejected(accumulated) <=> accumulated \notin Conforming)

(* "Works for streaming too: tokens split across SSE chunks are held back  *)
(* until complete, then restored mid-stream" (README:258): of a stream     *)
(* that is done, the client was sent the value of every token some choice  *)
(* holds.  The choices share one restorer (streaming.py 48, 122-125), and  *)
(* a chunk of one of them may come in the middle of a token of another.    *)
TokensComeBack ==
    state = "passed" /\ hasTokens =>
        \A choice \in 1..ChoiceCount, token \in DOMAIN Vault :
            token \in SubSeqs(texts[choice]) => Vault[token] \in SubSeqs(delivered)

(* How far an ML provider may lag: of the text the client was sent, less   *)
(* than one interval was added since the provider was last asked (check_-  *)
(* stream 70-75).  A provider that fails was asked too, and lets it pass.  *)
UnjudgedBounded ==
    provider = "ml" => Len(cleared) - toxLast < Interval

(* One audit row at most, and one exactly when the stream was closed by    *)
(* its end marker or by a guardrail, with the outcome the client saw.      *)
RowMatchesEnd ==
    rows = CASE state = "passed"  -> <<"passed">>
             [] state = "blocked" -> <<"output_blocked">>
             [] OTHER             -> <<>>
=============================================================================
