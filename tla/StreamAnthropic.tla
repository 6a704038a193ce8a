---------------------------- MODULE StreamAnthropic ----------------------------
(***************************************************************************)
(* One streamed Anthropic response: generate() of stream_anthropic.  The   *)
(* answer comes in content blocks, one after the other, each opened,       *)
(* filled by deltas and closed; message_stop ends the message, and the     *)
(* upstream then closes the stream.                                        *)
(***************************************************************************)
EXTENDS StreamGuards

CONSTANT MaxBlocks  \* bound: content blocks in the message

ASSUME BlocksAssumption == MaxBlocks \in Nat

VARIABLES
    upstream,     \* what the upstream is doing: "between" blocks, in a
                  \* "text" or an "other" block, or "stopped" (external)
    sent,         \* sent[i]: text the upstream sent in block i (external)
    passed,       \* how much of accumulated passed the guardrails
    lastIndex,    \* last_index: the block of the last text delta
    received      \* received[i]: text the client was sent for block i

messageVars == <<upstream, sent, accumulated, passed, buf, lastIndex, received,
                 toxLast, state, rows, policy>>

MessageInit ==
    /\ PolicyInit
    /\ upstream = "between" /\ sent = <<>>
    /\ accumulated = <<>> /\ passed = 0
    /\ buf = <<>> /\ lastIndex = 0 /\ received = <<>>
    /\ toxLast = 0 /\ state = "open" /\ rows = <<>>

-----------------------------------------------------------------------------

(* content_block_start goes through as it is, and so do the deltas of a    *)
(* block that is not text, as a tool's input: unjudged and unrestored.     *)
BlockStart ==
    /\ state = "open" /\ upstream = "between"
    /\ Len(sent) < MaxBlocks
    /\ upstream' \in {"text", "other"}
    /\ sent' = Append(sent, <<>>)
    /\ received' = Append(received, <<>>)
    /\ UNCHANGED <<accumulated, passed, buf, lastIndex, toxLast, state, rows>>

(* A text delta that a guardrail objects to: audited, then an error event, *)
(* then the end of the stream.                                             *)
RefuseDelta(text) ==
    /\ accumulated' = accumulated \o text
    /\ Rejected(accumulated', toxLast)
    /\ toxLast' = LastAsked(accumulated', toxLast)
    /\ state' = "blocked"
    /\ rows' = Append(rows, "output_blocked")
    /\ UNCHANGED <<passed, buf, lastIndex, received>>

(* Mutated form (of PassDelta): the guardrails see the delta only. *)
PassDeltaJudged(text) ==
    /\ accumulated' = accumulated \o text
    /\ Accepted(text, 0)
    /\ passed' = Len(accumulated')
    /\ lastIndex' = Len(sent)
    /\ received' = [received EXCEPT ![Len(sent)] = @ \o Feed(buf, text).out]
    /\ buf' = Feed(buf, text).buf
    /\ UNCHANGED <<toxLast, state, rows>>

(* A text delta that goes by: judged with all the text before it, then fed *)
(* to the restorer.                                                        *)
PassDelta(text) ==
    /\ accumulated' = accumulated \o text
    /\ Accepted(accumulated', toxLast)
    /\ passed' = Len(accumulated')
    /\ toxLast' = LastAsked(accumulated', toxLast)
    /\ IF hasTokens
       THEN /\ lastIndex' = Len(sent)
            /\ received' = [received EXCEPT ![Len(sent)] = @ \o Feed(buf, text).out]
            /\ buf' = Feed(buf, text).buf
       ELSE /\ received' = [received EXCEPT ![Len(sent)] = @ \o text]
            /\ UNCHANGED <<buf, lastIndex>>
    /\ UNCHANGED <<state, rows>>

Delta ==
    /\ state = "open" /\ upstream = "text"
    /\ \E text \in Text :
          /\ Len(accumulated) + Len(text) <= MaxText
          /\ sent' = [sent EXCEPT ![Len(sent)] = @ \o text]
          /\ RefuseDelta(text) \/ PassDelta(text)
    /\ UNCHANGED upstream

(* Mutated form (of BlockStop): nothing is flushed. *)
BlockStopUnflushed ==
    /\ state = "open" /\ upstream \in {"text", "other"}
    /\ upstream' = "between"
    /\ UNCHANGED <<sent, accumulated, passed, buf, lastIndex, received, toxLast,
                   state, rows>>

(* content_block_stop: what is held back is sent first, as one more delta  *)
(* of the block the last text delta was for.                               *)
BlockStop ==
    /\ state = "open" /\ upstream \in {"text", "other"}
    /\ upstream' = "between"
    /\ IF hasTokens /\ buf # <<>>
       THEN received' = [received EXCEPT ![lastIndex] = @ \o Restore(buf)]
       ELSE UNCHANGED received
    /\ buf' = <<>>
    /\ UNCHANGED <<sent, accumulated, passed, lastIndex, toxLast, state, rows>>

(* message_stop: the request is audited; the generator goes on reading. *)
MessageStop ==
    /\ state = "open" /\ upstream = "between"
    /\ upstream' = "stopped"
    /\ rows' = Append(rows, "passed")
    /\ UNCHANGED <<sent, accumulated, passed, buf, lastIndex, received, toxLast, state>>

(* Mutated form (of Close): the end of the stream is audited as well. *)
CloseAudited ==
    /\ state = "open"
    /\ \/ /\ upstream = "stopped" /\ state' = "closed"
          /\ rows' = Append(rows, "passed")
       \/ /\ state' \in {"failed", "cut"}
          /\ rows' = Append(rows, "upstream_error")
    /\ UNCHANGED <<upstream, sent, accumulated, passed, buf, lastIndex, received, toxLast>>

(* The end: the upstream closes the stream after message_stop; it fails,   *)
(* which is announced in an error event; or it closes early, or the client *)
(* goes away, at any time.                                                 *)
Close ==
    /\ state = "open"
    /\ \/ upstream = "stopped" /\ state' = "closed"
       \/ state' \in {"failed", "cut"}
    /\ UNCHANGED <<upstream, sent, accumulated, passed, buf, lastIndex, received,
                   toxLast, rows>>

MessageNext ==
    /\ BlockStart \/ Delta \/ BlockStop \/ MessageStop \/ Close
    /\ UNCHANGED policy

MessageSpec == MessageInit /\ [][MessageNext]_messageVars

-----------------------------------------------------------------------------

Closed(i) == i < Len(sent) \/ upstream \in {"between", "stopped"}

(* Each block is restored by itself: when it is closed the client has its  *)
(* text with every token replaced, in this block and no other, wherever    *)
(* the upstream cut its deltas; before that it has a beginning of it       *)
(* (streaming.py 196-208, 247-250).                                        *)
BlocksRestored ==
    \A i \in DOMAIN sent :
        /\ Closed(i) => received[i] = Reply(sent[i])
        /\ IsPrefix(received[i], Reply(sent[i]))

(* What the guardrails let pass of block i: all of it, but of the last     *)
(* block not the delta that was refused, if one was.                       *)
PassedOf(i) ==
    SubSeq(sent[i], 1,
           Len(sent[i]) - IF i = Len(sent) THEN Len(accumulated) - passed ELSE 0)

(* The text is judged as one, across the blocks, and sent by the block: no *)
(* block gets more than what restoring makes of the part of it that was    *)
(* let pass, and these parts put together are no text that is too long or  *)
(* that the word list objects to, even when no single delta or block would *)
(* be refused (streaming.py 221-250).  Both are judged before restoring,   *)
(* so what the client gets may be longer.                                  *)
SentTextIsClean ==
    /\ \A i \in DOMAIN sent : IsPrefix(received[i], Reply(PassedOf(i)))
    /\ Accepted(FlattenSeq([i \in DOMAIN sent |-> PassedOf(i)]), 0)

(* No stream has two rows, whatever happens after message_stop: "passed"   *)
(* stands for one whose message was complete and whose text all passed,    *)
(* "output_blocked" for one a guardrail ended, and one without row was cut *)
(* or failed before message_stop (streaming.py 224, 238, 255).             *)
RowMeansComplete ==
    /\ Len(rows) <= 1
    /\ (rows = <<"passed">>) <=> (upstream = "stopped")
    /\ (rows = <<"output_blocked">>) <=> (state = "blocked")
    /\ rows = <<"passed">> => passed = Len(accumulated)
================================================================================
