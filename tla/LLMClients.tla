----------------------------- MODULE LLMClients -----------------------------
(***************************************************************************)
(* The two adapters between the provider-neutral messages of the chat loop *)
(* and a provider's wire format: what is sent, how an answer (streamed in  *)
(* fragments or whole) becomes an LLMResponse, how an SDK exception becomes*)
(* a typed error.                                                          *)
(*                                                                         *)
(* A string is the sequence of its pieces, so that joining is \o and the   *)
(* empty string is <<>>; "ws" is a piece of whitespace.  The providers are *)
(* external: an answer is [text, calls, stop], a call [id, name, args].    *)
(***************************************************************************)
EXTENDS Naturals, Sequences, FiniteSets, SequencesExt

\* text.strip() is not empty.
Visible(text) == \E i \in DOMAIN text : text[i] # "ws"

-----------------------------------------------------------------------------
(* Messages and blocks (ai/schemas.py)                                     *)

TextBlock(text) == [type |-> "text", text |-> text]
ToolUseBlock(call) == [type |-> "tool_use", id |-> call.id, name |-> call.name, input |-> call.args]
ToolResultBlock(id, isError) == [type |-> "tool_result", id |-> id, is_error |-> isError]
ThinkingBlock == [type |-> "thinking"]

ChatMessage(role, content) == [role |-> role, content |-> content]
LLMResponse(content, text, toolCalls, stop) ==
    [content |-> content, text |-> text, tool_calls |-> toolCalls, stop_reason |-> stop]

\* What of a sequence passes the test, in its order.
Kept(s, Test(_)) == FlattenSeq([i \in DOMAIN s |-> IF Test(s[i]) THEN <<s[i]>> ELSE <<>>])

BlocksOf(message, type) == Kept(message.content, LAMBDA b : b.type = type)

\* The text blocks of a message, joined.
JoinedText(message) ==
    LET Text(block) == IF block.type = "text" THEN block.text ELSE <<>>
    IN  FlattenSeq([i \in DOMAIN message.content |-> Text(message.content[i])])

-----------------------------------------------------------------------------
(* Errors                                                                  *)

\* External: the SDK exceptions and the SDK classes each is an instance of.
SdkErrors == {"AuthenticationError", "RateLimitError", "InternalServerError",
              "APITimeoutError", "APIConnectionError", "ValueError"}
SdkClasses(exc) ==
    CASE exc \in {"AuthenticationError", "RateLimitError", "InternalServerError"} -> {exc, "APIStatusError"}
      [] exc = "APITimeoutError" -> {exc, "APIConnectionError"}
      [] OTHER -> {exc}

\* Mutant: the general classes are tested before the specific ones.
TranslateErrorGeneralFirst(exc) ==
    CASE {"APIStatusError", "APIConnectionError"} \cap SdkClasses(exc) # {} -> "LLMError"
      [] OTHER -> exc

\* "most specific first"; anything else is raised as it is.
TranslateError(exc) ==
    IF "AuthenticationError" \in SdkClasses(exc) THEN "LLMAuthError"
    ELSE IF "RateLimitError" \in SdkClasses(exc) THEN "LLMRateLimitError"
    ELSE IF "APITimeoutError" \in SdkClasses(exc) THEN "LLMTimeoutError"
    ELSE IF {"APIStatusError", "APIConnectionError"} \cap SdkClasses(exc) # {} THEN "LLMError"
    ELSE exc

-----------------------------------------------------------------------------
(* Anthropic                                                               *)

\* A block that goes on the wire: not a blank text.
Sent(block) == block.type # "text" \/ Visible(block.text)

\* Tool results go in a user message; a message without blocks is left out.
ToParams(messages) ==
    LET Param(m) == [role |-> IF m.role = "tool" THEN "user" ELSE m.role,
                     content |-> Kept(m.content, Sent)]
        params == [i \in DOMAIN messages |-> Param(messages[i])]
    IN  Kept(params, LAMBDA p : p.content # <<>>)

\* The blocks of the final message, which streaming accumulates in the SDK.
AnthropicResponse(reply) ==
    LET text == IF reply.text = <<>> THEN <<>> ELSE <<TextBlock(reply.text)>>
    IN  LLMResponse(<<ThinkingBlock>> \o text \o [i \in DOMAIN reply.calls |-> ToolUseBlock(reply.calls[i])],
                    reply.text, reply.calls, reply.stop)

-----------------------------------------------------------------------------
(* OpenAI                                                                  *)

\* External: json.loads gives an object for a complete text only.
IsJsonObject(raw) == raw # <<>> /\ Head(raw) = "{" /\ Last(raw) = "}"
EmptyObject == <<"{", "}">>

\* A malformed or missing argument string becomes {}.
ParseArguments(raw) == IF IsJsonObject(raw) THEN raw ELSE EmptyObject

StopReason(finish) ==
    CASE finish = "tool_calls"     -> "tool_use"
      [] finish = "length"         -> "max_tokens"
      [] finish = "content_filter" -> "refusal"
      [] OTHER                     -> "end_turn"

\* One wire message per tool result, thinking dropped, nothing for a message
\* with neither visible text nor calls.  The system message comes first.
ToWireMessages(messages) ==
    LET Results(m) == LET rs == BlocksOf(m, "tool_result")
                      IN  [i \in DOMAIN rs |-> [role |-> "tool", tool_call_id |-> rs[i].id]]
        Entry(m) == [role |-> m.role,
                     content |-> Kept(BlocksOf(m, "text"), Sent),
                     tool_calls |-> BlocksOf(m, "tool_use")]
        Wire(m) == IF m.role = "tool" THEN Results(m)
                   ELSE IF Entry(m).content = <<>> /\ Entry(m).tool_calls = <<>> THEN <<>>
                   ELSE <<Entry(m)>>
    IN  <<[role |-> "system"]>> \o FlattenSeq([i \in DOMAIN messages |-> Wire(messages[i])])

\* The response for a text, calls whose arguments are raw strings, and a
\* finish reason; used for a whole answer and for an accumulated one.
OpenAIResponse(reply) ==
    LET toolCalls == [i \in DOMAIN reply.calls |-> [reply.calls[i] EXCEPT !.args = ParseArguments(@)]]
    IN  LLMResponse((IF reply.text = <<>> THEN <<>> ELSE <<TextBlock(reply.text)>>)
                        \o [i \in DOMAIN toolCalls |-> ToolUseBlock(toolCalls[i])],
                    reply.text, toolCalls, StopReason(reply.stop))

\* A chunk is a text delta or a fragment of the call at an index.
NoId == "no id"
TextDelta(text) == [index |-> 0, text |-> text]
Fragment(index, id, name, args) == [index |-> index, id |-> id, name |-> name, args |-> args]

\* Mutant: a fragment's arguments replace those that came before.
TakeFragmentOverwrites(toolCalls, f) ==
    LET call == IF f.index \in DOMAIN toolCalls THEN toolCalls[f.index] ELSE [id |-> NoId, name |-> <<>>, args |-> <<>>]
        entry == [id |-> IF f.id # NoId THEN f.id ELSE call.id, name |-> call.name \o f.name,
                 args |-> IF f.args # <<>> THEN f.args ELSE call.args]
    IN  [i \in DOMAIN toolCalls \cup {f.index} |-> IF i = f.index THEN entry ELSE toolCalls[i]]

\* calls.setdefault(fragment.index): the id is taken, the rest appended.
TakeFragment(toolCalls, f) ==
    LET call == IF f.index \in DOMAIN toolCalls THEN toolCalls[f.index] ELSE [id |-> NoId, name |-> <<>>, args |-> <<>>]
        entry == [id |-> IF f.id # NoId THEN f.id ELSE call.id, name |-> call.name \o f.name, args |-> call.args \o f.args]
    IN  [i \in DOMAIN toolCalls \cup {f.index} |-> IF i = f.index THEN entry ELSE toolCalls[i]]

\* What stream() makes of the chunks: text joined, calls sorted by index.
Accumulated(chunks, stop) ==
    LET Take(acc, c) == IF c.index = 0 THEN [acc EXCEPT !.text = @ \o c.text]
                                       ELSE [acc EXCEPT !.calls = TakeFragment(@, c)]
        acc[n \in 0..Len(chunks)] ==
            IF n = 0 THEN [text |-> <<>>, calls |-> <<>>] ELSE Take(acc[n - 1], chunks[n])
        toolCalls == acc[Len(chunks)].calls
        Nth(n) == CHOOSE i \in DOMAIN toolCalls : Cardinality({j \in DOMAIN toolCalls : j <= i}) = n
    IN  OpenAIResponse([text |-> acc[Len(chunks)].text,
                        calls |-> [n \in 1..Cardinality(DOMAIN toolCalls) |-> toolCalls[Nth(n)]], stop |-> stop])

\* External: the ways an answer can arrive.  The text comes piece by piece, of
\* each call first the id and the name and then the arguments piece by piece;
\* each of these in its order, interleaved with one another in any way.
CallFragments(k, call) ==
    <<Fragment(k, call.id, call.name, <<>>)>>
      \o [i \in DOMAIN call.args |-> Fragment(k, NoId, <<>>, <<call.args[i]>>)]
Parts(reply) ==
    <<[i \in DOMAIN reply.text |-> TextDelta(<<reply.text[i]>>)]>>
      \o [k \in DOMAIN reply.calls |-> CallFragments(k, reply.calls[k])]
Streams(reply) ==
    LET parts == Parts(reply)
        n     == Len(FlattenSeq(parts))
        Rank(w, i) == Cardinality({j \in 1..i : w[j] = w[i]})
        Merges == {w \in [1..n -> DOMAIN parts] :
                     \A p \in DOMAIN parts : Cardinality({i \in 1..n : w[i] = p}) = Len(parts[p])}
    IN  {[i \in 1..n |-> parts[w[i]][Rank(w, i)]] : w \in Merges}

=============================================================================
