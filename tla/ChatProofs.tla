----------------------------- MODULE ChatProofs ------------------------------
(***************************************************************************)
(* Proofs about Chat: an exchange is stored whole or not at all, the       *)
(* status of a failure is that of its cause, a follow-up sees the answered *)
(* exchanges, every request to a provider is well formed, and a streamed   *)
(* answer is the answer; for every number of requests, rounds, users and   *)
(* answers.                                                                *)
(*                                                                         *)
(* A run has no row until it ends, and one that has ended does not change  *)
(* again.  That its rows are in a conversation of its user is because a    *)
(* conversation gets its owner by the commit of the run that created it,   *)
(* and every other commit into it is by a run that found the owner to be   *)
(* its own user.                                                           *)
(*                                                                         *)
(* That requests are well formed is an invariant of the messages a run has *)
(* at hand at each point of its loop (AtHand): every call is answered but  *)
(* those of the last turn that are still open.                             *)
(***************************************************************************)
EXTENDS Chat, FiniteSetTheorems, SequenceTheorems, TLAPS

\* A question comes first.
Opened(r) == IsSequence(new[r]) /\ Len(new[r]) >= 1 /\ new[r][1].role = "user"

\* What a run has become once it is stored.
Final(r) == Opened(r) /\ Last(new[r]).role = "assistant" /\ ~HasCalls(Last(new[r]))

Unstored(r) == \A i : <<r, i>> \notin rows

Complete(r) ==
    /\ Final(r) /\ \A i \in DOMAIN new[r] : <<r, i>> \in rows
    /\ conv[r] \in Runs /\ user[r] \in Users /\ owner[conv[r]] = user[r]
    /\ answer[r] \in {200, 500, 1}

\* A run under way; its conversation is new or its user's own.
UnderWay(r) ==
    /\ Unstored(r) /\ answer[r] = None /\ cause[r] = "none" /\ owner[r] = None
    /\ pc[r] # "new" => user[r] \in Users /\ conv[r] \in Runs \cup {None} /\ Opened(r)
    /\ pc[r] \in {"llm", "tool", "persist"} =>
         conv[r] \in Runs /\ (conv[r] = r \/ owner[conv[r]] = user[r])
    /\ pc[r] = "persist" => Final(r)

Ended(r) ==
    /\ Complete(r) \/ (Unstored(r) /\ answer[r] # 200)
    /\ cause[r] # "none" => cause[r] \in SdkErrors /\ answer[r] = Status(TranslateError(cause[r]))

Local(r) == IF pc[r] = "ended" THEN Ended(r) ELSE UnderWay(r)

Functions ==
    /\ provider \in Providers
    /\ DOMAIN pc = Runs /\ DOMAIN user = Runs /\ DOMAIN conv = Runs /\ DOMAIN new = Runs
    /\ DOMAIN owner = Runs /\ DOMAIN answer = Runs /\ DOMAIN cause = Runs

\* A conversation that is there has an exchange.
NoneEmpty == \A c \in Runs : owner[c] # None => \E r \in Runs : conv[r] = c /\ Complete(r)

ChatInv == Functions /\ NoneEmpty /\ \A r \in Runs : Local(r)

-----------------------------------------------------------------------------
(* Sequences, answers and statuses.                                        *)

LEMMA AppendAny ==
    ASSUME NEW s, IsSequence(s), NEW e
    PROVE  /\ IsSequence(Append(s, e)) /\ Len(Append(s, e)) = Len(s) + 1
           /\ Append(s, e)[Len(s) + 1] = e
           /\ \A i \in 1..Len(s) : Append(s, e)[i] = s[i]
<1> DEFINE S == {s[i] : i \in 1..Len(s)} \cup {e}
<1>1. s \in [1..Len(s) -> S] /\ Len(s) \in Nat
  BY DEF IsSequence
<1>2. s \in Seq(S) /\ e \in S
  BY <1>1
<1> HIDE DEF S
<1>3. /\ Append(s, e) \in Seq(S) /\ Len(Append(s, e)) = Len(s) + 1
      /\ Append(s, e)[Len(s) + 1] = e
      /\ \A i \in 1..Len(s) : Append(s, e)[i] = s[i]
  BY <1>2
<1>4. \A q \in Seq(S) : Len(q) \in Nat /\ q \in [1..Len(q) -> S]
  OBVIOUS
<1>5. Append(s, e) = [i \in 1..Len(Append(s, e)) |-> Append(s, e)[i]]
      /\ Len(Append(s, e)) \in Nat
  BY <1>3, <1>4
<1>6. QED
  BY <1>3, <1>5 DEF IsSequence

LEMMA SingletonSeq == ASSUME NEW e PROVE IsSequence(<<e>>) /\ Len(<<e>>) = 1 /\ <<e>>[1] = e
BY DEF IsSequence

\* A response without calls has no block of a call, of whatever provider.
LEMMA NoCalls ==
    ASSUME provider \in Providers, NEW a \in Answers, NEW response \in Responses[provider][a],
           response.tool_calls = <<>>
    PROVE  ~HasCalls(ChatMessage("assistant", response.content))
<1>1. ASSUME NEW x, x.calls = <<>>
      PROVE  \A i \in DOMAIN AnthropicResponse(x).content :
               AnthropicResponse(x).content[i].type # "tool_use"
  <2> DEFINE text == IF x.text = <<>> THEN <<>> ELSE <<TextBlock(x.text)>>
             blocks == [i \in DOMAIN x.calls |-> ToolUseBlock(x.calls[i])]
  <2>1. blocks = <<>>
    BY <1>1
  <2>2. AnthropicResponse(x).content = <<ThinkingBlock>> \o text \o blocks
    BY DEF AnthropicResponse, LLMResponse
  <2> HIDE DEF blocks
  <2>3. CASE x.text = <<>>
    <3>1. AnthropicResponse(x).content = <<ThinkingBlock>>
      BY <2>1, <2>2, <2>3
    <3>2. QED
      BY <3>1 DEF ThinkingBlock
  <2>4. CASE x.text # <<>>
    <3>1. text = <<TextBlock(x.text)>>
      BY <2>4
    <3> HIDE DEF text
    <3>2. AnthropicResponse(x).content = <<ThinkingBlock>> \o <<TextBlock(x.text)>>
      BY <2>1, <2>2, <3>1
    <3>3. ASSUME NEW b, NEW c
          PROVE  DOMAIN (<<b>> \o <<c>>) = 1..2 /\ (<<b>> \o <<c>>)[1] = b /\ (<<b>> \o <<c>>)[2] = c
      <4>1. <<b>> \in Seq({b, c}) /\ <<c>> \in Seq({b, c})
        OBVIOUS
      <4>2. /\ <<b>> \o <<c>> \in Seq({b, c}) /\ Len(<<b>> \o <<c>>) = 2
            /\ (<<b>> \o <<c>>)[1] = b /\ (<<b>> \o <<c>>)[2] = c
        BY <4>1
      <4>3. \A q \in Seq({b, c}) : DOMAIN q = 1..Len(q)
        OBVIOUS
      <4>4. QED
        BY <4>2, <4>3
    <3>4. ThinkingBlock.type # "tool_use" /\ TextBlock(x.text).type # "tool_use"
      BY DEF ThinkingBlock, TextBlock
    <3>5. QED
      BY <3>2, <3>3, <3>4
  <2>5. QED
    BY <2>3, <2>4
<1>2. ASSUME NEW x, OpenAIResponse(x).tool_calls = <<>>
      PROVE  \A i \in DOMAIN OpenAIResponse(x).content :
               OpenAIResponse(x).content[i].type # "tool_use"
  <2> DEFINE parsed == [i \in DOMAIN x.calls |-> [x.calls[i] EXCEPT !.args = ParseArguments(@)]]
             text == IF x.text = <<>> THEN <<>> ELSE <<TextBlock(x.text)>>
             blocks == [i \in DOMAIN parsed |-> ToolUseBlock(parsed[i])]
  <2>1. parsed = <<>> /\ OpenAIResponse(x).content = text \o blocks
    BY <1>2 DEF OpenAIResponse, LLMResponse
  <2> HIDE DEF parsed
  <2>2. blocks = <<>>
    BY <2>1
  <2> HIDE DEF blocks
  <2>3. CASE x.text = <<>>
    <3>1. OpenAIResponse(x).content = <<>>
      BY <2>1, <2>2, <2>3
    <3>2. QED
      BY <3>1
  <2>4. CASE x.text # <<>>
    <3>1. OpenAIResponse(x).content = <<TextBlock(x.text)>>
      BY <2>1, <2>2, <2>4
    <3>2. QED
      BY <3>1 DEF TextBlock
  <2>5. QED
    BY <2>3, <2>4
<1>3. CASE provider = "anthropic"
  <2>1. response = AnthropicResponse(a)
    BY <1>3 DEF Responses
  <2>2. a.calls = <<>>
    BY <2>1 DEF AnthropicResponse, LLMResponse
  <2>3. QED
    BY <1>1, <2>1, <2>2 DEF HasCalls, ChatMessage
<1>4. CASE provider = "openai"
  <2>1. \E x : response = OpenAIResponse(x)
    BY <1>4 DEF Responses, Accumulated
  <2>2. QED
    BY <1>2, <2>1 DEF HasCalls, ChatMessage
<1>5. QED
  BY <1>3, <1>4, ChatAssumption

\* The statuses of the failures (_translate, register_exception_handlers).
LEMMA StatusOf ==
    ASSUME NEW e, NEW n \in DOMAIN Mro(e), DOMAIN Mro(e) \subseteq Nat,
           Mro(e)[n] \in DOMAIN Handlers,
           \A i \in DOMAIN Mro(e) : i < n => Mro(e)[i] \notin DOMAIN Handlers
    PROVE  Status(e) = Handlers[Mro(e)[n]]
<1> DEFINE handled == {i \in DOMAIN Mro(e) : Mro(e)[i] \in DOMAIN Handlers}
<1>1. n \in handled /\ handled \subseteq Nat
  OBVIOUS
<1>2. \A i \in handled : n <= i
  OBVIOUS
<1> HIDE DEF handled
<1>3. \A m \in handled : (\A i \in handled : m <= i) => m = n
  BY <1>1, <1>2
<1>4. Min(handled) = n
  BY <1>1, <1>2, <1>3 DEF Min
<1>5. QED
  BY <1>1, <1>4 DEF Status, handled

LEMMA StatusNone ==
    ASSUME NEW e, \A i \in DOMAIN Mro(e) : Mro(e)[i] \notin DOMAIN Handlers
    PROVE  Status(e) = 500
<1>1. {i \in DOMAIN Mro(e) : Mro(e)[i] \in DOMAIN Handlers} = {}
  OBVIOUS
<1>2. QED
  BY <1>1 DEF Status

LEMMA Statuses5 ==
    /\ Status("NotFoundError") = 404 /\ Status("AgentLoopError") = 502
    /\ Status("LLMRateLimitError") = 429 /\ Status("LLMTimeoutError") = 504
    /\ Status("LLMError") = 502 /\ Status("LLMAuthError") = 502 /\ Status("ValueError") = 500
<1>1. Mro("NotFoundError") = <<"NotFoundError">> /\ Mro("ValueError") = <<"ValueError">>
  BY DEF Mro
<1>2. Mro("AgentLoopError") = <<"AgentLoopError", "AIError">>
      /\ Mro("LLMError") = <<"LLMError", "AIError">>
  BY DEF Mro
<1>3. /\ Mro("LLMRateLimitError") = <<"LLMRateLimitError", "LLMError", "AIError">>
      /\ Mro("LLMTimeoutError") = <<"LLMTimeoutError", "LLMError", "AIError">>
      /\ Mro("LLMAuthError") = <<"LLMAuthError", "LLMError", "AIError">>
  BY DEF Mro
<1>4. /\ {"NotFoundError", "AgentLoopError", "LLMRateLimitError", "LLMTimeoutError", "LLMError"}
           \subseteq DOMAIN Handlers
      /\ "ValueError" \notin DOMAIN Handlers /\ "LLMAuthError" \notin DOMAIN Handlers
      /\ Handlers["NotFoundError"] = 404 /\ Handlers["AgentLoopError"] = 502
      /\ Handlers["LLMRateLimitError"] = 429 /\ Handlers["LLMTimeoutError"] = 504
      /\ Handlers["LLMError"] = 502
  BY DEF Handlers
<1>5. Status("NotFoundError") = 404
  BY <1>1, <1>4, StatusOf
<1>6. Status("AgentLoopError") = 502
  BY <1>2, <1>4, StatusOf
<1>7. Status("LLMError") = 502
  BY <1>2, <1>4, StatusOf
<1>8. Status("LLMRateLimitError") = 429
  BY <1>3, <1>4, StatusOf
<1>9. Status("LLMTimeoutError") = 504
  BY <1>3, <1>4, StatusOf
<1>10. Status("LLMAuthError") = 502
  BY <1>3, <1>4, StatusOf
<1>11. Status("ValueError") = 500
  BY <1>1, <1>4, StatusNone
<1>12. QED
  BY <1>5, <1>6, <1>7, <1>8, <1>9, <1>10, <1>11

LEMMA Translated ==
    /\ TranslateError("AuthenticationError") = "LLMAuthError"
    /\ TranslateError("RateLimitError") = "LLMRateLimitError"
    /\ TranslateError("APITimeoutError") = "LLMTimeoutError"
    /\ TranslateError("InternalServerError") = "LLMError"
    /\ TranslateError("APIConnectionError") = "LLMError"
    /\ TranslateError("ValueError") = "ValueError"
<1>1. /\ SdkClasses("AuthenticationError") = {"AuthenticationError", "APIStatusError"}
      /\ SdkClasses("RateLimitError") = {"RateLimitError", "APIStatusError"}
      /\ SdkClasses("InternalServerError") = {"InternalServerError", "APIStatusError"}
      /\ SdkClasses("APITimeoutError") = {"APITimeoutError", "APIConnectionError"}
      /\ SdkClasses("APIConnectionError") = {"APIConnectionError"}
      /\ SdkClasses("ValueError") = {"ValueError"}
  BY DEF SdkClasses
<1> DEFINE general == {"APIStatusError", "APIConnectionError"}
<1>2. /\ general \cap SdkClasses("InternalServerError") # {}
      /\ general \cap SdkClasses("APIConnectionError") # {}
      /\ general \cap SdkClasses("ValueError") = {}
  BY <1>1
<1>3. TranslateError("AuthenticationError") = "LLMAuthError"
  BY <1>1 DEF TranslateError
<1>4. TranslateError("RateLimitError") = "LLMRateLimitError"
  <2>1. /\ "AuthenticationError" \notin SdkClasses("RateLimitError")
        /\ "RateLimitError" \in SdkClasses("RateLimitError")
    BY <1>1
  <2>2. QED
    BY <2>1 DEF TranslateError
<1>5. TranslateError("APITimeoutError") = "LLMTimeoutError"
  <2>1. /\ "AuthenticationError" \notin SdkClasses("APITimeoutError")
        /\ "RateLimitError" \notin SdkClasses("APITimeoutError")
        /\ "APITimeoutError" \in SdkClasses("APITimeoutError")
    BY <1>1
  <2>2. QED
    BY <2>1 DEF TranslateError
<1>6. ASSUME NEW e \in {"InternalServerError", "APIConnectionError", "ValueError"}
      PROVE  {"AuthenticationError", "RateLimitError", "APITimeoutError"} \cap SdkClasses(e) = {}
  BY <1>1
<1>7. TranslateError("InternalServerError") = "LLMError"
      /\ TranslateError("APIConnectionError") = "LLMError"
  <2>1. ASSUME NEW e \in {"InternalServerError", "APIConnectionError"}
        PROVE  /\ "AuthenticationError" \notin SdkClasses(e) /\ "RateLimitError" \notin SdkClasses(e)
               /\ "APITimeoutError" \notin SdkClasses(e)
               /\ general \cap SdkClasses(e) # {}
    BY <1>2, <1>6
  <2> HIDE DEF general
  <2>2. ASSUME NEW e \in {"InternalServerError", "APIConnectionError"}
        PROVE  TranslateError(e) = "LLMError"
    BY <2>1, Zenon DEF TranslateError, general
  <2>3. QED
    BY <2>2
<1>8. TranslateError("ValueError") = "ValueError"
  <2>1. /\ "AuthenticationError" \notin SdkClasses("ValueError")
        /\ "RateLimitError" \notin SdkClasses("ValueError")
        /\ "APITimeoutError" \notin SdkClasses("ValueError")
    BY <1>1
  <2>2. QED
    BY <1>2, <2>1 DEF TranslateError
<1>9. QED
  BY <1>3, <1>4, <1>5, <1>7, <1>8

LEMMA FailureValues ==
    ASSUME NEW e \in SdkErrors
    PROVE  Status(TranslateError(e)) =
             CASE e = "RateLimitError" -> 429 [] e = "APITimeoutError" -> 504
               [] e = "ValueError" -> 500 [] OTHER -> 502
BY Statuses5, Translated DEF SdkErrors

-----------------------------------------------------------------------------
(* What a step of one run leaves of the others.                            *)

\* Only run r moves.
Moves(r) ==
    /\ Functions' /\ provider' = provider
    /\ \A q \in Runs \ {r} : /\ pc'[q] = pc[q] /\ user'[q] = user[q] /\ conv'[q] = conv[q]
                             /\ new'[q] = new[q] /\ answer'[q] = answer[q] /\ cause'[q] = cause[q]

\* Only run r stores, and of the owners at most its own is set.
Writes(r) ==
    /\ \A q \in Runs \ {r} : \A i : <<q, i>> \in rows' <=> <<q, i>> \in rows
    /\ \A c \in Runs : owner'[c] = owner[c] \/ (c = r /\ owner[c] = None)

LEMMA OthersKept ==
    ASSUME ChatInv, NEW r \in Runs, pc[r] # "ended", Moves(r), Writes(r), NEW q \in Runs \ {r}
    PROVE  Local(q)' /\ (Complete(q) => Complete(q)')
<1>1. Local(q)
  BY DEF ChatInv
<1>2. owner'[q] = owner[q]
  BY DEF Writes
<1>3. \A c \in Runs : owner[c] \in Users => owner'[c] = owner[c]
  BY ChatAssumption DEF Writes, None
<1>4. Opened(q) => Opened(q)'
  BY DEF Opened, Moves
<1>5. Final(q) => Final(q)'
  BY <1>4 DEF Final, Moves
<1>6. Unstored(q) => Unstored(q)'
  BY DEF Unstored, Writes
<1>7. Complete(q) => Complete(q)'
  BY <1>3, <1>5 DEF Complete, Moves, Writes
<1>8. UnderWay(q) => UnderWay(q)'
  BY <1>2, <1>3, <1>4, <1>5, <1>6 DEF UnderWay, Moves
<1>9. Ended(q) => Ended(q)'
  BY <1>6, <1>7 DEF Ended, Moves
<1>10. QED
  BY <1>1, <1>7, <1>8, <1>9 DEF Local, Moves

LEMMA UnderWayIncomplete ==
    ASSUME ChatInv, NEW r \in Runs, pc[r] # "ended"
    PROVE  UnderWay(r) /\ ~Complete(r)
<1>1. UnderWay(r)
  BY DEF ChatInv, Local
<1>2. Final(r) => 1 \in DOMAIN new[r]
  BY DEF Final, Opened, IsSequence
<1>3. QED
  BY <1>1, <1>2 DEF UnderWay, Unstored, Complete

\* A step that stores nothing.
LEMMA QuietStep ==
    ASSUME ChatInv, NEW r \in Runs, pc[r] # "ended", Moves(r), UNCHANGED dbVars, Local(r)'
    PROVE  ChatInv'
<1>1. Writes(r)
  BY DEF Writes, dbVars
<1>2. \A q \in Runs \ {r} : Local(q)' /\ (Complete(q) => Complete(q)')
  BY <1>1, OthersKept
<1>3. NoneEmpty'
  <2> SUFFICES ASSUME NEW c \in Runs, owner'[c] # None
               PROVE  \E q \in Runs : conv'[q] = c /\ Complete(q)'
    BY DEF NoneEmpty
  <2>1. PICK q \in Runs : conv[q] = c /\ Complete(q)
    BY DEF ChatInv, NoneEmpty, dbVars
  <2>2. q # r
    BY <2>1, UnderWayIncomplete
  <2>3. QED
    BY <1>2, <2>1, <2>2 DEF Moves
<1>4. QED
  BY <1>2, <1>3 DEF ChatInv, Moves

\* A step that ends its run and keeps none of its rows.
LEMMA AbandonStep ==
    ASSUME ChatInv, NEW r \in Runs, pc[r] # "ended", NEW status, status # 200, Abandon(r, status),
           provider' = provider, user' = user,
           \/ cause' = cause
           \/ \E e \in SdkErrors : cause' = [cause EXCEPT ![r] = e] /\ status = Status(TranslateError(e))
    PROVE  ChatInv'
<1>1. /\ pc' = [pc EXCEPT ![r] = "ended"] /\ answer' = [answer EXCEPT ![r] = status]
      /\ new' = [new EXCEPT ![r] = <<>>] /\ conv' = [conv EXCEPT ![r] = None]
      /\ UNCHANGED dbVars
  BY DEF Abandon, End
<1>2. Functions
  BY DEF ChatInv
<1>3. DOMAIN cause' = Runs /\ \A q \in Runs \ {r} : cause'[q] = cause[q]
  BY <1>2 DEF Functions
<1>4. Moves(r)
  BY <1>1, <1>2, <1>3 DEF Moves, Functions, dbVars
<1>5. Unstored(r)'
  BY <1>1, UnderWayIncomplete DEF UnderWay, Unstored, dbVars
<1>6. pc'[r] = "ended" /\ answer'[r] = status
  BY <1>1, <1>2 DEF Functions
<1>7. cause'[r] # "none" => cause'[r] \in SdkErrors /\ answer'[r] = Status(TranslateError(cause'[r]))
  <2>1. cause[r] = "none"
    BY UnderWayIncomplete DEF UnderWay
  <2>2. QED
    BY <1>2, <1>6, <2>1 DEF Functions
<1>8. Local(r)'
  BY <1>5, <1>6, <1>7 DEF Local, Ended
<1>9. QED
  BY <1>1, <1>4, <1>8, QuietStep

\* The commit.
LEMMA StoreStep ==
    ASSUME ChatInv, NEW r \in Runs, pc[r] = "persist", Store(r), NEW status \in {200, 500, 1},
           End(r, status), UNCHANGED <<provider, user, conv, new, cause>>
    PROVE  ChatInv'
<1>1. /\ pc' = [pc EXCEPT ![r] = "ended"] /\ answer' = [answer EXCEPT ![r] = status]
      /\ owner' = [owner EXCEPT ![conv[r]] = user[r]]
      /\ rows' = rows \cup {<<r, i>> : i \in DOMAIN new[r]}
  BY DEF End, Store
<1>2. Functions
  BY DEF ChatInv
<1>3. UnderWay(r)
  BY UnderWayIncomplete
<1>4. /\ user[r] \in Users /\ conv[r] \in Runs /\ Final(r) /\ cause[r] = "none" /\ owner[r] = None
      /\ conv[r] = r \/ owner[conv[r]] = user[r]
  BY <1>3 DEF UnderWay
<1>5. Moves(r)
  BY <1>1, <1>2 DEF Moves, Functions
<1>6. Writes(r)
  BY <1>1, <1>2, <1>4 DEF Writes, Functions
<1>7. Complete(r)'
  <2>1. Final(r)'
    BY <1>4 DEF Final, Opened
  <2>2. owner'[conv[r]] = user[r]
    BY <1>1, <1>2, <1>4 DEF Functions
  <2>3. answer'[r] = status
    BY <1>1, <1>2 DEF Functions
  <2>4. \A i \in DOMAIN new[r] : <<r, i>> \in rows'
    BY <1>1
  <2>5. QED
    BY <1>4, <2>1, <2>2, <2>3, <2>4 DEF Complete
<1>8. Local(r)'
  BY <1>1, <1>2, <1>4, <1>7 DEF Local, Ended, Functions
<1>9. \A q \in Runs \ {r} : Local(q)' /\ (Complete(q) => Complete(q)')
  BY <1>5, <1>6, OthersKept
<1>10. NoneEmpty'
  <2> SUFFICES ASSUME NEW c \in Runs, owner'[c] # None
               PROVE  \E q \in Runs : conv'[q] = c /\ Complete(q)'
    BY DEF NoneEmpty
  <2>1. CASE c = conv[r]
    BY <1>7, <2>1
  <2>2. CASE c # conv[r]
    <3>1. owner[c] # None
      BY <1>1, <1>2, <2>2 DEF Functions
    <3>2. PICK q \in Runs : conv[q] = c /\ Complete(q)
      BY <3>1 DEF ChatInv, NoneEmpty
    <3>3. QED
      BY <1>9, <2>2, <3>2
  <2>3. QED
    BY <2>1, <2>2
<1>11. QED
  BY <1>5, <1>8, <1>9, <1>10 DEF ChatInv, Moves

-----------------------------------------------------------------------------
(* One lemma per action.                                                   *)

LEMMA AuthenticateStep == ASSUME ChatInv, NEW r \in Runs, Authenticate(r) PROVE ChatInv'
<1>1. PICK u \in Users, c \in Runs \cup {None}, question \in Questions :
        /\ user' = [user EXCEPT ![r] = u] /\ conv' = [conv EXCEPT ![r] = c]
        /\ new' = [new EXCEPT ![r] = <<ChatMessage("user", <<TextBlock(question)>>)>>]
  BY DEF Authenticate
<1>2. /\ pc[r] = "new" /\ pc' = [pc EXCEPT ![r] = "prepare"]
      /\ UNCHANGED <<provider, owner, rows, rank, answer, cause>>
  BY DEF Authenticate, dbVars
<1>3. Functions /\ UnderWay(r)
  BY <1>2, UnderWayIncomplete DEF ChatInv
<1>4. Moves(r)
  BY <1>1, <1>2, <1>3 DEF Moves, Functions
<1>5. Opened(r)'
  <2>1. new'[r] = <<ChatMessage("user", <<TextBlock(question)>>)>>
    BY <1>1, <1>3 DEF Functions
  <2>2. ChatMessage("user", <<TextBlock(question)>>).role = "user"
    BY DEF ChatMessage
  <2>3. QED
    BY <2>1, <2>2, SingletonSeq DEF Opened
<1>6. UnderWay(r)' /\ pc'[r] = "prepare"
  BY <1>1, <1>2, <1>3, <1>5 DEF UnderWay, Unstored, Functions
<1>7. QED
  BY <1>2, <1>4, <1>6, QuietStep DEF Local, dbVars

LEMMA PrepareStep == ASSUME ChatInv, NEW r \in Runs, Prepare(r) PROVE ChatInv'
<1>1. pc[r] = "prepare" /\ UNCHANGED <<provider, user, cause>>
  BY DEF Prepare
<1>2. Functions /\ UnderWay(r)
  BY <1>1, UnderWayIncomplete DEF ChatInv
<1>3. CASE /\ pc' = [pc EXCEPT ![r] = "llm"] /\ UNCHANGED <<dbVars, new, answer>>
           /\ \/ conv' = [conv EXCEPT ![r] = r]
              \/ conv' = conv /\ conv[r] # None /\ owner[conv[r]] = user[r]
  <2>1. Moves(r)
    BY <1>1, <1>2, <1>3 DEF Moves, Functions, dbVars
  <2>2. conv'[r] \in Runs /\ (conv'[r] = r \/ owner[conv'[r]] = user[r])
    BY <1>1, <1>2, <1>3 DEF UnderWay, Functions
  <2>3. UnderWay(r)' /\ pc'[r] = "llm"
    BY <1>1, <1>2, <1>3, <2>2 DEF UnderWay, Unstored, Opened, Functions, dbVars
  <2>4. QED
    BY <1>1, <1>3, <2>1, <2>3, QuietStep DEF Local
<1>4. CASE Abandon(r, Status("NotFoundError"))
  BY <1>1, <1>4, Statuses5, AbandonStep
<1>5. QED
  BY <1>3, <1>4 DEF Prepare, GetForUser

LEMMA ModelAnswersStep == ASSUME ChatInv, NEW r \in Runs, ModelAnswers(r) PROVE ChatInv'
<1>a. PICK a \in Answers : \E response \in Responses[provider][a] :
        /\ new' = [new EXCEPT ![r] = Append(@, ChatMessage("assistant", response.content))]
        /\ pc' = [pc EXCEPT ![r] = IF response.tool_calls = <<>> THEN "persist" ELSE "tool"]
  BY DEF ModelAnswers
<1>1. PICK response \in Responses[provider][a] :
        /\ new' = [new EXCEPT ![r] = Append(new[r], ChatMessage("assistant", response.content))]
        /\ pc' = [pc EXCEPT ![r] = IF response.tool_calls = <<>> THEN "persist" ELSE "tool"]
  BY <1>a
<1>2. pc[r] = "llm" /\ UNCHANGED <<provider, owner, rows, rank, user, conv, answer, cause>>
  BY DEF ModelAnswers, dbVars
<1>3. Functions /\ UnderWay(r)
  BY <1>2, UnderWayIncomplete DEF ChatInv
<1>4. Moves(r)
  BY <1>1, <1>2, <1>3 DEF Moves, Functions
<1> DEFINE turn == ChatMessage("assistant", response.content)
<1>5. new'[r] = Append(new[r], turn) /\ turn.role = "assistant"
  BY <1>1, <1>3 DEF Functions, ChatMessage
<1>6. response.tool_calls = <<>> => ~HasCalls(turn)
  BY <1>3, NoCalls DEF Functions
<1> HIDE DEF turn
<1>7. Opened(r)' /\ Last(new'[r]) = turn
  BY <1>2, <1>3, <1>5, AppendAny DEF UnderWay, Opened, Last
<1>8. pc'[r] = (IF response.tool_calls = <<>> THEN "persist" ELSE "tool")
  BY <1>1, <1>3 DEF Functions
<1>9. pc'[r] = "persist" => Final(r)'
  BY <1>5, <1>6, <1>7, <1>8 DEF Final
<1>10. UnderWay(r)' /\ pc'[r] # "ended"
  BY <1>2, <1>3, <1>7, <1>8, <1>9 DEF UnderWay, Unstored
<1>11. QED
  BY <1>2, <1>4, <1>10, QuietStep DEF Local, dbVars

LEMMA ExecuteToolStep == ASSUME ChatInv, NEW r \in Runs, ExecuteTool(r) PROVE ChatInv'
<1>1. pc[r] = "tool" /\ UNCHANGED <<provider, owner, rows, rank, user, conv, answer, cause>>
  BY DEF ExecuteTool, dbVars
<1>2. \/ UNCHANGED <<pc, new>>
      \/ \E blocks : /\ new' = [new EXCEPT ![r] = Append(new[r], ChatMessage("tool", blocks))]
                     /\ pc' = [pc EXCEPT ![r] = "llm"]
  BY DEF ExecuteTool
<1>3. Functions /\ UnderWay(r)
  BY <1>1, UnderWayIncomplete DEF ChatInv
<1>4. Moves(r)
  BY <1>1, <1>2, <1>3 DEF Moves, Functions
<1>5. Opened(r)'
  <2>1. Opened(r)
    BY <1>1, <1>3 DEF UnderWay
  <2>2. CASE UNCHANGED new
    BY <2>1, <2>2 DEF Opened
  <2>3. ASSUME NEW blocks, new' = [new EXCEPT ![r] = Append(new[r], ChatMessage("tool", blocks))]
        PROVE  Opened(r)'
    <3>1. new'[r] = Append(new[r], ChatMessage("tool", blocks))
      BY <1>3, <2>3 DEF Functions
    <3>2. QED
      BY <2>1, <3>1, AppendAny DEF Opened
  <2>4. QED
    BY <1>2, <2>2, <2>3
<1>6. pc'[r] \in {"llm", "tool"}
  BY <1>1, <1>2, <1>3 DEF Functions
<1>7. UnderWay(r)'
  BY <1>1, <1>3, <1>5, <1>6 DEF UnderWay, Unstored
<1>8. QED
  BY <1>1, <1>4, <1>6, <1>7, QuietStep DEF Local, dbVars

LEMMA ModelFailsStep == ASSUME ChatInv, NEW r \in Runs, ModelFails(r) PROVE ChatInv'
<1>1. pc[r] # "ended" /\ provider' = provider /\ user' = user
  BY DEF ModelFails
<1>2. PICK e \in SdkErrors : cause' = [cause EXCEPT ![r] = e] /\ Abandon(r, Status(TranslateError(e)))
  BY DEF ModelFails
<1>3. Status(TranslateError(e)) # 200
  BY FailureValues DEF SdkErrors
<1>4. QED
  BY <1>1, <1>2, <1>3, AbandonStep

LEMMA GiveUpStep == ASSUME ChatInv, NEW r \in Runs, GiveUp(r) PROVE ChatInv'
BY Statuses5, AbandonStep DEF GiveUp

LEMMA PersistStep ==
    ASSUME ChatInv, NEW r \in Runs, Persist(r) \/ PersistUnheard(r) PROVE ChatInv'
<1>1. PICK status \in {200, 500, 1} : End(r, status)
  BY DEF Persist, PersistUnheard
<1>2. pc[r] = "persist" /\ Store(r) /\ UNCHANGED <<provider, user, conv, new, cause>>
  BY DEF Persist, PersistUnheard
<1>3. QED
  BY <1>1, <1>2, StoreStep

LEMMA PersistFailsStep == ASSUME ChatInv, NEW r \in Runs, PersistFails(r) PROVE ChatInv'
BY AbandonStep DEF PersistFails

LEMMA DisconnectStep == ASSUME ChatInv, NEW r \in Runs, Disconnect(r) PROVE ChatInv'
BY AbandonStep DEF Disconnect

LEMMA StutterStep == ASSUME ChatInv, UNCHANGED vars PROVE ChatInv'
BY DEF ChatInv, Functions, NoneEmpty, Local, UnderWay, Ended, Complete, Final, Opened, Unstored,
       vars, dbVars, runVars

LEMMA InitChatInv == Init => ChatInv
<1> SUFFICES ASSUME Init PROVE ChatInv
  OBVIOUS
<1>1. Functions
  BY DEF Init, Functions
<1>2. NoneEmpty
  BY DEF Init, NoneEmpty
<1>3. ASSUME NEW r \in Runs PROVE Local(r)
  <2>1. pc[r] = "new" /\ answer[r] = None /\ cause[r] = "none" /\ owner[r] = None /\ rows = {}
    BY DEF Init
  <2>2. QED
    BY <2>1 DEF Local, UnderWay, Unstored
<1>4. QED
  BY <1>1, <1>2, <1>3 DEF ChatInv

LEMMA ChatInvAlways == Spec => []ChatInv
<1>1. ASSUME ChatInv, [Next]_vars PROVE ChatInv'
  <2>1. CASE UNCHANGED vars
    BY <1>1, <2>1, StutterStep
  <2>2. ASSUME NEW r \in Runs, Authenticate(r) \/ Progress(r) \/ Disconnect(r) PROVE ChatInv'
    BY <1>1, <2>2, AuthenticateStep, PrepareStep, ModelAnswersStep, ModelFailsStep, GiveUpStep,
       ExecuteToolStep, PersistStep, PersistFailsStep, DisconnectStep DEF Progress
  <2>3. QED
    BY <1>1, <2>1, <2>2 DEF Next
<1>2. QED
  BY <1>1, InitChatInv, PTL DEF Spec

-----------------------------------------------------------------------------
(* Sequences of anything.                                                  *)

LEMMA SeqOfItems ==
    ASSUME NEW s, IsSequence(s)
    PROVE  DOMAIN s = 1..Len(s) /\ Len(s) \in Nat /\ \A S : (\A i \in 1..Len(s) : s[i] \in S) => s \in Seq(S)
<1>1. Len(s) \in Nat /\ s = [i \in 1..Len(s) |-> s[i]]
  BY DEF IsSequence
<1>2. DOMAIN s = 1..Len(s)
  BY <1>1
<1>3. ASSUME NEW S, \A i \in 1..Len(s) : s[i] \in S PROVE s \in Seq(S)
  <2>1. s \in [1..Len(s) -> S]
    BY <1>1, <1>3
  <2> QED BY <1>1, <2>1
<1> QED BY <1>1, <1>2, <1>3

LEMMA ItemsOfSeq == ASSUME NEW S, NEW s \in Seq(S) PROVE IsSequence(s)
<1>1. Len(s) \in Nat /\ s \in [1..Len(s) -> S]
  BY LenProperties
<1> QED BY <1>1 DEF IsSequence

LEMMA MadeSeq ==
    ASSUME NEW n \in Nat, NEW s, s = [i \in 1..n |-> s[i]]
    PROVE  IsSequence(s) /\ Len(s) = n
<1> DEFINE S == {s[i] : i \in 1..n}
<1>1. s \in [1..n -> S]
  OBVIOUS
<1> HIDE DEF S
<1>2. Len(s) = n
  BY <1>1
<1> QED BY <1>2 DEF IsSequence

LEMMA SameItems ==
    ASSUME NEW s, IsSequence(s), NEW t, IsSequence(t), Len(s) = Len(t), \A i \in 1..Len(s) : s[i] = t[i]
    PROVE  s = t
BY DEF IsSequence

\* A common set for two sequences.
LEMMA InOneSet ==
    ASSUME NEW s, IsSequence(s), NEW t, IsSequence(t)
    PROVE  \E S : s \in Seq(S) /\ t \in Seq(S)
<1> DEFINE S == {s[i] : i \in 1..Len(s)} \cup {t[i] : i \in 1..Len(t)}
<1>1. (\A i \in 1..Len(s) : s[i] \in S) /\ (\A i \in 1..Len(t) : t[i] \in S)
  OBVIOUS
<1> HIDE DEF S
<1>2. s \in Seq(S)
  BY <1>1, SeqOfItems
<1>3. t \in Seq(S)
  BY <1>1, SeqOfItems
<1> QED BY <1>2, <1>3

\* u is s followed by t.
Joined(s, t, u) ==
    /\ IsSequence(u) /\ Len(u) = Len(s) + Len(t)
    /\ \A i \in 1..Len(s) : u[i] = s[i]
    /\ \A i \in 1..Len(t) : u[Len(s) + i] = t[i]
    /\ \A i \in 1..Len(u) : i \in 1..Len(s) \/ i - Len(s) \in 1..Len(t)

LEMMA ConcatJoins ==
    ASSUME NEW s, IsSequence(s), NEW t, IsSequence(t) PROVE Joined(s, t, s \o t)
<1>1. PICK S : s \in Seq(S) /\ t \in Seq(S)
  BY InOneSet
<1> DEFINE u == s \o t
<1>2. /\ u \in Seq(S) /\ Len(u) = Len(s) + Len(t)
      /\ \A i \in 1..Len(s) + Len(t) : u[i] = IF i <= Len(s) THEN s[i] ELSE t[i - Len(s)]
  BY <1>1, ConcatProperties
<1>3. Len(s) \in Nat /\ Len(t) \in Nat
  BY <1>1, LenProperties
<1>4. IsSequence(u)
  BY <1>2, ItemsOfSeq
<1> HIDE DEF u
<1>5. ASSUME NEW i \in 1..Len(s) PROVE u[i] = s[i]
  BY <1>2, <1>3
<1>6. ASSUME NEW i \in 1..Len(t) PROVE u[Len(s) + i] = t[i]
  <2>1. Len(s) + i \in 1..Len(s) + Len(t) /\ ~(Len(s) + i <= Len(s)) /\ (Len(s) + i) - Len(s) = i
    BY <1>3
  <2> QED BY <1>2, <2>1
<1>7. ASSUME NEW i \in 1..Len(u) PROVE i \in 1..Len(s) \/ i - Len(s) \in 1..Len(t)
  BY <1>2, <1>3
<1> QED BY <1>2, <1>4, <1>5, <1>6, <1>7 DEF Joined, u

LEMMA ConcatAssoc ==
    ASSUME NEW s, IsSequence(s), NEW t, IsSequence(t), NEW u, IsSequence(u)
    PROVE  (s \o t) \o u = s \o (t \o u)
<1> DEFINE S == {s[i] : i \in 1..Len(s)} \cup {t[i] : i \in 1..Len(t)} \cup {u[i] : i \in 1..Len(u)}
<1>1. /\ \A i \in 1..Len(s) : s[i] \in S
      /\ \A i \in 1..Len(t) : t[i] \in S
      /\ \A i \in 1..Len(u) : u[i] \in S
  OBVIOUS
<1> HIDE DEF S
<1>2. s \in Seq(S)
  BY <1>1, SeqOfItems
<1>3. t \in Seq(S)
  BY <1>1, SeqOfItems
<1>4. u \in Seq(S)
  BY <1>1, SeqOfItems
<1> QED BY <1>2, <1>3, <1>4, ConcatAssociative, SMTT(20)

LEMMA ConcatEmpty == ASSUME NEW s, IsSequence(s) PROVE s \o <<>> = s /\ <<>> \o s = s
<1>1. PICK S : s \in Seq(S)
  BY InOneSet
<1> QED BY <1>1, ConcatEmptySeq

LEMMA AppendConcat == ASSUME NEW s, IsSequence(s), NEW e PROVE Append(s, e) = s \o <<e>>
<1>1. IsSequence(<<e>>) /\ Len(<<e>>) = 1 /\ <<e>>[1] = e
  BY DEF IsSequence
<1>2. PICK S : s \in Seq(S) /\ <<e>> \in Seq(S)
  BY <1>1, InOneSet
<1>3. e \in S
  BY <1>1, <1>2, ElementOfSeq
<1> QED BY <1>2, <1>3, AppendIsConcat

-----------------------------------------------------------------------------
(* What a request replays.  The order in which a run's messages are listed *)
(* is drawn when they are stored, over all of them that are replayed.      *)

\* Every message of a run that is replayed has a place in the order.
Placed(r) == \A i \in DOMAIN new[r] : Replayed(r, i) => \E k \in DOMAIN rank[r] : rank[r][k] = i

Ranked(r) == rank[r] \in Seq(Nat) /\ (Complete(r) => Placed(r))

RankInv == DOMAIN rank = Runs /\ \A r \in Runs : Ranked(r)

\* An order of a set of positions has all of them.
LEMMA OrderCovers ==
    ASSUME NEW S, S \subseteq Nat, IsFiniteSet(S), NEW order \in SetToSeqs(S)
    PROVE  order \in Seq(Nat) /\ \A i \in S : \E k \in DOMAIN order : order[k] = i
<1> DEFINE D == 1..Cardinality(S)
<1>1. IsFiniteSet(S) /\ Cardinality(S) \in Nat
  BY FS_CardinalityType
<1>2. order \in [D -> S] /\ \A i, j \in D : i # j => order[i] # order[j]
  BY DEF SetToSeqs
<1>3. order \in Injection(D, S)
  BY <1>2 DEF Injection, IsInjective
<1>4. Cardinality(D) = Cardinality(S)
  BY <1>1, FS_Interval
<1>5. order \in Surjection(D, S)
  BY <1>1, <1>3, <1>4, FS_Injection
<1>6. \A i \in S : \E k \in D : order[k] = i
  BY <1>5 DEF Surjection
<1>7. order \in Seq(Nat)
  <2>1. order \in [1..Cardinality(S) -> Nat]
    BY <1>2
  <2> QED BY <1>1, <2>1
<1> QED BY <1>2, <1>6, <1>7

LEMMA EndedStays ==
    ASSUME NEW r \in Runs, Authenticate(r) \/ Progress(r) \/ Disconnect(r), Functions
    PROVE  pc[r] # "ended" /\ \A q \in Runs \ {r} : new'[q] = new[q]
<1>1. CASE Authenticate(r)
  BY <1>1 DEF Authenticate, Functions
<1>2. CASE ModelAnswers(r)
  BY <1>2 DEF ModelAnswers, Functions
<1>3. CASE ExecuteTool(r)
  BY <1>3 DEF ExecuteTool, Functions
<1>4. CASE Persist(r) \/ PersistUnheard(r)
  BY <1>4 DEF Persist, PersistUnheard
<1>5. ASSUME \E status : Abandon(r, status) PROVE \A q \in Runs \ {r} : new'[q] = new[q]
  BY <1>5 DEF Abandon, Functions
<1>6. CASE Prepare(r)
  BY <1>5, <1>6 DEF Prepare
<1>7. CASE ModelFails(r) \/ GiveUp(r) \/ PersistFails(r) \/ Disconnect(r)
  BY <1>5, <1>7 DEF ModelFails, GiveUp, PersistFails, Disconnect
<1> QED BY <1>1, <1>2, <1>3, <1>4, <1>6, <1>7 DEF Progress

\* What stores nothing leaves the complete runs and their order as they are.
LEMMA QuietRank ==
    ASSUME RankInv, ChatInv, UNCHANGED dbVars, NEW r \in Runs, pc[r] # "ended",
           \A q \in Runs \ {r} : new'[q] = new[q]
    PROVE  RankInv'
<1>1. ASSUME NEW q \in Runs, Complete(q)' PROVE Complete(q) /\ q # r
  <2>1. 1 \in DOMAIN new'[q]
    <3>1. Len(new'[q]) >= 1 /\ Len(new'[q]) \in Nat /\ new'[q] = [i \in 1..Len(new'[q]) |-> new'[q][i]]
      BY <1>1 DEF Complete, Final, Opened, IsSequence
    <3> QED BY <3>1
  <2>2. <<q, 1>> \in rows
    BY <1>1, <2>1 DEF Complete, dbVars
  <2>3. Complete(q)
    BY <2>2 DEF ChatInv, Local, UnderWay, Ended, Unstored
  <2> QED BY <2>3, UnderWayIncomplete
<1>2. ASSUME NEW q \in Runs PROVE Ranked(q)'
  <2>1. rank[q] \in Seq(Nat) /\ (Complete(q) => Placed(q))
    BY DEF RankInv, Ranked
  <2>2. q # r /\ Placed(q) => Placed(q)'
    BY DEF Placed, Replayed, dbVars
  <2> QED BY <1>1, <2>1, <2>2 DEF Ranked, dbVars
<1> QED BY <1>2 DEF RankInv, dbVars

LEMMA StoreRank ==
    ASSUME RankInv, ChatInv, NEW r \in Runs, pc[r] = "persist", Store(r), UNCHANGED new
    PROVE  RankInv'
<1> DEFINE S == {i \in DOMAIN new[r] : Replayed(r, i)}
<1>1. PICK order \in SetToSeqs(S) : rank' = [rank EXCEPT ![r] = order]
  BY DEF Store
<1>2. IsSequence(new[r])
  BY UnderWayIncomplete DEF UnderWay, Opened
<1>3. order \in Seq(Nat) /\ \A i \in S : \E k \in DOMAIN order : order[k] = i
  <2>1. Len(new[r]) \in Nat /\ S \subseteq 1..Len(new[r])
    BY <1>2 DEF IsSequence
  <2>2. order \in SetToSeqs(S)
    BY Zenon
  <2> HIDE DEF S
  <2>3. IsFiniteSet(1..Len(new[r]))
    BY <2>1, FS_Interval
  <2>4. S \in SUBSET (1..Len(new[r])) /\ S \subseteq Nat
    BY <2>1
  <2>5. IsFiniteSet(S)
    BY <2>3, <2>4, FS_Subset, Zenon
  <2> QED BY <2>2, <2>4, <2>5, OrderCovers, Zenon
<1>4. rank'[r] = order /\ DOMAIN rank' = Runs /\ \A q \in Runs \ {r} : rank'[q] = rank[q]
  BY <1>1 DEF RankInv
<1>5. Ranked(r)'
  BY <1>3, <1>4 DEF Ranked, Placed, Replayed
<1>6. ASSUME NEW q \in Runs \ {r} PROVE Ranked(q)'
  <2>1. Complete(q)' => Complete(q)
    <3> SUFFICES ASSUME Complete(q)' PROVE Complete(q)
      OBVIOUS
    <3>1. Len(new[q]) >= 1 /\ Len(new[q]) \in Nat /\ new[q] = [i \in 1..Len(new[q]) |-> new[q][i]]
      BY DEF Complete, Final, Opened, IsSequence
    <3>2. <<q, 1>> \in rows'
      BY <3>1 DEF Complete
    <3>3. <<q, 1>> \in rows
      BY <3>2 DEF Store
    <3> QED BY <3>3 DEF ChatInv, Local, UnderWay, Ended, Unstored
  <2>2. Placed(q) => Placed(q)'
    BY <1>4 DEF Placed, Replayed
  <2>3. rank[q] \in Seq(Nat) /\ (Complete(q) => Placed(q))
    BY DEF RankInv, Ranked
  <2> QED BY <1>4, <2>1, <2>2, <2>3 DEF Ranked
<1> QED BY <1>4, <1>5, <1>6 DEF RankInv

LEMMA RankInvAlways == Spec => []RankInv
<1>1. Init => RankInv
  BY DEF Init, RankInv, Ranked, Complete, Final, Opened
<1>2. ASSUME RankInv, ChatInv, [Next]_vars PROVE RankInv'
  <2>1. CASE UNCHANGED vars
    BY <1>2, <2>1, ZenonT(40) DEF RankInv, Ranked, Placed, Replayed, Complete, Final, Opened, vars, dbVars, runVars
  <2>2. ASSUME NEW r \in Runs, Authenticate(r) \/ Progress(r) \/ Disconnect(r) PROVE RankInv'
    <3>1. pc[r] # "ended" /\ \A q \in Runs \ {r} : new'[q] = new[q]
      BY <1>2, <2>2, EndedStays DEF ChatInv
    <3>2. \/ UNCHANGED dbVars
          \/ pc[r] = "persist" /\ Store(r) /\ UNCHANGED new
      BY <2>2, ZenonT(40) DEF Progress, Authenticate, Prepare, ModelAnswers, ModelFails, GiveUp, ExecuteTool, Persist,
         PersistUnheard, PersistFails, Disconnect, Abandon
    <3> QED BY <1>2, <3>1, <3>2, QuietRank, StoreRank
  <2> QED BY <1>2, <2>1, <2>2 DEF Next
<1> QED BY <1>1, <1>2, ChatInvAlways, PTL DEF Spec

LEMMA LeastExists ==
    ASSUME NEW n \in Nat, NEW S, S \subseteq 0..n, S # {}
    PROVE  \E m \in S : \A j \in S : m <= j
<1> DEFINE R == OpToRel(<, Nat)
<1>1. IsWellFoundedOn(R, Nat)
  BY NatLessThanWellFounded
<1>2. \A e, d \in Nat : e < d => <<e, d>> \in R
  BY DEF OpToRel
<1> HIDE DEF R
<1>3. S \subseteq Nat
  OBVIOUS
<1>4. PICK m \in S : \A j \in S : ~(<<j, m>> \in R)
  BY <1>1, <1>3, WFMin
<1>5. \A j \in S : ~(j < m)
  BY <1>2, <1>3, <1>4
<1> QED BY <1>3, <1>5

\* Induction up to n over a set.
LEMMA UpTo ==
    ASSUME NEW n \in Nat, NEW S, 0 \in S,
           \A k \in 0..n : k \in S /\ k < n => k + 1 \in S
    PROVE  \A k \in 0..n : k \in S
<1> DEFINE B == {k \in 0..n : k \notin S}
<1> SUFFICES ASSUME B # {} PROVE FALSE
  OBVIOUS
<1>1. B \subseteq 0..n
  OBVIOUS
<1>2. PICK m \in B : \A j \in B : m <= j
  <2> HIDE DEF B
  <2> QED BY <1>1, LeastExists
<1>3. m \in 0..n /\ m # 0 /\ m \notin S
  BY <1>2
<1>4. m - 1 \in 0..n /\ m - 1 < n /\ m - 1 \notin B
  BY <1>2, <1>3
<1>5. (m - 1) + 1 \in S
  BY <1>4
<1> QED BY <1>3, <1>5

\* A list of the messages of a conversation's runs up to n, run after run.
Listed(c, n, turns) ==
    /\ turns \in Seq(Runs \X Nat)
    /\ \A k \in 1..Len(turns) : turns[k][1] \in StoredRuns(c) /\ turns[k][1] <= n
    /\ \A j, k \in 1..Len(turns) : j < k => turns[j][1] <= turns[k][1]
    /\ \A q \in StoredRuns(c) : q <= n =>
         \A m \in DOMAIN rank[q] : \E k \in 1..Len(turns) : turns[k] = <<q, rank[q][m]>>

RowsOf(n) == [k \in DOMAIN rank[n] |-> <<n, rank[n][k]>>]

LEMMA SkipsRun ==
    ASSUME NEW c, NEW n \in Nat, NEW turns, Listed(c, n, turns), n + 1 \notin StoredRuns(c)
    PROVE  Listed(c, n + 1, turns)
<1>1. StoredRuns(c) \subseteq Nat
  BY DEF StoredRuns, Runs
<1>2. \A q \in StoredRuns(c) : q <= n + 1 => q <= n
  BY <1>1
<1>3. \A q \in StoredRuns(c) : q <= n => q <= n + 1
  BY <1>1
<1> QED BY <1>2, <1>3 DEF Listed

LEMMA ConcatParts ==
    ASSUME NEW S, NEW s \in Seq(S), NEW t \in Seq(S)
    PROVE  /\ s \o t \in Seq(S) /\ Len(s \o t) = Len(s) + Len(t)
           /\ \A i \in 1..Len(s) : i \in 1..Len(s \o t) /\ (s \o t)[i] = s[i]
           /\ \A i \in 1..Len(t) : Len(s) + i \in 1..Len(s \o t) /\ (s \o t)[Len(s) + i] = t[i]
           /\ \A i \in 1..Len(s \o t) : i \in 1..Len(s) \/ \E m \in 1..Len(t) : i = Len(s) + m
<1> DEFINE all == s \o t
<1>1. /\ all \in Seq(S) /\ Len(all) = Len(s) + Len(t)
      /\ \A i \in 1..Len(s) + Len(t) : all[i] = IF i <= Len(s) THEN s[i] ELSE t[i - Len(s)]
  BY ConcatProperties
<1>2. Len(s) \in Nat /\ Len(t) \in Nat
  OBVIOUS
<1> HIDE DEF all
<1>3. ASSUME NEW i \in 1..Len(s) PROVE i \in 1..Len(all) /\ all[i] = s[i]
  BY <1>1, <1>2
<1>4. ASSUME NEW i \in 1..Len(t) PROVE Len(s) + i \in 1..Len(all) /\ all[Len(s) + i] = t[i]
  <2>1. Len(s) + i \in 1..Len(s) + Len(t) /\ ~(Len(s) + i <= Len(s)) /\ (Len(s) + i) - Len(s) = i
    BY <1>2
  <2> QED BY <1>1, <2>1
<1>5. ASSUME NEW i \in 1..Len(all), i \notin 1..Len(s) PROVE \E m \in 1..Len(t) : i = Len(s) + m
  <2>1. i - Len(s) \in 1..Len(t) /\ i = Len(s) + (i - Len(s))
    BY <1>1, <1>2, <1>5
  <2> QED BY <2>1
<1> QED BY <1>1, <1>3, <1>4, <1>5 DEF all

LEMMA AddsRun ==
    ASSUME NEW c, NEW n \in Nat, NEW turns, Listed(c, n, turns), n + 1 \in StoredRuns(c),
           rank[n + 1] \in Seq(Nat)
    PROVE  Listed(c, n + 1, turns \o RowsOf(n + 1))
<1> DEFINE added == RowsOf(n + 1)
           all == turns \o added
           S == Runs \X Nat
<1>1. StoredRuns(c) \subseteq Nat /\ StoredRuns(c) \subseteq Runs
  BY DEF StoredRuns, Runs
<1>2. /\ added \in Seq(S) /\ Len(added) = Len(rank[n + 1])
      /\ \A k \in 1..Len(added) : added[k] = <<n + 1, rank[n + 1][k]>>
  <2>1. /\ DOMAIN rank[n + 1] = 1..Len(rank[n + 1]) /\ Len(rank[n + 1]) \in Nat
        /\ \A k \in 1..Len(rank[n + 1]) : rank[n + 1][k] \in Nat
    OBVIOUS
  <2>2. added = [k \in 1..Len(rank[n + 1]) |-> <<n + 1, rank[n + 1][k]>>]
    BY <2>1 DEF RowsOf
  <2>3. \A k \in 1..Len(rank[n + 1]) : <<n + 1, rank[n + 1][k]>> \in S
    BY <1>1, <2>1
  <2> HIDE DEF added, S
  <2>4. added \in [1..Len(rank[n + 1]) -> S]
    BY <2>2, <2>3
  <2>5. \A L \in Nat : \A f \in [1..L -> S] : f \in Seq(S) /\ Len(f) = L
    OBVIOUS
  <2>6. added \in Seq(S) /\ Len(added) = Len(rank[n + 1])
    BY <2>1, <2>4, <2>5
  <2> QED BY <2>2, <2>6
<1>3. turns \in Seq(S)
  BY DEF Listed
<1> HIDE DEF added, S
<1>4. /\ all \in Seq(S) /\ Len(all) = Len(turns) + Len(added)
      /\ \A i \in 1..Len(turns) : i \in 1..Len(all) /\ all[i] = turns[i]
      /\ \A i \in 1..Len(added) : Len(turns) + i \in 1..Len(all) /\ all[Len(turns) + i] = added[i]
      /\ \A i \in 1..Len(all) : i \in 1..Len(turns) \/ \E m \in 1..Len(added) : i = Len(turns) + m
  <2>1. added \in Seq(S)
    BY <1>2
  <2> DEFINE Added(t, q, a) ==
               /\ a \in Seq(S) /\ Len(a) = Len(t) + Len(q)
               /\ \A i \in 1..Len(t) : i \in 1..Len(a) /\ a[i] = t[i]
               /\ \A i \in 1..Len(q) : Len(t) + i \in 1..Len(a) /\ a[Len(t) + i] = q[i]
               /\ \A i \in 1..Len(a) : i \in 1..Len(t) \/ \E m \in 1..Len(q) : i = Len(t) + m
  <2>2. ASSUME NEW t \in Seq(S), NEW q \in Seq(S) PROVE Added(t, q, t \o q)
    BY ConcatParts
  <2> HIDE DEF Added
  <2>3. Added(turns, added, turns \o added)
    BY <1>3, <2>1, <2>2
  <2> QED BY <2>3 DEF Added
<1>5. Len(turns) \in Nat /\ Len(added) \in Nat
  BY <1>2, <1>3
<1> HIDE DEF all
<1>6. ASSUME NEW m \in 1..Len(added) PROVE added[m][1] = n + 1
  BY <1>2
<1>7. ASSUME NEW i \in 1..Len(all)
      PROVE  \/ i \in 1..Len(turns) /\ all[i][1] \in StoredRuns(c) /\ all[i][1] <= n
             \/ i > Len(turns) /\ all[i][1] = n + 1
  <2>1. CASE i \in 1..Len(turns)
    BY <1>4, <2>1 DEF Listed
  <2>2. ASSUME NEW m \in 1..Len(added), i = Len(turns) + m PROVE i > Len(turns) /\ all[i][1] = n + 1
    <3>1. all[i] = added[m]
      BY <1>4, <2>2
    <3> QED BY <1>5, <1>6, <2>2, <3>1
  <2> QED BY <1>4, <2>1, <2>2
<1>8. \A i \in 1..Len(all) : all[i][1] \in StoredRuns(c) /\ all[i][1] <= n + 1
  BY <1>1, <1>7
<1>9. \A j, k \in 1..Len(all) : j < k => all[j][1] <= all[k][1]
  <2> SUFFICES ASSUME NEW j \in 1..Len(all), NEW k \in 1..Len(all), j < k
               PROVE  all[j][1] <= all[k][1]
    OBVIOUS
  <2>1. CASE k \in 1..Len(turns)
    <3>1. j \in 1..Len(turns)
      BY <1>5, <2>1
    <3> QED BY <1>4, <2>1, <3>1 DEF Listed
  <2>2. CASE all[k][1] = n + 1
    BY <1>8, <2>2
  <2> QED BY <1>7, <2>1, <2>2
<1>10. ASSUME NEW q \in StoredRuns(c), q <= n + 1, NEW m \in DOMAIN rank[q]
       PROVE  \E k \in 1..Len(all) : all[k] = <<q, rank[q][m]>>
  <2>1. CASE q <= n
    <3>1. PICK k \in 1..Len(turns) : turns[k] = <<q, rank[q][m]>>
      BY <2>1 DEF Listed
    <3> QED BY <1>4, <3>1
  <2>2. CASE q = n + 1
    <3>1. m \in 1..Len(added)
      BY <1>2, <2>2
    <3>2. all[Len(turns) + m] = <<q, rank[q][m]>> /\ Len(turns) + m \in 1..Len(all)
      BY <1>2, <1>4, <2>2, <3>1
    <3> QED BY <3>2
  <2> QED BY <1>1, <1>10, <2>1, <2>2
<1> QED BY <1>4, <1>8, <1>9, <1>10 DEF Listed, all, added, S

\* list_messages: the stored messages of the conversation, run after run.
LEMMA ListedInOrder ==
    ASSUME NEW c, RankInv
    PROVE  Listed(c, MaxRuns, ListMessages(c))
<1> DEFINE Step(t, n) == IF n \in StoredRuns(c) THEN t \o RowsOf(n) ELSE t
           Is(f, m) == f = [n \in 0..m |-> IF n = 0 THEN <<>> ELSE Step(f[n - 1], n)]
           S == {m \in 0..MaxRuns : \E f : Is(f, m)}
<1>0. MaxRuns \in Nat
  BY ChatAssumption
<1>1. 0 \in S
  <2>1. Is([n \in 0..0 |-> <<>>], 0)
    OBVIOUS
  <2>2. \E f : Is(f, 0)
    <3> HIDE DEF Is
    <3> QED BY <2>1
  <2> HIDE DEF Is
  <2> QED BY <1>0, <2>2
<1>2. ASSUME NEW m \in 0..MaxRuns, m \in S, m < MaxRuns PROVE m + 1 \in S
  <2>1. PICK f : Is(f, m)
    BY <1>2
  <2> DEFINE h == [n \in 0..m + 1 |-> IF n <= m THEN f[n] ELSE Step(f[m], m + 1)]
  <2> HIDE DEF Step
  <2>2. ASSUME NEW n \in 0..m + 1 PROVE h[n] = IF n = 0 THEN <<>> ELSE Step(h[n - 1], n)
    <3>1. CASE n = 0
      <4>1. h[n] = f[0]
        BY <3>1
      <4> QED BY <2>1, <3>1, <4>1
    <3>2. CASE n # 0 /\ n <= m
      <4>1. h[n] = f[n] /\ h[n - 1] = f[n - 1]
        BY <3>2
      <4>2. f[n] = Step(f[n - 1], n)
        BY <2>1, <3>2
      <4> QED BY <3>2, <4>1, <4>2
    <3>3. CASE n = m + 1
      <4>1. h[n] = Step(f[m], m + 1) /\ h[n - 1] = f[m]
        BY <3>3
      <4> QED BY <3>3, <4>1
    <3> QED BY <3>1, <3>2, <3>3
  <2>3. h = [n \in 0..m + 1 |-> h[n]]
    OBVIOUS
  <2> HIDE DEF h
  <2>4. Is(h, m + 1)
    BY <2>2, <2>3
  <2>5. m + 1 \in 0..MaxRuns
    BY <1>0, <1>2
  <2> QED BY <2>4, <2>5
<1>3. MaxRuns \in S
  <2>1. \A m \in 0..MaxRuns : m \in S
    <3> HIDE DEF S
    <3> QED BY <1>0, <1>1, <1>2, UpTo
  <2> HIDE DEF S
  <2> QED BY <1>0, <2>1
<1>4. \E f : Is(f, MaxRuns)
  BY <1>3
<1> DEFINE listed == CHOOSE f : Is(f, MaxRuns)
<1>5. Is(listed, MaxRuns)
  BY <1>4
<1>6. ListMessages(c) = listed[MaxRuns]
  BY DEF ListMessages, RowsOf
<1> HIDE DEF listed, Step
<1>7. \A n \in 0..MaxRuns : listed[n] = IF n = 0 THEN <<>> ELSE Step(listed[n - 1], n)
  BY <1>5
<1> DEFINE T == {n \in 0..MaxRuns : Listed(c, n, listed[n])}
<1>8. 0 \in T
  <2>1. listed[0] = <<>>
    BY <1>0, <1>7
  <2>2. \A q \in StoredRuns(c) : q >= 1 /\ q \in Nat
    BY <1>0 DEF StoredRuns, Runs
  <2>3. Listed(c, 0, <<>>)
    BY <2>2 DEF Listed
  <2> QED BY <1>0, <2>1, <2>3
<1>9. ASSUME NEW n \in 0..MaxRuns, n \in T, n < MaxRuns PROVE n + 1 \in T
  <2>1. n \in Nat /\ n + 1 \in 0..MaxRuns /\ n + 1 \in Runs /\ n + 1 # 0 /\ (n + 1) - 1 = n
    BY <1>0, <1>9 DEF Runs
  <2>2. listed[n + 1] = Step(listed[n], n + 1)
    BY <1>7, <2>1
  <2>3. rank[n + 1] \in Seq(Nat)
    BY <2>1 DEF RankInv, Ranked
  <2>4. Listed(c, n, listed[n])
    BY <1>9
  <2>5. Listed(c, n + 1, Step(listed[n], n + 1))
    BY <2>1, <2>3, <2>4, SkipsRun, AddsRun DEF Step
  <2> QED BY <2>1, <2>2, <2>5
<1>10. \A n \in 0..MaxRuns : n \in T
  <2> HIDE DEF T
  <2> QED BY <1>0, <1>8, <1>9, UpTo
<1>11. Listed(c, MaxRuns, listed[MaxRuns])
  BY <1>0, <1>10
<1> QED BY <1>6, <1>11

HistoryOf == DOMAIN history = Runs

LEMMA HistoryOfAlways == Spec => []HistoryOf
<1>1. Init => HistoryOf
  BY DEF Init, HistoryOf
<1>2. ASSUME HistoryOf, [Next]_vars PROVE HistoryOf'
  <2>1. CASE UNCHANGED vars
    BY <1>2, <2>1 DEF HistoryOf, vars, runVars
  <2>2. ASSUME NEW r \in Runs, NEW status, End(r, status) PROVE HistoryOf'
    BY <1>2, <2>2 DEF End, HistoryOf
  <2>3. ASSUME NEW r \in Runs, Authenticate(r) \/ Progress(r) \/ Disconnect(r) PROVE HistoryOf'
    <3>1. CASE Authenticate(r) \/ ModelAnswers(r) \/ ExecuteTool(r)
      BY <1>2, <3>1 DEF Authenticate, ModelAnswers, ExecuteTool, HistoryOf
    <3>2. CASE Prepare(r)
      BY <1>2, <2>2, <3>2 DEF Prepare, Abandon, HistoryOf
    <3>3. CASE ModelFails(r) \/ GiveUp(r) \/ PersistFails(r) \/ Disconnect(r)
      BY <2>2, <3>3 DEF ModelFails, GiveUp, PersistFails, Disconnect, Abandon
    <3>4. CASE Persist(r) \/ PersistUnheard(r)
      BY <2>2, <3>4 DEF Persist, PersistUnheard
    <3> QED BY <2>3, <3>1, <3>2, <3>3, <3>4 DEF Progress
  <2> QED BY <1>2, <2>1, <2>3 DEF Next
<1> QED BY <1>1, <1>2, PTL DEF Spec

\* What is replayed is the end of the list, as long as the limit allows.
LEMMA ReplayedRows ==
    ASSUME RankInv, NEW c
    PROVE  \A h : h = History(c) =>
             /\ IsSequence(h) /\ Len(h) <= HistoryLimit
             /\ \A k \in DOMAIN h : h[k][1] \in StoredRuns(c)
             /\ \A j, k \in DOMAIN h : j < k => h[j][1] <= h[k][1]
             /\ \A q \in StoredRuns(c) : \A m \in DOMAIN rank[q] :
                  \/ \E k \in DOMAIN h : h[k] = <<q, rank[q][m]>>
                  \/ Len(h) = HistoryLimit /\ \A k \in DOMAIN h : h[k][1] >= q
<1> DEFINE t == ListMessages(c)
           first == IF Len(t) > HistoryLimit THEN Len(t) - HistoryLimit + 1 ELSE 1
           h == SubSeq(t, first, Len(t))
<1>1. Listed(c, MaxRuns, t) /\ History(c) = h
  BY ListedInOrder DEF History
<1> HIDE DEF t
<1>2. t \in Seq(Runs \X Nat)
  BY <1>1 DEF Listed
<1>3. /\ Len(t) \in Nat /\ first \in Nat /\ first >= 1 /\ first <= Len(t) + 1
      /\ first > 1 => Len(t) - first + 1 = HistoryLimit
      /\ Len(t) - first + 1 <= HistoryLimit
  <2>1. Len(t) \in Nat /\ HistoryLimit \in Nat /\ HistoryLimit >= 1
    BY <1>2, ChatAssumption
  <2> QED BY <2>1
<1> HIDE DEF first
<1>4. /\ Len(h) = Len(t) - first + 1
      /\ \A k \in 1..Len(t) - first + 1 : h[k] = t[first + k - 1]
      /\ h \in Seq(Runs \X Nat)
  <2>1. \A i \in first..Len(t) : t[i] \in Runs \X Nat
    BY <1>2, <1>3
  <2>2. /\ h \in Seq(Runs \X Nat)
        /\ Len(h) = IF first <= Len(t) THEN Len(t) - first + 1 ELSE 0
        /\ \A k \in 1..Len(t) - first + 1 : h[k] = t[first + k - 1]
    <3>1. first \in Int /\ Len(t) \in Int
      BY <1>3
    <3> HIDE DEF h
    <3>2. /\ SubSeq(t, first, Len(t)) \in Seq(Runs \X Nat)
          /\ Len(SubSeq(t, first, Len(t))) = IF first <= Len(t) THEN Len(t) - first + 1 ELSE 0
          /\ \A k \in 1..Len(t) - first + 1 : SubSeq(t, first, Len(t))[k] = t[first + k - 1]
      BY <2>1, <3>1, SubSeqProperties
    <3> QED BY <3>2 DEF h
  <2> QED BY <1>3, <2>2
<1> HIDE DEF h
<1>5. DOMAIN h = 1..Len(h)
  BY <1>4
<1>6. ASSUME NEW k \in DOMAIN h PROVE first + k - 1 \in 1..Len(t) /\ h[k] = t[first + k - 1]
  <2>1. PICK n, m : n = Len(t) /\ m = Len(h)
    OBVIOUS
  <2>2. n \in Nat /\ first \in Nat /\ first >= 1 /\ m = n - first + 1 /\ k \in 1..m
    BY <1>3, <1>4, <1>5, <1>6, <2>1
  <2>3. first + k - 1 \in 1..n /\ k \in 1..n - first + 1
    BY <2>2
  <2> QED BY <1>4, <2>1, <2>3
<1>7. \A k \in DOMAIN h : h[k][1] \in StoredRuns(c)
  BY <1>1, <1>6 DEF Listed
<1>8. ASSUME NEW j \in DOMAIN h, NEW k \in DOMAIN h, j < k PROVE h[j][1] <= h[k][1]
  <2>1. first + j - 1 < first + k - 1
    BY <1>3, <1>4, <1>5, <1>8
  <2> QED BY <1>1, <1>6, <2>1 DEF Listed
<1>9. ASSUME NEW q \in StoredRuns(c), NEW m \in DOMAIN rank[q]
      PROVE  \/ \E k \in DOMAIN h : h[k] = <<q, rank[q][m]>>
             \/ Len(h) = HistoryLimit /\ \A k \in DOMAIN h : h[k][1] >= q
  <2>0. q <= MaxRuns
    BY ChatAssumption DEF StoredRuns, Runs
  <2>1. PICK p \in 1..Len(t) : t[p] = <<q, rank[q][m]>>
    BY <1>1, <2>0 DEF Listed
  <2>2. CASE p >= first
    <3>1. p - first + 1 \in DOMAIN h /\ first + (p - first + 1) - 1 = p
      BY <1>3, <1>4, <1>5, <2>2
    <3> QED BY <1>6, <2>1, <3>1
  <2>3. CASE p < first
    <3>1. Len(h) = HistoryLimit
      BY <1>3, <1>4, <2>3
    <3>2. ASSUME NEW k \in DOMAIN h PROVE h[k][1] >= q
      <4>1. p < first + k - 1
        BY <1>3, <1>4, <1>5, <2>3
      <4>2. t[p][1] <= t[first + k - 1][1]
        BY <1>1, <1>6, <4>1 DEF Listed
      <4>3. t[p][1] = q /\ h[k] = t[first + k - 1]
        BY <1>6, <2>1
      <4>4. q \in Nat /\ h[k][1] \in Nat
        BY <1>7 DEF StoredRuns, Runs
      <4> QED BY <4>2, <4>3, <4>4
    <3> QED BY <3>1, <3>2
  <2> QED BY <1>3, <2>2, <2>3
<1>10. IsSequence(h) /\ Len(h) <= HistoryLimit
  BY <1>3, <1>4, ItemsOfSeq
<1> QED BY <1>1, <1>7, <1>8, <1>9, <1>10


-----------------------------------------------------------------------------
(* FlattenSeq.                                                             *)

Lists(s) == IsSequence(s) /\ \A i \in 1..Len(s) : IsSequence(s[i])

\* g[i] is the concatenation of the first i.
Builds(s, g) == g[0] = <<>> /\ \A i \in 1..Len(s) : g[i] = g[i - 1] \o s[i]

LEMMA BuildsExist ==
    ASSUME NEW s, Lists(s)
    PROVE  \E g : Builds(s, g)
<1> DEFINE Is(f, m) == f = [n \in 0..m |-> IF n = 0 THEN <<>> ELSE f[n - 1] \o s[n]]
           S == {m \in 0..Len(s) : \E f : Is(f, m)}
<1>0. Len(s) \in Nat
  BY DEF Lists, IsSequence
<1>1. 0 \in S
  <2>1. Is([n \in 0..0 |-> <<>>], 0)
    OBVIOUS
  <2>2. \E f : Is(f, 0)
    <3> HIDE DEF Is
    <3> QED BY <2>1
  <2> HIDE DEF Is
  <2> QED BY <1>0, <2>2
<1>2. ASSUME NEW m \in 0..Len(s), m \in S, m < Len(s) PROVE m + 1 \in S
  <2>1. PICK f : Is(f, m)
    BY <1>2
  <2> DEFINE h == [n \in 0..m + 1 |-> IF n <= m THEN f[n] ELSE f[m] \o s[m + 1]]
  <2>2. ASSUME NEW n \in 0..m + 1 PROVE h[n] = IF n = 0 THEN <<>> ELSE h[n - 1] \o s[n]
    <3>1. CASE n = 0
      <4>1. h[n] = f[0]
        BY <3>1
      <4> QED BY <2>1, <3>1, <4>1
    <3>2. CASE n # 0 /\ n <= m
      <4>1. h[n] = f[n] /\ h[n - 1] = f[n - 1]
        BY <3>2
      <4>2. f[n] = f[n - 1] \o s[n]
        BY <2>1, <3>2, SMTT(20)
      <4> QED BY <3>2, <4>1, <4>2
    <3>3. CASE n = m + 1
      <4>1. h[n] = f[m] \o s[m + 1] /\ h[n - 1] = f[m]
        BY <3>3
      <4> QED BY <3>3, <4>1
    <3> QED BY <3>1, <3>2, <3>3
  <2>3. h = [n \in 0..m + 1 |-> h[n]]
    OBVIOUS
  <2> HIDE DEF h
  <2>4. Is(h, m + 1)
    BY <2>2, <2>3
  <2>5. m + 1 \in 0..Len(s)
    BY <1>0, <1>2
  <2> QED BY <2>4, <2>5
<1>3. Len(s) \in S
  <2>1. \A m \in 0..Len(s) : m \in S
    <3> HIDE DEF S
    <3> QED BY <1>0, <1>1, <1>2, UpTo
  <2> HIDE DEF S
  <2> QED BY <1>0, <2>1
<1>4. PICK f : Is(f, Len(s))
  BY <1>3
<1>5. f[0] = <<>>
  BY <1>0, <1>4
<1>6. ASSUME NEW i \in 1..Len(s) PROVE f[i] = f[i - 1] \o s[i]
  BY <1>0, <1>4, <1>6
<1>7. Builds(s, f)
  BY <1>5, <1>6 DEF Builds
<1> QED BY <1>7

LEMMA BuiltItems ==
    ASSUME NEW s, Lists(s), NEW g, Builds(s, g), NEW S,
           \A i \in 1..Len(s) : \A j \in 1..Len(s[i]) : s[i][j] \in S
    PROVE  \A i \in 0..Len(s) : g[i] \in Seq(S)
<1> DEFINE T == {i \in 0..Len(s) : g[i] \in Seq(S)}
<1>0. Len(s) \in Nat
  BY DEF Lists, IsSequence
<1>1. 0 \in T
  <2>1. g[0] \in Seq(S)
    BY EmptySeq DEF Builds
  <2> QED BY <1>0, <2>1
<1>2. ASSUME NEW i \in 0..Len(s), i \in T, i < Len(s) PROVE i + 1 \in T
  <2>1. i + 1 \in 1..Len(s) /\ (i + 1) - 1 = i
    BY <1>0, <1>2
  <2>2. s[i + 1] \in Seq(S)
    <3>1. IsSequence(s[i + 1]) /\ \A j \in 1..Len(s[i + 1]) : s[i + 1][j] \in S
      BY <2>1 DEF Lists
    <3> QED BY <3>1, SeqOfItems
  <2>3. g[i + 1] = g[i] \o s[i + 1]
    BY <2>1 DEF Builds
  <2>4. g[i] \o s[i + 1] \in Seq(S)
    BY <1>2, <2>2, ConcatProperties
  <2>5. g[i + 1] \in Seq(S)
    BY <2>3, <2>4, Zenon
  <2>6. i + 1 \in 0..Len(s)
    BY <1>0, <1>2
  <2> QED BY <2>5, <2>6, Zenon
<1> HIDE DEF T
<1>3. \A i \in 0..Len(s) : i \in T
  BY <1>0, <1>1, <1>2, UpTo
<1> QED BY <1>3 DEF T

LEMMA BuiltAreLists ==
    ASSUME NEW s, Lists(s), NEW g, Builds(s, g)
    PROVE  \A i \in 0..Len(s) : IsSequence(g[i])
<1> DEFINE S == UNION {{s[i][j] : j \in 1..Len(s[i])} : i \in 1..Len(s)}
<1>1. \A i \in 1..Len(s) : \A j \in 1..Len(s[i]) : s[i][j] \in S
  OBVIOUS
<1> HIDE DEF S
<1>2. \A i \in 0..Len(s) : g[i] \in Seq(S)
  BY <1>1, BuiltItems
<1> QED BY <1>2, ItemsOfSeq

LEMMA FlattenIs ==
    ASSUME NEW s, Lists(s), NEW g, Builds(s, g)
    PROVE  FlattenSeq(s) = g[Len(s)]
<1>0. Len(s) \in Nat /\ s = [i \in 1..Len(s) |-> s[i]]
  BY DEF Lists, IsSequence
<1>1. CASE Len(s) = 0
  <2>1. s = <<>>
    BY <1>0, <1>1
  <2> QED BY <1>1, <2>1 DEF FlattenSeq, Builds
<1>2. CASE Len(s) # 0
  <2> DEFINE Is(f) == f = [i \in 1..Len(s) |-> IF i = 1 THEN s[i] ELSE f[i - 1] \o s[i]]
             own == [i \in 1..Len(s) |-> g[i]]
  <2>1. g[1] = s[1]
    <3>1. 1 \in 1..Len(s)
      BY <1>0, <1>2
    <3>2. g[0] = <<>> /\ IsSequence(s[1])
      BY <3>1 DEF Builds, Lists
    <3>3. \A i \in 1..Len(s) : g[i] = g[i - 1] \o s[i]
      BY DEF Builds
    <3>4. g[1] = g[1 - 1] \o s[1]
      BY <3>1, <3>3, Zenon
    <3>5. 1 - 1 = 0
      OBVIOUS
    <3>6. g[1] = g[0] \o s[1]
      BY <3>4, <3>5
    <3> QED BY <3>2, <3>6, ConcatEmpty
  <2>2. \A i \in 1..Len(s) : i # 1 => i - 1 \in 1..Len(s) /\ g[i] = g[i - 1] \o s[i]
    BY <1>0 DEF Builds
  <2>3. Is(own)
    BY <2>1, <2>2
  <2> DEFINE flatten == CHOOSE f : Is(f)
  <2>4. Is(flatten)
    <3> HIDE DEF Is, own
    <3> QED BY <2>3
  <2>5. FlattenSeq(s) = flatten[Len(s)]
    BY <1>2 DEF FlattenSeq
  <2> HIDE DEF flatten
  <2>6. flatten[1] = s[1] /\ \A i \in 1..Len(s) : i # 1 => flatten[i] = flatten[i - 1] \o s[i]
    <3>1. 1 \in 1..Len(s)
      BY <1>0, <1>2
    <3>2. flatten[1] = s[1]
      BY <2>4, <3>1
    <3>3. ASSUME NEW i \in 1..Len(s), i # 1 PROVE flatten[i] = flatten[i - 1] \o s[i]
      BY <2>4, <3>3
    <3> QED BY <3>2, <3>3
  <2> DEFINE T == {n \in 0..Len(s) : n = 0 \/ flatten[n] = g[n]}
  <2>7. ASSUME NEW n \in 0..Len(s), n \in T, n < Len(s) PROVE n + 1 \in T
    <3>1. n + 1 \in 1..Len(s) /\ (n + 1) - 1 = n
      BY <1>0, <2>7
    <3>2. CASE n = 0
      BY <2>1, <2>6, <3>1, <3>2
    <3>3. CASE n # 0
      <4>1. flatten[n] = g[n] /\ n + 1 # 1
        BY <2>7, <3>3
      <4>2. flatten[n + 1] = flatten[n] \o s[n + 1] /\ g[n + 1] = g[n] \o s[n + 1]
        BY <2>2, <2>6, <3>1, <4>1
      <4>3. n + 1 \in 0..Len(s) /\ flatten[n + 1] = g[n + 1]
        BY <1>0, <3>1, <4>1, <4>2
      <4> QED BY <4>3
    <3> QED BY <3>2, <3>3
  <2>8. 0 \in T
    BY <1>0
  <2> HIDE DEF T
  <2>9. \A n \in 0..Len(s) : n \in T
    BY <1>0, <2>7, <2>8, UpTo
  <2>10. Len(s) \in T
    BY <1>0, <2>9
  <2> QED BY <1>2, <2>5, <2>10 DEF T
<1> QED BY <1>1, <1>2

LEMMA FlattenItems ==
    ASSUME NEW s, Lists(s), NEW S,
           \A i \in 1..Len(s) : \A j \in 1..Len(s[i]) : s[i][j] \in S
    PROVE  FlattenSeq(s) \in Seq(S)
<1>1. PICK g : Builds(s, g)
  BY BuildsExist
<1>2. Len(s) \in 0..Len(s)
  BY DEF Lists, IsSequence
<1>3. g[Len(s)] \in Seq(S)
  BY <1>1, <1>2, BuiltItems
<1> QED BY <1>1, <1>3, FlattenIs

LEMMA FlattenIsList == ASSUME NEW s, Lists(s) PROVE IsSequence(FlattenSeq(s))
<1>1. PICK g : Builds(s, g)
  BY BuildsExist
<1>2. Len(s) \in 0..Len(s)
  BY DEF Lists, IsSequence
<1>3. IsSequence(g[Len(s)])
  BY <1>1, <1>2, BuiltAreLists
<1> QED BY <1>1, <1>3, FlattenIs

LEMMA FlattenNone ==
    ASSUME NEW s, Lists(s), \A i \in 1..Len(s) : s[i] = <<>>
    PROVE  FlattenSeq(s) = <<>>
<1> DEFINE g == [i \in 0..Len(s) |-> <<>>]
<1>0. Len(s) \in Nat
  BY DEF Lists, IsSequence
<1>1. <<>> \o <<>> = <<>>
  OBVIOUS
<1>2. Builds(s, g)
  <2>1. g[0] = <<>> /\ \A i \in 1..Len(s) : g[i] = <<>> /\ g[i - 1] = <<>>
    BY <1>0
  <2> HIDE DEF g
  <2> QED BY <1>1, <2>1 DEF Builds
<1>3. g[Len(s)] = <<>>
  BY <1>0
<1> HIDE DEF g
<1> QED BY <1>2, <1>3, FlattenIs

LEMMA JoinedLists ==
    ASSUME NEW a, Lists(a), NEW b, Lists(b)
    PROVE  Lists(a \o b) /\ Joined(a, b, a \o b)
<1>1. IsSequence(a) /\ IsSequence(b)
  BY DEF Lists
<1> DEFINE u == a \o b
<1>2. Joined(a, b, u)
  BY <1>1, ConcatJoins
<1> HIDE DEF u
<1>3. Len(a) \in Nat /\ Len(b) \in Nat
  BY <1>1 DEF IsSequence
<1>4. ASSUME NEW i \in 1..Len(u) PROVE IsSequence(u[i])
  <2>1. CASE i \in 1..Len(a)
    BY <1>2, <2>1 DEF Joined, Lists
  <2>2. CASE i - Len(a) \in 1..Len(b)
    <3> DEFINE j == i - Len(a)
    <3>1. j \in 1..Len(b) /\ i = Len(a) + j
      BY <1>2, <1>3, <2>2 DEF Joined
    <3> HIDE DEF j
    <3>2. u[i] = b[j]
      BY <1>2, <3>1 DEF Joined
    <3> QED BY <3>1, <3>2 DEF Lists
  <2> QED BY <1>2, <2>1, <2>2 DEF Joined
<1>5. Lists(u)
  BY <1>2, <1>4 DEF Joined, Lists
<1> QED BY <1>2, <1>5 DEF u

LEMMA FlattenConcat ==
    ASSUME NEW a, Lists(a), NEW b, Lists(b)
    PROVE  FlattenSeq(a \o b) = FlattenSeq(a) \o FlattenSeq(b)
<1> DEFINE u == a \o b
<1>1. PICK f : Builds(a, f)
  BY BuildsExist
<1>2. PICK g : Builds(b, g)
  BY BuildsExist
<1>3. Lists(u) /\ Joined(a, b, u)
  BY JoinedLists
<1> HIDE DEF u
<1>4. Len(a) \in Nat /\ Len(b) \in Nat /\ Len(u) = Len(a) + Len(b)
  BY <1>3 DEF Joined, Lists, IsSequence
<1>5. (\A i \in 0..Len(a) : IsSequence(f[i])) /\ (\A i \in 0..Len(b) : IsSequence(g[i]))
  BY <1>1, <1>2, BuiltAreLists
<1> DEFINE h == [i \in 0..Len(u) |-> IF i <= Len(a) THEN f[i] ELSE f[Len(a)] \o g[i - Len(a)]]
<1>6. f[Len(a)] \o g[0] = f[Len(a)]
  <2>1. g[0] = <<>> /\ IsSequence(f[Len(a)])
    BY <1>2, <1>4, <1>5 DEF Builds
  <2> QED BY <2>1, ConcatEmpty
<1>7. h[0] = <<>>
  <2>1. h[0] = f[0]
    BY <1>4
  <2> QED BY <1>1, <2>1 DEF Builds
<1>8. ASSUME NEW i \in 1..Len(u) PROVE h[i] = h[i - 1] \o u[i]
  <2>1. CASE i \in 1..Len(a)
    <3>1. h[i] = f[i] /\ h[i - 1] = f[i - 1]
      BY <1>4, <2>1
    <3>2. f[i] = f[i - 1] \o a[i]
      BY <1>1, <2>1 DEF Builds
    <3>3. u[i] = a[i]
      BY <1>3, <2>1 DEF Joined
    <3> HIDE DEF h
    <3> QED BY <3>1, <3>2, <3>3
  <2>2. CASE i - Len(a) \in 1..Len(b)
    <3> DEFINE j == i - Len(a)
    <3>1. j \in 1..Len(b) /\ i = Len(a) + j /\ j - 1 \in 0..Len(b) /\ j \in Nat
      BY <1>4, <2>2
    <3>2. h[i] = f[Len(a)] \o g[j]
      <4>1. i \in 0..Len(u) /\ ~(i <= Len(a))
        BY <1>4, <2>2
      <4>2. h[i] = f[Len(a)] \o g[i - Len(a)]
        BY <4>1
      <4> QED BY <4>2
    <3>3. h[i - 1] = f[Len(a)] \o g[j - 1]
      <4>1. CASE i - 1 <= Len(a)
        <5>1. i - 1 = Len(a) /\ j - 1 = 0
          BY <1>4, <2>2, <4>1
        <5>2. h[i - 1] = f[Len(a)]
          BY <1>4, <5>1
        <5>3. g[j - 1] = g[0]
          BY <5>1
        <5> HIDE DEF h, j
        <5> QED BY <1>6, <5>2, <5>3
      <4>2. CASE ~(i - 1 <= Len(a))
        <5>1. i - 1 \in 0..Len(u) /\ (i - 1) - Len(a) = j - 1
          BY <1>4, <2>2
        <5>2. h[i - 1] = f[Len(a)] \o g[(i - 1) - Len(a)]
          BY <4>2, <5>1
        <5> HIDE DEF h, j
        <5> QED BY <5>1, <5>2
      <4> QED BY <4>1, <4>2
    <3> HIDE DEF h, j
    <3>4. g[j] = g[j - 1] \o b[j]
      BY <1>2, <3>1 DEF Builds
    <3>5. u[i] = b[j]
      BY <1>3, <3>1 DEF Joined
    <3>6. (f[Len(a)] \o g[j - 1]) \o b[j] = f[Len(a)] \o (g[j - 1] \o b[j])
      <4>1. IsSequence(f[Len(a)]) /\ IsSequence(g[j - 1]) /\ IsSequence(b[j])
        BY <1>4, <1>5, <3>1 DEF Lists
      <4>2. PICK x, y, z : x = f[Len(a)] /\ y = g[j - 1] /\ z = b[j]
        OBVIOUS
      <4>3. IsSequence(x) /\ IsSequence(y) /\ IsSequence(z)
        BY <4>1, <4>2
      <4>4. (x \o y) \o z = x \o (y \o z)
        BY <4>3, ConcatAssoc, SMTT(20)
      <4> QED BY <4>2, <4>4
    <3> QED BY <3>2, <3>3, <3>4, <3>5, <3>6
  <2> QED BY <1>3, <2>1, <2>2 DEF Joined
<1>9. h[Len(u)] = f[Len(a)] \o g[Len(b)]
  <2>1. CASE Len(b) = 0
    <3>1. h[Len(u)] = f[Len(a)] /\ g[Len(b)] = g[0]
      BY <1>4, <2>1
    <3> HIDE DEF h
    <3> QED BY <1>6, <3>1
  <2>2. CASE Len(b) # 0
    <3>1. Len(u) \in 0..Len(u) /\ ~(Len(u) <= Len(a)) /\ Len(u) - Len(a) = Len(b)
      BY <1>4, <2>2
    <3>2. h[Len(u)] = f[Len(a)] \o g[Len(u) - Len(a)]
      BY <3>1
    <3> HIDE DEF h
    <3> QED BY <3>1, <3>2
  <2> QED BY <2>1, <2>2
<1> HIDE DEF h
<1>10. Builds(u, h)
  BY <1>7, <1>8 DEF Builds
<1>11. FlattenSeq(u) = h[Len(u)]
  BY <1>3, <1>10, FlattenIs
<1>12. FlattenSeq(a) = f[Len(a)] /\ FlattenSeq(b) = g[Len(b)]
  BY <1>1, <1>2, FlattenIs
<1> QED BY <1>9, <1>11, <1>12 DEF u

LEMMA FlattenOne == ASSUME NEW s, IsSequence(s) PROVE Lists(<<s>>) /\ FlattenSeq(<<s>>) = s
<1>1. Len(<<s>>) = 1 /\ <<s>>[1] = s /\ IsSequence(<<s>>)
  BY DEF IsSequence
<1>2. Lists(<<s>>)
  BY <1>1 DEF Lists
<1> DEFINE g == [i \in 0..1 |-> IF i = 0 THEN <<>> ELSE s]
<1>3. \A i \in 1..1 : g[i] = s /\ g[i - 1] = <<>> /\ <<s>>[i] = s
  OBVIOUS
<1>4. <<>> \o s = s
  BY ConcatEmpty
<1>5. g[0] = <<>> /\ g[1] = s
  OBVIOUS
<1> HIDE DEF g
<1>6. Builds(<<s>>, g)
  BY <1>1, <1>3, <1>4, <1>5 DEF Builds
<1> QED BY <1>1, <1>2, <1>5, <1>6, FlattenIs

LEMMA FlattenAppend ==
    ASSUME NEW a, Lists(a), NEW s, IsSequence(s)
    PROVE  Lists(Append(a, s)) /\ FlattenSeq(Append(a, s)) = FlattenSeq(a) \o s
<1>1. Append(a, s) = a \o <<s>>
  BY AppendConcat DEF Lists
<1>2. Lists(<<s>>) /\ FlattenSeq(<<s>>) = s
  BY FlattenOne
<1> QED BY <1>1, <1>2, FlattenConcat, JoinedLists

\* Every piece is the item at its place.
LEMMA FlattenAll ==
    ASSUME NEW p, NEW s, IsSequence(p), IsSequence(s), Len(p) = Len(s), \A i \in 1..Len(s) : p[i] = <<s[i]>>
    PROVE  FlattenSeq(p) = s
<1> DEFINE g == [i \in 0..Len(s) |-> SubSeq(s, 1, i)]
<1>1. PICK S : s \in Seq(S)
  BY InOneSet
<1>2. Len(s) \in Nat
  BY DEF IsSequence
<1>3. Lists(p)
  BY DEF Lists, IsSequence
<1>4. g[0] = <<>>
  BY <1>2, SubSeqEmpty
<1>5. ASSUME NEW i \in 1..Len(s) PROVE g[i] = g[i - 1] \o p[i]
  <2>1. g[i] = SubSeq(s, 1, i) /\ g[i - 1] = SubSeq(s, 1, i - 1)
    BY <1>2
  <2>2. 1 \in 1..Len(s) /\ i \in 1..Len(s)
    BY <1>2
  <2>3. SubSeq(s, 1, i) = SubSeq(s, 1, i - 1) \o <<s[i]>>
    BY <1>1, <2>2, SubSeqRecursiveSecond
  <2> HIDE DEF g
  <2> QED BY <2>1, <2>3
<1>6. g[Len(s)] = s
  BY <1>1, <1>2, SubSeqFull
<1> HIDE DEF g
<1>7. Builds(p, g)
  BY <1>4, <1>5 DEF Builds
<1> QED BY <1>3, <1>6, <1>7, FlattenIs

\* Pieces of p \o q: each is empty or the item, and of q it is the item.
Pieces(p, q, k) ==
    /\ IsSequence(k) /\ Len(k) = Len(p) + Len(q)
    /\ \A i \in 1..Len(p) : k[i] = <<>> \/ k[i] = <<p[i]>>
    /\ \A i \in 1..Len(q) : k[Len(p) + i] = <<q[i]>>
Blank(p, k) == \A i \in 1..Len(p) : k[i] = <<>>
From(o, p) == \A i \in 1..Len(o) : \E j \in 1..Len(p) : o[i] = p[j]

LEMMA FlattenPicked ==
    ASSUME NEW p, IsSequence(p), NEW q, IsSequence(q), NEW k, Pieces(p, q, k)
    PROVE  \E o : IsSequence(o) /\ FlattenSeq(k) = o \o q /\ From(o, p) /\ (Blank(p, k) => o = <<>>)
<1>a. /\ IsSequence(k) /\ Len(k) = Len(p) + Len(q)
      /\ \A i \in 1..Len(p) : k[i] = <<>> \/ k[i] = <<p[i]>>
      /\ \A i \in 1..Len(q) : k[Len(p) + i] = <<q[i]>>
  BY DEF Pieces
<1>0. Len(p) \in Nat /\ Len(q) \in Nat
  BY DEF IsSequence
<1>1. PICK a : a = [i \in 1..Len(p) |-> k[i]]
  OBVIOUS
<1>2. PICK b : b = [i \in 1..Len(q) |-> <<q[i]>>]
  OBVIOUS
<1>3. IsSequence(a) /\ Len(a) = Len(p) /\ \A i \in 1..Len(p) : a[i] = k[i]
  BY <1>0, <1>1, MadeSeq
<1>4. IsSequence(b) /\ Len(b) = Len(q) /\ \A i \in 1..Len(q) : b[i] = <<q[i]>>
  BY <1>0, <1>2, MadeSeq
<1>5. Lists(a)
  <2>1. \A i \in 1..Len(p) : IsSequence(<<>>) /\ IsSequence(<<p[i]>>)
    BY DEF IsSequence
  <2> QED BY <1>a, <1>3, <2>1 DEF Lists
<1>6. Lists(b)
  <2>1. \A i \in 1..Len(q) : IsSequence(<<q[i]>>)
    BY DEF IsSequence
  <2> QED BY <1>4, <2>1 DEF Lists
<1>7. k = a \o b
  <2> DEFINE u == a \o b
  <2>1. Joined(a, b, u)
    BY <1>3, <1>4, ConcatJoins
  <2> HIDE DEF u
  <2>2. ASSUME NEW i \in 1..Len(k) PROVE k[i] = u[i]
    <3>1. CASE i \in 1..Len(p)
      BY <1>3, <2>1, <3>1 DEF Joined
    <3>2. CASE i \notin 1..Len(p)
      <4> DEFINE j == i - Len(p)
      <4>1. j \in 1..Len(q) /\ i = Len(p) + j
        BY <1>0, <1>a, <3>2
      <4> HIDE DEF j
      <4>2. k[i] = <<q[j]>>
        BY <1>a, <4>1
      <4>3. u[Len(p) + j] = b[j]
        BY <1>3, <1>4, <2>1, <4>1 DEF Joined
      <4> QED BY <1>4, <4>1, <4>2, <4>3
    <3> QED BY <3>1, <3>2
  <2>3. k = u
    BY <1>a, <1>3, <1>4, <2>1, <2>2, SameItems DEF Joined
  <2> QED BY <2>3 DEF u
<1>8. FlattenSeq(k) = FlattenSeq(a) \o FlattenSeq(b)
  BY <1>5, <1>6, <1>7, FlattenConcat
<1>9. FlattenSeq(b) = q
  BY <1>4, FlattenAll
<1>10. PICK o : o = FlattenSeq(a)
  OBVIOUS
<1>11. IsSequence(o)
  BY <1>5, <1>10, FlattenIsList
<1>12. ASSUME NEW i \in 1..Len(o) PROVE \E j \in 1..Len(p) : o[i] = p[j]
  <2> DEFINE S == {p[j] : j \in 1..Len(p)}
  <2>1. ASSUME NEW n \in 1..Len(a), NEW j \in 1..Len(a[n]) PROVE a[n][j] \in S
    <3>1. a[n] = <<>> \/ a[n] = <<p[n]>>
      BY <1>a, <1>3, <2>1
    <3>2. n \in 1..Len(p) /\ j \in 1..Len(a[n])
      BY <1>3, <2>1
    <3>3. a[n] # <<>>
      <4>1. a[n] = <<>> => Len(a[n]) = 0
        OBVIOUS
      <4> QED BY <3>2, <4>1
    <3>4. a[n] = <<p[n]>> /\ Len(<<p[n]>>) = 1
      BY <3>1, <3>3
    <3>5. a[n] = <<p[n]>> /\ j = 1
      BY <3>2, <3>4
    <3> QED BY <3>2, <3>5
  <2> HIDE DEF S
  <2>2. o \in Seq(S)
    BY <1>5, <1>10, <2>1, FlattenItems
  <2>3. o[i] \in S
    BY <1>12, <2>2, ElementOfSeq
  <2> QED BY <2>3 DEF S
<1>13. ASSUME Blank(p, k) PROVE o = <<>>
  <2>1. \A i \in 1..Len(a) : a[i] = <<>>
    BY <1>3, <1>13 DEF Blank
  <2> QED BY <1>5, <1>10, <2>1, FlattenNone
<1>14. From(o, p)
  BY <1>12 DEF From
<1> QED BY <1>8, <1>9, <1>10, <1>11, <1>13, <1>14

\* The items of a list one by one, through M.
Map(s, M) == [i \in 1..Len(s) |-> M[s[i]]]

LEMMA MapConcat ==
    ASSUME NEW a, IsSequence(a), NEW b, IsSequence(b), NEW M
    PROVE  Map(a \o b, M) = Map(a, M) \o Map(b, M)
<1>0. Len(a) \in Nat /\ Len(b) \in Nat
  BY DEF IsSequence
<1>1. PICK u : u = a \o b
  OBVIOUS
<1>2. Joined(a, b, u)
  BY <1>1, ConcatJoins
<1>3. PICK p, q, w : /\ p = [i \in 1..Len(a) |-> M[a[i]]] /\ q = [i \in 1..Len(b) |-> M[b[i]]]
                     /\ w = [i \in 1..Len(u) |-> M[u[i]]]
  OBVIOUS
<1>4. IsSequence(p) /\ Len(p) = Len(a) /\ \A i \in 1..Len(a) : p[i] = M[a[i]]
  BY <1>0, <1>3, MadeSeq
<1>5. IsSequence(q) /\ Len(q) = Len(b) /\ \A i \in 1..Len(b) : q[i] = M[b[i]]
  BY <1>0, <1>3, MadeSeq
<1>6. IsSequence(w) /\ Len(w) = Len(u) /\ \A i \in 1..Len(u) : w[i] = M[u[i]]
  <2>1. Len(u) \in Nat
    BY <1>2 DEF Joined, IsSequence
  <2> QED BY <1>3, <2>1, MadeSeq
<1>7. PICK v : v = p \o q
  OBVIOUS
<1>8. Joined(p, q, v)
  BY <1>4, <1>5, <1>7, ConcatJoins
<1>9. ASSUME NEW i \in 1..Len(w) PROVE w[i] = v[i]
  <2>1. CASE i \in 1..Len(a)
    <3>1. v[i] = p[i] /\ u[i] = a[i]
      BY <1>2, <1>4, <1>8, <2>1 DEF Joined
    <3> QED BY <1>4, <1>6, <2>1, <3>1
  <2>2. CASE i - Len(a) \in 1..Len(b)
    <3> DEFINE j == i - Len(a)
    <3>1. j \in 1..Len(b) /\ i = Len(a) + j
      BY <1>0, <1>2, <1>6, <2>2 DEF Joined
    <3> HIDE DEF j
    <3>2. v[i] = q[j] /\ u[i] = b[j]
      BY <1>2, <1>4, <1>5, <1>8, <3>1 DEF Joined
    <3> QED BY <1>5, <1>6, <3>1, <3>2
  <2> QED BY <1>2, <1>6, <2>1, <2>2 DEF Joined
<1>10. w = v
  BY <1>2, <1>4, <1>5, <1>6, <1>8, <1>9, SameItems DEF Joined
<1> QED BY <1>1, <1>3, <1>7, <1>10 DEF Map

-----------------------------------------------------------------------------
(* Rounds of calls and results.                                            *)

Others(marks) == IsSequence(marks) /\ \A i \in 1..Len(marks) : marks[i] = <<"other">>
CallMarks(blocks) == [i \in 1..Len(blocks) |-> <<"call", blocks[i].id>>]
ResultMarks(blocks) == [i \in 1..Len(blocks) |-> <<"result", blocks[i].id>>]

LEMMA PairedOthers == ASSUME NEW marks, Others(marks) PROVE Paired(marks)
BY SeqOfItems DEF Others, Paired

LEMMA PairedConcat ==
    ASSUME NEW a, IsSequence(a), Paired(a), NEW b, IsSequence(b), Paired(b)
    PROVE  Paired(a \o b)
<1>0. Len(a) \in Nat /\ Len(b) \in Nat /\ DOMAIN a = 1..Len(a) /\ DOMAIN b = 1..Len(b)
  BY SeqOfItems
<1>1. PICK u : u = a \o b
  OBVIOUS
<1>2. Joined(a, b, u)
  BY <1>1, ConcatJoins
<1>3. DOMAIN u = 1..Len(a) + Len(b)
  BY <1>2, SeqOfItems DEF Joined
<1>4. ASSUME NEW k \in 1..Len(a), u[k] # <<"other">>
      PROVE  \E first, n \in DOMAIN u : k \in first..first + 2 * n - 1 /\ Round(u, first, n)
  <2>1. a[k] # <<"other">>
    BY <1>2, <1>4 DEF Joined
  <2>2. PICK first, n \in 1..Len(a) : k \in first..first + 2 * n - 1 /\ Round(a, first, n)
    BY <1>0, <2>1 DEF Paired
  <2>3. ASSUME NEW i \in first..first + n - 1
        PROVE  i + n \in DOMAIN u /\ u[i][1] = "call" /\ u[i + n] = <<"result", u[i][2]>>
    <3>1. i + n \in 1..Len(a) /\ a[i][1] = "call" /\ a[i + n] = <<"result", a[i][2]>>
      BY <1>0, <2>2 DEF Round
    <3>2. i \in 1..Len(a)
      BY <1>0, <3>1
    <3>3. u[i] = a[i] /\ u[i + n] = a[i + n]
      BY <1>2, <3>1, <3>2 DEF Joined
    <3> QED BY <1>0, <1>3, <3>1, <3>3
  <2>4. Round(u, first, n) /\ first \in DOMAIN u /\ n \in DOMAIN u
    BY <1>0, <1>3, <2>3 DEF Round
  <2> QED BY <2>2, <2>4
<1>5. ASSUME NEW j \in 1..Len(b), u[Len(a) + j] # <<"other">>
      PROVE  \E first, n \in DOMAIN u : Len(a) + j \in first..first + 2 * n - 1 /\ Round(u, first, n)
  <2>1. b[j] # <<"other">>
    BY <1>2, <1>5 DEF Joined
  <2>2. PICK first, n \in 1..Len(b) : j \in first..first + 2 * n - 1 /\ Round(b, first, n)
    BY <1>0, <2>1 DEF Paired
  <2>3. ASSUME NEW i \in Len(a) + first..(Len(a) + first) + n - 1
        PROVE  i + n \in DOMAIN u /\ u[i][1] = "call" /\ u[i + n] = <<"result", u[i][2]>>
    <3> DEFINE c == i - Len(a)
    <3>1. c \in first..first + n - 1 /\ i = Len(a) + c /\ i + n = Len(a) + (c + n)
      BY <1>0
    <3> HIDE DEF c
    <3>2. c + n \in 1..Len(b) /\ b[c][1] = "call" /\ b[c + n] = <<"result", b[c][2]>>
      BY <1>0, <2>2, <3>1 DEF Round
    <3>3. c \in 1..Len(b)
      <4>1. c \in Nat /\ c >= 1 /\ n \in Nat /\ Len(b) \in Nat
        BY <1>0, <3>1
      <4>2. \A x, y, z \in Nat : x >= 1 /\ x + y \in 1..z => x \in 1..z
        OBVIOUS
      <4> QED BY <3>2, <4>1, <4>2
    <3>4. u[i] = b[c] /\ u[i + n] = b[c + n]
      BY <1>2, <3>1, <3>2, <3>3 DEF Joined
    <3>5. i + n \in DOMAIN u
      <4>1. \A x, y \in Nat : \A z \in 1..y : x + z \in 1..x + y
        OBVIOUS
      <4> QED BY <1>0, <1>3, <3>1, <3>2, <4>1
    <3> QED BY <3>2, <3>4, <3>5
  <2>4. Round(u, Len(a) + first, n)
    BY <2>3 DEF Round
  <2>5. /\ Len(a) + first \in DOMAIN u /\ n \in DOMAIN u
        /\ Len(a) + j \in (Len(a) + first)..(Len(a) + first) + 2 * n - 1
    BY <1>0, <1>3, <2>2
  <2> QED BY <2>4, <2>5
<1>6. ASSUME NEW k \in DOMAIN u, u[k] # <<"other">>
      PROVE  \E first, n \in DOMAIN u : k \in first..first + 2 * n - 1 /\ Round(u, first, n)
  <2>1. CASE k \in 1..Len(a)
    BY <1>4, <1>6, <2>1
  <2>2. CASE k \notin 1..Len(a)
    <3> DEFINE j == k - Len(a)
    <3>1. j \in 1..Len(b) /\ k = Len(a) + j
      BY <1>0, <1>3, <2>2
    <3> HIDE DEF j
    <3> QED BY <1>5, <1>6, <3>1
  <2> QED BY <2>1, <2>2
<1>7. Paired(u)
  BY <1>6 DEF Paired
<1> QED BY <1>1, <1>7

\* Calls and at once their results.
LEMMA PairedRound ==
    ASSUME NEW blocks, IsSequence(blocks), NEW answers, IsSequence(answers), Len(answers) = Len(blocks),
           \A i \in 1..Len(blocks) : answers[i].id = blocks[i].id
    PROVE  Paired(CallMarks(blocks) \o ResultMarks(answers))
<1> DEFINE n == Len(blocks)
<1>0. n \in Nat
  BY DEF IsSequence
<1>1. PICK a : a = CallMarks(blocks)
  OBVIOUS
<1>2. PICK b : b = ResultMarks(answers)
  OBVIOUS
<1>3. IsSequence(a) /\ Len(a) = n /\ \A i \in 1..n : a[i] = <<"call", blocks[i].id>>
  BY <1>0, <1>1, MadeSeq DEF CallMarks
<1>4. IsSequence(b) /\ Len(b) = n /\ \A i \in 1..n : b[i] = <<"result", blocks[i].id>>
  BY <1>0, <1>2, MadeSeq DEF ResultMarks
<1>5. PICK u : u = a \o b
  OBVIOUS
<1> HIDE DEF n
<1>6. Joined(a, b, u)
  BY <1>3, <1>4, <1>5, ConcatJoins
<1>7. DOMAIN u = 1..n + n
  BY <1>3, <1>4, <1>6, SeqOfItems DEF Joined
<1>8. ASSUME NEW i \in 1..1 + n - 1
      PROVE  i + n \in DOMAIN u /\ u[i][1] = "call" /\ u[i + n] = <<"result", u[i][2]>>
  <2>1. i \in 1..n /\ i + n = n + i
    BY <1>0
  <2>2. u[i] = a[i] /\ u[n + i] = b[i]
    BY <1>3, <1>4, <1>6, <2>1 DEF Joined
  <2>3. u[i] = <<"call", blocks[i].id>> /\ u[n + i] = <<"result", blocks[i].id>>
    BY <1>3, <1>4, <2>1, <2>2
  <2> QED BY <1>0, <1>7, <2>1, <2>3
<1>9. Round(u, 1, n)
  BY <1>8 DEF Round
<1>10. ASSUME NEW k \in DOMAIN u PROVE 1 \in DOMAIN u /\ n \in DOMAIN u /\ k \in 1..1 + 2 * n - 1
  BY <1>0, <1>7
<1>11. Paired(u)
  BY <1>9, <1>10 DEF Paired
<1> QED BY <1>1, <1>2, <1>5, <1>11

-----------------------------------------------------------------------------
(* What goes on the wire for a list of messages, by provider.              *)

ParamOf(m) == [role |-> IF m.role = "tool" THEN "user" ELSE m.role, content |-> Kept(m.content, Sent)]
ParamPiece(m) == IF ParamOf(m).content # <<>> THEN <<ParamOf(m)>> ELSE <<>>
AnthropicMarks(ms) ==
    LET params == ToParams(ms) IN FlattenSeq([i \in DOMAIN params |-> ParamMarks(params[i])])

WirePiece(m) ==
    LET rs == BlocksOf(m, "tool_result")
        entry == [role |-> m.role,
                  content |-> Kept(BlocksOf(m, "text"), Sent),
                  tool_calls |-> BlocksOf(m, "tool_use")]
    IN  IF m.role = "tool" THEN [i \in DOMAIN rs |-> [role |-> "tool", tool_call_id |-> rs[i].id]]
        ELSE IF entry.content = <<>> /\ entry.tool_calls = <<>> THEN <<>>
        ELSE <<entry>>
WirePart(ms) == FlattenSeq([i \in DOMAIN ms |-> WirePiece(ms[i])])
OpenAIMarks(ms) ==
    LET wire == WirePart(ms) IN FlattenSeq([i \in DOMAIN wire |-> WireMarks(wire[i])])

Messaged(ms) == IsSequence(ms) /\ \A i \in 1..Len(ms) : IsSequence(ms[i].content)

LEMMA EmptyList == IsSequence(<<>>) /\ Len(<<>>) = 0
BY DEF IsSequence

LEMMA JoinedMessages ==
    ASSUME NEW a, Messaged(a), NEW b, Messaged(b) PROVE Messaged(a \o b)
<1>1. PICK u : u = a \o b
  OBVIOUS
<1>2. Joined(a, b, u)
  BY <1>1, ConcatJoins DEF Messaged
<1>3. ASSUME NEW i \in 1..Len(u) PROVE IsSequence(u[i].content)
  <2>1. CASE i \in 1..Len(a)
    BY <1>2, <2>1 DEF Joined, Messaged
  <2>2. CASE i - Len(a) \in 1..Len(b)
    <3> DEFINE j == i - Len(a)
    <3>1. j \in 1..Len(b) /\ i = Len(a) + j
      BY <1>2, <2>2 DEF Joined, Messaged, IsSequence
    <3> HIDE DEF j
    <3>2. u[i] = b[j]
      BY <1>2, <3>1 DEF Joined
    <3> QED BY <3>1, <3>2 DEF Messaged
  <2> QED BY <1>2, <2>1, <2>2 DEF Joined
<1> QED BY <1>1, <1>2, <1>3 DEF Joined, Messaged

LEMMA SentKept ==
    ASSUME NEW p, IsSequence(p), NEW q, IsSequence(q), \A i \in 1..Len(q) : q[i].type # "text"
    PROVE  \E o : IsSequence(o) /\ Kept(p \o q, Sent) = o \o q /\ From(o, p)
<1>0. Len(p) \in Nat /\ Len(q) \in Nat
  BY DEF IsSequence
<1>1. PICK s : s = p \o q
  OBVIOUS
<1>2. Joined(p, q, s)
  BY <1>1, ConcatJoins
<1>3. PICK k : k = [i \in 1..Len(s) |-> IF Sent(s[i]) THEN <<s[i]>> ELSE <<>>]
  OBVIOUS
<1>4. Kept(s, Sent) = FlattenSeq(k)
  <2>1. DOMAIN s = 1..Len(s)
    BY <1>2, SeqOfItems DEF Joined
  <2> QED BY <1>3, <2>1 DEF Kept
<1>5. IsSequence(k) /\ Len(k) = Len(s) /\ \A i \in 1..Len(s) : k[i] = IF Sent(s[i]) THEN <<s[i]>> ELSE <<>>
  <2>1. Len(s) \in Nat
    BY <1>2 DEF Joined, IsSequence
  <2>2. IsSequence(k) /\ Len(k) = Len(s)
    BY <1>3, <2>1, MadeSeq
  <2> QED BY <1>3, <2>2
<1>6. \A i \in 1..Len(p) : k[i] = <<>> \/ k[i] = <<p[i]>>
  <2>1. ASSUME NEW i \in 1..Len(p) PROVE i \in 1..Len(s) /\ s[i] = p[i]
    BY <1>0, <1>2 DEF Joined
  <2> QED BY <1>5, <2>1
<1>7. \A i \in 1..Len(q) : k[Len(p) + i] = <<q[i]>>
  <2>1. ASSUME NEW i \in 1..Len(q) PROVE Len(p) + i \in 1..Len(s) /\ s[Len(p) + i] = q[i]
    BY <1>0, <1>2 DEF Joined
  <2>2. ASSUME NEW i \in 1..Len(q) PROVE Sent(q[i])
    BY DEF Sent
  <2> QED BY <1>5, <2>1, <2>2
<1>8. Pieces(p, q, k)
  BY <1>2, <1>5, <1>6, <1>7 DEF Joined, Pieces
<1>9. PICK o : IsSequence(o) /\ FlattenSeq(k) = o \o q /\ From(o, p)
  BY <1>8, FlattenPicked
<1>10. Kept(p \o q, Sent) = o \o q
  BY <1>1, <1>4, <1>9
<1> QED BY <1>9, <1>10

LEMMA KeptIsList == ASSUME NEW s, IsSequence(s) PROVE IsSequence(Kept(s, Sent))
<1>1. IsSequence(<<>>) /\ Len(<<>>) = 0 /\ s \o <<>> = s
  BY EmptyList, ConcatEmpty
<1>2. \A i \in 1..Len(<<>>) : <<>>[i].type # "text"
  BY <1>1
<1>3. PICK e : e = <<>>
  OBVIOUS
<1>4. IsSequence(e) /\ \A i \in 1..Len(e) : e[i].type # "text"
  BY <1>1, <1>2, <1>3
<1>5. PICK o : IsSequence(o) /\ Kept(s \o e, Sent) = o \o e
  BY <1>4, SentKept
<1>6. s \o e = s /\ o \o e = o
  BY <1>3, <1>5, ConcatEmpty
<1> QED BY <1>5, <1>6

LEMMA BlocksOfParts ==
    ASSUME NEW type, NEW m, NEW p, IsSequence(p), NEW q, IsSequence(q), m.content = p \o q,
           \A i \in 1..Len(p) : p[i].type # type, \A i \in 1..Len(q) : q[i].type = type
    PROVE  BlocksOf(m, type) = q
<1>0. Len(p) \in Nat /\ Len(q) \in Nat
  BY DEF IsSequence
<1>1. PICK s : s = p \o q
  OBVIOUS
<1>2. Joined(p, q, s)
  BY <1>1, ConcatJoins
<1>3. PICK k : k = [i \in 1..Len(s) |-> IF s[i].type = type THEN <<s[i]>> ELSE <<>>]
  OBVIOUS
<1>4. BlocksOf(m, type) = FlattenSeq(k)
  <2>1. DOMAIN s = 1..Len(s)
    BY <1>2, SeqOfItems DEF Joined
  <2> QED BY <1>1, <1>3, <2>1 DEF BlocksOf, Kept
<1>5. IsSequence(k) /\ Len(k) = Len(s) /\ \A i \in 1..Len(s) : k[i] = IF s[i].type = type THEN <<s[i]>> ELSE <<>>
  <2>1. Len(s) \in Nat
    BY <1>2 DEF Joined, IsSequence
  <2>2. IsSequence(k) /\ Len(k) = Len(s)
    BY <1>3, <2>1, MadeSeq
  <2> QED BY <1>3, <2>2
<1>6. \A i \in 1..Len(p) : k[i] = <<>>
  <2>1. ASSUME NEW i \in 1..Len(p) PROVE i \in 1..Len(s) /\ s[i] = p[i]
    BY <1>0, <1>2 DEF Joined
  <2> QED BY <1>5, <2>1
<1>7. \A i \in 1..Len(q) : k[Len(p) + i] = <<q[i]>>
  <2>1. ASSUME NEW i \in 1..Len(q) PROVE Len(p) + i \in 1..Len(s) /\ s[Len(p) + i] = q[i]
    BY <1>0, <1>2 DEF Joined
  <2> QED BY <1>5, <2>1
<1>8. Pieces(p, q, k) /\ Blank(p, k)
  BY <1>2, <1>5, <1>6, <1>7 DEF Joined, Pieces, Blank
<1>9. PICK o : FlattenSeq(k) = o \o q /\ o = <<>>
  BY <1>8, FlattenPicked
<1> QED BY <1>4, <1>9, ConcatEmpty

LEMMA BlocksOfList == ASSUME NEW type, NEW m, IsSequence(m.content) PROVE IsSequence(BlocksOf(m, type))
<1>1. PICK s : s = m.content
  OBVIOUS
<1>2. IsSequence(s) /\ DOMAIN s = 1..Len(s) /\ Len(s) \in Nat
  BY <1>1, SeqOfItems
<1>3. PICK k : k = [i \in 1..Len(s) |-> IF s[i].type = type THEN <<s[i]>> ELSE <<>>]
  OBVIOUS
<1>4. BlocksOf(m, type) = FlattenSeq(k)
  BY <1>1, <1>2, <1>3 DEF BlocksOf, Kept
<1>5. IsSequence(k) /\ Len(k) = Len(s) /\ \A i \in 1..Len(s) : k[i] = IF s[i].type = type THEN <<s[i]>> ELSE <<>>
  <2>1. IsSequence(k) /\ Len(k) = Len(s)
    BY <1>2, <1>3, MadeSeq
  <2> QED BY <1>3, <2>1
<1>6. Lists(k)
  <2>1. \A x : IsSequence(<<x>>)
    BY SingletonSeq
  <2> QED BY <1>5, <2>1, EmptyList DEF Lists
<1> QED BY <1>4, <1>6, FlattenIsList

\* The entries of a list of messages; the marks of a list of entries.
Gathered(s, M) == FlattenSeq(Map(s, M))

LEMMA EntriesLists ==
    ASSUME NEW P, NEW ms, IsSequence(ms), \A i \in 1..Len(ms) : IsSequence(P[ms[i]])
    PROVE  Lists(Map(ms, P))
<1>1. PICK k : k = Map(ms, P)
  OBVIOUS
<1>2. \A i \in 1..Len(ms) : k[i] = P[ms[i]]
  BY <1>1 DEF Map
<1>3. IsSequence(k) /\ Len(k) = Len(ms)
  BY <1>1, MadeSeq DEF IsSequence, Map
<1> QED BY <1>1, <1>2, <1>3 DEF Lists

LEMMA EntriesConcat ==
    ASSUME NEW P, NEW a, IsSequence(a), NEW b, IsSequence(b),
           \A i \in 1..Len(a) : IsSequence(P[a[i]]), \A i \in 1..Len(b) : IsSequence(P[b[i]])
    PROVE  Gathered(a \o b, P) = Gathered(a, P) \o Gathered(b, P)
<1>1. PICK u : u = a \o b
  OBVIOUS
<1>2. PICK p, q, w : p = Map(a, P) /\ q = Map(b, P) /\ w = Map(u, P)
  OBVIOUS
<1>3. w = p \o q
  <2>1. Map(a \o b, P) = Map(a, P) \o Map(b, P)
    BY MapConcat
  <2> QED BY <1>1, <1>2, <2>1
<1>4. Lists(p) /\ Lists(q)
  BY <1>2, EntriesLists
<1>5. FlattenSeq(w) = FlattenSeq(p) \o FlattenSeq(q)
  BY <1>3, <1>4, FlattenConcat
<1> QED BY <1>1, <1>2, <1>5 DEF Gathered

\* An entry of the messages is one of some message.
LEMMA EntriesItems ==
    ASSUME NEW P, NEW ms, IsSequence(ms), \A i \in 1..Len(ms) : IsSequence(P[ms[i]]), NEW S,
           \A i \in 1..Len(ms) : \A j \in 1..Len(P[ms[i]]) : P[ms[i]][j] \in S
    PROVE  Gathered(ms, P) \in Seq(S)
<1>1. PICK k : k = Map(ms, P)
  OBVIOUS
<1>2. Lists(k)
  BY <1>1, EntriesLists
<1>3. Len(k) = Len(ms) /\ \A i \in 1..Len(ms) : k[i] = P[ms[i]]
  <2>1. Len(k) = Len(ms)
    BY <1>1, MadeSeq DEF IsSequence, Map
  <2> QED BY <1>1, <2>1 DEF Map
<1>4. FlattenSeq(k) \in Seq(S)
  BY <1>2, <1>3, FlattenItems
<1> QED BY <1>1, <1>4 DEF Gathered

LEMMA MarksConcat ==
    ASSUME NEW P, NEW M, NEW a, IsSequence(a), NEW b, IsSequence(b), NEW S,
           \A i \in 1..Len(a) : P[a[i]] \in Seq(S), \A i \in 1..Len(b) : P[b[i]] \in Seq(S),
           \A e \in S : IsSequence(M[e])
    PROVE  /\ Gathered(Gathered(a \o b, P), M) = Gathered(Gathered(a, P), M) \o Gathered(Gathered(b, P), M)
           /\ IsSequence(Gathered(Gathered(a, P), M))
<1>1. /\ \A i \in 1..Len(a) : IsSequence(P[a[i]]) /\ \A j \in 1..Len(P[a[i]]) : P[a[i]][j] \in S
      /\ \A i \in 1..Len(b) : IsSequence(P[b[i]]) /\ \A j \in 1..Len(P[b[i]]) : P[b[i]][j] \in S
  BY ItemsOfSeq, ElementOfSeq
<1>2. PICK x, y : x = Gathered(a, P) /\ y = Gathered(b, P)
  OBVIOUS
<1>3. Gathered(a \o b, P) = x \o y
  BY <1>1, <1>2, EntriesConcat
<1>4. x \in Seq(S)
  BY <1>1, <1>2, EntriesItems
<1>5. y \in Seq(S)
  BY <1>1, <1>2, EntriesItems
<1>6. IsSequence(x) /\ \A i \in 1..Len(x) : IsSequence(M[x[i]])
  BY <1>4, ItemsOfSeq, ElementOfSeq
<1>7. IsSequence(y) /\ \A i \in 1..Len(y) : IsSequence(M[y[i]])
  BY <1>5, ItemsOfSeq, ElementOfSeq
<1>8. Gathered(x \o y, M) = Gathered(x, M) \o Gathered(y, M)
  BY <1>6, <1>7, EntriesConcat
<1>9. Lists(Map(x, M))
  BY <1>6, EntriesLists
<1>10. IsSequence(Gathered(x, M))
  BY <1>9, FlattenIsList DEF Gathered
<1> QED BY <1>2, <1>3, <1>8, <1>10

LEMMA MarksOne ==
    ASSUME NEW P, NEW M, NEW m, IsSequence(P[m])
    PROVE  Gathered(Gathered(<<m>>, P), M) = Gathered(P[m], M)
<1>1. Len(<<m>>) = 1 /\ <<m>>[1] = m
  BY SingletonSeq
<1>2. PICK k : k = Map(<<m>>, P)
  OBVIOUS
<1>3. k = <<P[m]>>
  <2>1. k = [i \in 1..1 |-> P[m]]
    BY <1>1, <1>2 DEF Map
  <2> QED BY <2>1
<1>4. FlattenSeq(k) = P[m]
  BY <1>3, FlattenOne
<1> QED BY <1>2, <1>4 DEF Gathered

-----------------------------------------------------------------------------
(* The wire of a list of messages, message by message.                     *)

Params(X) == {ParamOf(m) : m \in X}
ParamPieces(X) == [m \in X |-> ParamPiece(m)]
ParamsMarks(X) == [e \in Params(X) |-> ParamMarks(e)]

LEMMA AnthropicGathered ==
    ASSUME NEW X, \A m \in X : IsSequence(m.content)
    PROVE  /\ \A ms \in Seq(X) : AnthropicMarks(ms) = Gathered(Gathered(ms, ParamPieces(X)), ParamsMarks(X))
           /\ \A m \in X : ParamPieces(X)[m] \in Seq(Params(X))
           /\ \A e \in Params(X) : IsSequence(ParamsMarks(X)[e])
<1>1. ASSUME NEW m \in X PROVE ParamPieces(X)[m] \in Seq(Params(X))
  <2>1. ParamOf(m) \in Params(X)
    BY DEF Params
  <2>2. ParamPieces(X)[m] = <<>> \/ ParamPieces(X)[m] = <<ParamOf(m)>>
    BY DEF ParamPieces, ParamPiece
  <2>3. <<>> \in Seq(Params(X)) /\ <<ParamOf(m)>> \in Seq(Params(X))
    BY <2>1
  <2> QED BY <2>2, <2>3
<1>2. ASSUME NEW e \in Params(X) PROVE IsSequence(ParamsMarks(X)[e])
  <2>1. PICK m \in X : e = ParamOf(m)
    BY DEF Params
  <2>2. IsSequence(e.content)
    BY <2>1, KeptIsList DEF ParamOf
  <2>3. DOMAIN e.content = 1..Len(e.content) /\ Len(e.content) \in Nat
    BY <2>2, SeqOfItems
  <2>4. PICK k : k = ParamMarks(e)
    OBVIOUS
  <2>5. k = [i \in 1..Len(e.content) |-> k[i]]
    BY <2>3, <2>4 DEF ParamMarks
  <2>6. IsSequence(k)
    BY <2>3, <2>5, MadeSeq
  <2> QED BY <2>4, <2>6 DEF ParamsMarks
<1>3. ASSUME NEW ms \in Seq(X)
      PROVE  AnthropicMarks(ms) = Gathered(Gathered(ms, ParamPieces(X)), ParamsMarks(X))
  <2>1. DOMAIN ms = 1..Len(ms) /\ \A i \in 1..Len(ms) : ms[i] \in X
    OBVIOUS
  <2> DEFINE params == [i \in DOMAIN ms |-> ParamOf(ms[i])]
             pieces == [i \in DOMAIN params |-> IF params[i].content # <<>> THEN <<params[i]>> ELSE <<>>]
  <2>2. ToParams(ms) = FlattenSeq(pieces)
    BY DEF ToParams, Kept, ParamOf
  <2>3. pieces = Map(ms, ParamPieces(X))
    BY <2>1 DEF Map, ParamPieces, ParamPiece
  <2> HIDE DEF pieces, params
  <2>4. PICK p : p = ToParams(ms)
    OBVIOUS
  <2>5. p = Gathered(ms, ParamPieces(X))
    BY <2>2, <2>3, <2>4 DEF Gathered
  <2>6. \A i \in 1..Len(ms) :
          IsSequence(ParamPieces(X)[ms[i]]) /\ \A j \in 1..Len(ParamPieces(X)[ms[i]]) : ParamPieces(X)[ms[i]][j] \in Params(X)
    BY <1>1, <2>1, ItemsOfSeq, ElementOfSeq
  <2>7. p \in Seq(Params(X))
    <3>1. IsSequence(ms)
      BY ItemsOfSeq
    <3> QED BY <2>5, <2>6, <3>1, EntriesItems
  <2>8. DOMAIN p = 1..Len(p) /\ \A i \in 1..Len(p) : p[i] \in Params(X)
    BY <2>7
  <2>9. [i \in DOMAIN p |-> ParamMarks(p[i])] = Map(p, ParamsMarks(X))
    BY <2>8 DEF Map, ParamsMarks
  <2>10. AnthropicMarks(ms) = FlattenSeq([i \in DOMAIN p |-> ParamMarks(p[i])])
    BY <2>4 DEF AnthropicMarks
  <2> QED BY <2>5, <2>9, <2>10 DEF Gathered
<1> QED BY <1>1, <1>2, <1>3

\* Messages of two lists and of one more.
LEMMA CommonSet ==
    ASSUME NEW a, Messaged(a), NEW b, Messaged(b)
    PROVE  \E X : a \in Seq(X) /\ b \in Seq(X) /\ \A m \in X : IsSequence(m.content)
<1> DEFINE X == {a[i] : i \in 1..Len(a)} \cup {b[i] : i \in 1..Len(b)}
<1>1. (\A i \in 1..Len(a) : a[i] \in X) /\ (\A i \in 1..Len(b) : b[i] \in X)
  OBVIOUS
<1>2. \A m \in X : IsSequence(m.content)
  BY DEF Messaged
<1> HIDE DEF X
<1>3. a \in Seq(X)
  BY <1>1, SeqOfItems DEF Messaged
<1>4. b \in Seq(X)
  BY <1>1, SeqOfItems DEF Messaged
<1> QED BY <1>2, <1>3, <1>4

LEMMA AnthropicConcat ==
    ASSUME NEW a, Messaged(a), NEW b, Messaged(b)
    PROVE  AnthropicMarks(a \o b) = AnthropicMarks(a) \o AnthropicMarks(b) /\ IsSequence(AnthropicMarks(a))
<1>1. PICK X : a \in Seq(X) /\ b \in Seq(X) /\ \A m \in X : IsSequence(m.content)
  BY CommonSet
<1>2. a \o b \in Seq(X)
  BY <1>1, ConcatProperties
<1>3. PICK P, M : P = ParamPieces(X) /\ M = ParamsMarks(X)
  OBVIOUS
<1>4. /\ \A ms \in Seq(X) : AnthropicMarks(ms) = Gathered(Gathered(ms, P), M)
      /\ \A m \in X : P[m] \in Seq(Params(X))
      /\ \A e \in Params(X) : IsSequence(M[e])
  BY <1>1, <1>3, AnthropicGathered
<1>5. (\A i \in 1..Len(a) : a[i] \in X) /\ (\A i \in 1..Len(b) : b[i] \in X)
  BY <1>1
<1>6. IsSequence(a) /\ IsSequence(b)
  BY DEF Messaged
<1>7. /\ Gathered(Gathered(a \o b, P), M) = Gathered(Gathered(a, P), M) \o Gathered(Gathered(b, P), M)
      /\ IsSequence(Gathered(Gathered(a, P), M))
  BY <1>4, <1>5, <1>6, MarksConcat
<1> QED BY <1>1, <1>2, <1>4, <1>7

LEMMA AnthropicOne ==
    ASSUME NEW m, IsSequence(m.content)
    PROVE  AnthropicMarks(<<m>>) = ParamMarks(ParamOf(m)) /\ Messaged(<<m>>)
<1>0. Messaged(<<m>>)
  BY SingletonSeq DEF Messaged
<1> DEFINE X == {m}
<1>1. <<m>> \in Seq(X) /\ m \in X /\ \A x \in X : IsSequence(x.content)
  OBVIOUS
<1> HIDE DEF X
<1>2. PICK P, M : P = ParamPieces(X) /\ M = ParamsMarks(X)
  OBVIOUS
<1>3. AnthropicMarks(<<m>>) = Gathered(Gathered(<<m>>, P), M) /\ P[m] \in Seq(Params(X))
      /\ \A e \in Params(X) : IsSequence(M[e])
  BY <1>1, <1>2, AnthropicGathered
<1>4. IsSequence(P[m])
  BY <1>3, ItemsOfSeq
<1>5. AnthropicMarks(<<m>>) = Gathered(P[m], M)
  BY <1>3, <1>4, MarksOne
<1>6. P[m] = ParamPiece(m) /\ ParamOf(m) \in Params(X) /\ M[ParamOf(m)] = ParamMarks(ParamOf(m))
  BY <1>1, <1>2 DEF ParamPieces, ParamsMarks, Params
<1>7. CASE ParamOf(m).content # <<>>
  <2>1. P[m] = <<ParamOf(m)>>
    BY <1>6, <1>7 DEF ParamPiece
  <2>2. Map(P[m], M) = <<ParamMarks(ParamOf(m))>>
    <3>1. Len(P[m]) = 1 /\ P[m][1] = ParamOf(m)
      BY <2>1, SingletonSeq
    <3>2. PICK k : k = Map(P[m], M)
      OBVIOUS
    <3>3. k = [i \in 1..1 |-> ParamMarks(ParamOf(m))]
      BY <1>6, <3>1, <3>2 DEF Map
    <3> QED BY <3>2, <3>3
  <2>3. IsSequence(ParamMarks(ParamOf(m)))
    BY <1>3, <1>6
  <2> QED BY <1>0, <1>5, <2>2, <2>3, FlattenOne DEF Gathered
<1>8. CASE ParamOf(m).content = <<>>
  <2>1. P[m] = <<>>
    BY <1>6, <1>8 DEF ParamPiece
  <2>2. Map(P[m], M) = <<>> /\ FlattenSeq(<<>>) = <<>>
    BY <2>1 DEF Map, FlattenSeq
  <2>3. ParamMarks(ParamOf(m)) = <<>>
    BY <1>8 DEF ParamMarks
  <2> QED BY <1>0, <1>5, <2>2, <2>3 DEF Gathered
<1> QED BY <1>7, <1>8

WirePieces(X) == [m \in X |-> WirePiece(m)]
WireEntries(X) == UNION {{WirePiece(m)[i] : i \in 1..Len(WirePiece(m))} : m \in X}
EntriesMarks(X) == [e \in WireEntries(X) |-> WireMarks(e)]

LEMMA WirePieceLists ==
    ASSUME NEW m, IsSequence(m.content)
    PROVE  IsSequence(WirePiece(m)) /\ \A i \in 1..Len(WirePiece(m)) : IsSequence(WireMarks(WirePiece(m)[i]))
<1>1. PICK rs, uses, text : /\ rs = BlocksOf(m, "tool_result") /\ uses = BlocksOf(m, "tool_use")
                            /\ text = Kept(BlocksOf(m, "text"), Sent)
  OBVIOUS
<1>2. IsSequence(rs) /\ IsSequence(uses)
  BY <1>1, BlocksOfList
<1>3. DOMAIN rs = 1..Len(rs) /\ Len(rs) \in Nat /\ DOMAIN uses = 1..Len(uses) /\ Len(uses) \in Nat
  BY <1>2, SeqOfItems
<1>4. PICK k : k = WirePiece(m)
  OBVIOUS
<1>5. CASE m.role = "tool"
  <2>1. k = [i \in 1..Len(rs) |-> [role |-> "tool", tool_call_id |-> rs[i].id]]
    BY <1>1, <1>3, <1>4, <1>5 DEF WirePiece
  <2>2. k = [i \in 1..Len(rs) |-> k[i]]
    BY <2>1
  <2>3. IsSequence(k) /\ Len(k) = Len(rs)
    BY <1>3, <2>2, MadeSeq
  <2>4. ASSUME NEW i \in 1..Len(k) PROVE IsSequence(WireMarks(k[i]))
    <3>1. k[i].role = "tool"
      BY <2>1, <2>3
    <3>2. WireMarks(k[i]) = <<<<"result", k[i].tool_call_id>>>>
      BY <3>1 DEF WireMarks
    <3> QED BY <3>2, SingletonSeq
  <2> QED BY <1>4, <2>3, <2>4
<1>6. CASE m.role # "tool"
  <2>1. PICK entry : entry = [role |-> m.role, content |-> text, tool_calls |-> uses]
    OBVIOUS
  <2>2. k = <<>> \/ k = <<entry>>
    BY <1>1, <1>4, <1>6, <2>1 DEF WirePiece
  <2>3. IsSequence(WireMarks(entry))
    <3>1. entry.role = m.role /\ entry.tool_calls = uses
      BY <2>1
    <3>2. PICK marks : marks = [i \in 1..Len(uses) |-> <<"call", uses[i].id>>]
      OBVIOUS
    <3>3. WireMarks(entry) = marks \/ WireMarks(entry) = <<<<"other">>>>
      BY <1>3, <1>6, <3>1, <3>2 DEF WireMarks
    <3>4. marks = [i \in 1..Len(uses) |-> marks[i]]
      BY <3>2
    <3>5. IsSequence(marks)
      BY <1>3, <3>4, MadeSeq
    <3> QED BY <3>3, <3>5, SingletonSeq
  <2>4. CASE k = <<>>
    BY <1>4, <2>4, EmptyList
  <2>5. CASE k = <<entry>>
    <3>1. IsSequence(k) /\ Len(k) = 1 /\ k[1] = entry
      BY <2>5, SingletonSeq
    <3> QED BY <1>4, <2>3, <3>1
  <2> QED BY <2>2, <2>4, <2>5
<1> QED BY <1>5, <1>6

LEMMA OpenAIGathered ==
    ASSUME NEW X, \A m \in X : IsSequence(m.content)
    PROVE  /\ \A ms \in Seq(X) : OpenAIMarks(ms) = Gathered(Gathered(ms, WirePieces(X)), EntriesMarks(X))
           /\ \A m \in X : WirePieces(X)[m] \in Seq(WireEntries(X))
           /\ \A e \in WireEntries(X) : IsSequence(EntriesMarks(X)[e])
<1>1. ASSUME NEW m \in X PROVE WirePieces(X)[m] \in Seq(WireEntries(X))
  <2>1. PICK k : k = WirePiece(m)
    OBVIOUS
  <2>2. IsSequence(k) /\ \A i \in 1..Len(k) : k[i] \in WireEntries(X)
    BY <2>1, WirePieceLists DEF WireEntries
  <2>3. k \in Seq(WireEntries(X))
    BY <2>2, SeqOfItems
  <2> QED BY <2>1, <2>3 DEF WirePieces
<1>2. ASSUME NEW e \in WireEntries(X) PROVE IsSequence(EntriesMarks(X)[e])
  <2>1. \E m \in X : \E i \in 1..Len(WirePiece(m)) : e = WirePiece(m)[i]
    BY DEF WireEntries
  <2>2. IsSequence(WireMarks(e))
    BY <2>1, WirePieceLists
  <2> QED BY <2>2 DEF EntriesMarks
<1>3. ASSUME NEW ms \in Seq(X)
      PROVE  OpenAIMarks(ms) = Gathered(Gathered(ms, WirePieces(X)), EntriesMarks(X))
  <2>1. DOMAIN ms = 1..Len(ms) /\ \A i \in 1..Len(ms) : ms[i] \in X
    OBVIOUS
  <2>2. [i \in DOMAIN ms |-> WirePiece(ms[i])] = Map(ms, WirePieces(X))
    BY <2>1 DEF Map, WirePieces
  <2>3. PICK p : p = WirePart(ms)
    OBVIOUS
  <2>4. p = Gathered(ms, WirePieces(X))
    BY <2>2, <2>3 DEF Gathered, WirePart
  <2>5. \A i \in 1..Len(ms) :
          IsSequence(WirePieces(X)[ms[i]]) /\ \A j \in 1..Len(WirePieces(X)[ms[i]]) : WirePieces(X)[ms[i]][j] \in WireEntries(X)
    BY <1>1, <2>1, ItemsOfSeq, ElementOfSeq
  <2>6. p \in Seq(WireEntries(X))
    <3>1. IsSequence(ms)
      BY ItemsOfSeq
    <3> QED BY <2>4, <2>5, <3>1, EntriesItems
  <2>7. DOMAIN p = 1..Len(p) /\ \A i \in 1..Len(p) : p[i] \in WireEntries(X)
    BY <2>6
  <2>8. [i \in DOMAIN p |-> WireMarks(p[i])] = Map(p, EntriesMarks(X))
    BY <2>7 DEF Map, EntriesMarks
  <2>9. OpenAIMarks(ms) = FlattenSeq([i \in DOMAIN p |-> WireMarks(p[i])])
    BY <2>3 DEF OpenAIMarks
  <2> QED BY <2>4, <2>8, <2>9 DEF Gathered
<1> QED BY <1>1, <1>2, <1>3

LEMMA OpenAIConcat ==
    ASSUME NEW a, Messaged(a), NEW b, Messaged(b)
    PROVE  OpenAIMarks(a \o b) = OpenAIMarks(a) \o OpenAIMarks(b) /\ IsSequence(OpenAIMarks(a))
<1>1. PICK X : a \in Seq(X) /\ b \in Seq(X) /\ \A m \in X : IsSequence(m.content)
  BY CommonSet
<1>2. a \o b \in Seq(X)
  BY <1>1, ConcatProperties
<1>3. PICK P, M : P = WirePieces(X) /\ M = EntriesMarks(X)
  OBVIOUS
<1>4. /\ \A ms \in Seq(X) : OpenAIMarks(ms) = Gathered(Gathered(ms, P), M)
      /\ \A m \in X : P[m] \in Seq(WireEntries(X))
      /\ \A e \in WireEntries(X) : IsSequence(M[e])
  BY <1>1, <1>3, OpenAIGathered
<1>5. (\A i \in 1..Len(a) : a[i] \in X) /\ (\A i \in 1..Len(b) : b[i] \in X)
  BY <1>1
<1>6. IsSequence(a) /\ IsSequence(b)
  BY DEF Messaged
<1>7. /\ Gathered(Gathered(a \o b, P), M) = Gathered(Gathered(a, P), M) \o Gathered(Gathered(b, P), M)
      /\ IsSequence(Gathered(Gathered(a, P), M))
  BY <1>4, <1>5, <1>6, MarksConcat
<1> QED BY <1>1, <1>2, <1>4, <1>7

LEMMA OpenAIOne ==
    ASSUME NEW m, IsSequence(m.content)
    PROVE  OpenAIMarks(<<m>>) = FlattenSeq([i \in 1..Len(WirePiece(m)) |-> WireMarks(WirePiece(m)[i])])
<1> DEFINE X == {m}
<1>1. <<m>> \in Seq(X) /\ m \in X /\ \A x \in X : IsSequence(x.content)
  OBVIOUS
<1> HIDE DEF X
<1>2. PICK P, M : P = WirePieces(X) /\ M = EntriesMarks(X)
  OBVIOUS
<1>3. OpenAIMarks(<<m>>) = Gathered(Gathered(<<m>>, P), M) /\ P[m] \in Seq(WireEntries(X))
  BY <1>1, <1>2, OpenAIGathered
<1>4. IsSequence(P[m])
  BY <1>3, ItemsOfSeq
<1>5. OpenAIMarks(<<m>>) = Gathered(P[m], M)
  BY <1>3, <1>4, MarksOne
<1>6. PICK k : k = WirePiece(m)
  OBVIOUS
<1>7. P[m] = k
  BY <1>1, <1>2, <1>6 DEF WirePieces
<1>8. \A i \in 1..Len(k) : k[i] \in WireEntries(X)
  BY <1>1, <1>6 DEF WireEntries
<1>9. Map(k, M) = [i \in 1..Len(k) |-> WireMarks(k[i])]
  BY <1>2, <1>8 DEF Map, EntriesMarks
<1> QED BY <1>5, <1>6, <1>7, <1>9 DEF Gathered

-----------------------------------------------------------------------------
(* The marks of the messages of a conversation.                            *)

Plain(p) == IsSequence(p) /\ \A i \in 1..Len(p) : p[i].type \notin {"tool_use", "tool_result"}
Typed(q, type) == IsSequence(q) /\ \A i \in 1..Len(q) : q[i].type = type

LEMMA NothingTyped == \A type : Typed(<<>>, type)
BY EmptyList DEF Typed

LEMMA PlainHasNo ==
    ASSUME NEW m, Plain(m.content), NEW type \in {"tool_use", "tool_result"}
    PROVE  BlocksOf(m, type) = <<>>
<1>1. PICK p, q : p = m.content /\ q = <<>>
  OBVIOUS
<1>2. IsSequence(p) /\ IsSequence(q) /\ p \o q = p /\ Len(q) = 0
  BY <1>1, EmptyList, ConcatEmpty DEF Plain
<1>3. (\A i \in 1..Len(p) : p[i].type # type) /\ (\A i \in 1..Len(q) : q[i].type = type) /\ m.content = p \o q
  BY <1>1, <1>2 DEF Plain
<1>4. BlocksOf(m, type) = q
  BY <1>2, <1>3, BlocksOfParts, SMTT(20)
<1> QED BY <1>1, <1>4

\* What Anthropic gets of a message that begins with p: marks, and before them
\* others.
AnthropicGets(m, p, marks) ==
    \E o : Others(o) /\ (p = <<>> => o = <<>>) /\ AnthropicMarks(<<m>>) = o \o marks

LEMMA AnthropicParts ==
    ASSUME NEW m, NEW p, Plain(p), NEW q, IsSequence(q), m.content = p \o q,
           NEW type \in {"tool_use", "tool_result"}, Typed(q, type)
    PROVE  /\ type = "tool_use" => AnthropicGets(m, p, CallMarks(q))
           /\ type = "tool_result" => AnthropicGets(m, p, ResultMarks(q))
<1>1. IsSequence(p) /\ \A i \in 1..Len(q) : q[i].type # "text"
  BY DEF Plain, Typed
<1>2. PICK o : IsSequence(o) /\ Kept(p \o q, Sent) = o \o q /\ From(o, p)
  BY <1>1, SentKept
<1>3. IsSequence(m.content)
  BY <1>1, ConcatJoins DEF Joined
<1>4. AnthropicMarks(<<m>>) = ParamMarks(ParamOf(m))
  BY <1>3, AnthropicOne
<1>5. PICK u : u = o \o q
  OBVIOUS
<1>6. Joined(o, q, u)
  BY <1>2, <1>5, ConcatJoins
<1>7. ParamOf(m).content = u
  BY <1>2, <1>5 DEF ParamOf
<1>8. PICK k, a, r : /\ k = ParamMarks(ParamOf(m)) /\ a = [i \in 1..Len(o) |-> <<"other">>]
                     /\ r = IF type = "tool_use" THEN CallMarks(q) ELSE ResultMarks(q)
  OBVIOUS
<1>9. Len(o) \in Nat /\ Len(q) \in Nat /\ Len(u) \in Nat /\ DOMAIN u = 1..Len(u)
  BY <1>2, <1>6, SeqOfItems DEF Joined, IsSequence
<1>10. IsSequence(a) /\ Len(a) = Len(o) /\ \A i \in 1..Len(o) : a[i] = <<"other">>
  <2>1. a = [i \in 1..Len(o) |-> a[i]]
    BY <1>8
  <2>2. IsSequence(a) /\ Len(a) = Len(o)
    BY <1>9, <2>1, MadeSeq
  <2> QED BY <1>8, <2>2
<1>11. IsSequence(r) /\ Len(r) = Len(q)
       /\ \A i \in 1..Len(q) : r[i] = IF type = "tool_use" THEN <<"call", q[i].id>> ELSE <<"result", q[i].id>>
  <2>1. r = [i \in 1..Len(q) |-> r[i]]
    BY <1>8 DEF CallMarks, ResultMarks
  <2>2. IsSequence(r) /\ Len(r) = Len(q)
    BY <1>9, <2>1, MadeSeq
  <2> QED BY <1>8, <2>2 DEF CallMarks, ResultMarks
<1>12. k = [i \in 1..Len(u) |->
             CASE u[i].type = "tool_use"    -> <<"call", u[i].id>>
               [] u[i].type = "tool_result" -> <<"result", u[i].id>>
               [] OTHER -> <<"other">>]
  BY <1>7, <1>8, <1>9 DEF ParamMarks
<1>13. IsSequence(k) /\ Len(k) = Len(u)
  <2>1. k = [i \in 1..Len(u) |-> k[i]]
    BY <1>12
  <2> QED BY <1>9, <2>1, MadeSeq
<1>14. ASSUME NEW i \in 1..Len(o) PROVE k[i] = a[i]
  <2>1. u[i] = o[i] /\ i \in 1..Len(u)
    BY <1>6, <1>9 DEF Joined
  <2>2. PICK j \in 1..Len(p) : o[i] = p[j]
    BY <1>2 DEF From
  <2>3. u[i].type \notin {"tool_use", "tool_result"}
    BY <2>1, <2>2 DEF Plain
  <2> QED BY <1>10, <1>12, <2>1, <2>3
<1>15. ASSUME NEW i \in 1..Len(q) PROVE k[Len(o) + i] = r[i]
  <2>1. u[Len(o) + i] = q[i] /\ Len(o) + i \in 1..Len(u)
    BY <1>6, <1>9 DEF Joined
  <2>2. q[i].type = type
    BY DEF Typed
  <2> QED BY <1>11, <1>12, <2>1, <2>2
<1>16. k = a \o r
  <2>1. PICK v : v = a \o r
    OBVIOUS
  <2>2. Joined(a, r, v)
    BY <1>10, <1>11, <2>1, ConcatJoins
  <2>3. Len(k) = Len(v) /\ IsSequence(v)
    BY <1>6, <1>10, <1>11, <1>13, <2>2 DEF Joined
  <2>4. ASSUME NEW i \in 1..Len(k) PROVE k[i] = v[i]
    <3>1. CASE i \in 1..Len(o)
      BY <1>10, <1>14, <2>2, <3>1 DEF Joined
    <3>2. CASE i \notin 1..Len(o)
      <4> DEFINE j == i - Len(o)
      <4>1. j \in 1..Len(q) /\ i = Len(o) + j
        BY <1>6, <1>9, <1>13, <3>2 DEF Joined
      <4> HIDE DEF j
      <4>2. v[Len(o) + j] = r[j]
        BY <1>10, <1>11, <2>2, <4>1 DEF Joined
      <4> QED BY <1>15, <4>1, <4>2
    <3> QED BY <3>1, <3>2
  <2>5. k = v
    BY <1>13, <2>3, <2>4, SameItems
  <2> QED BY <2>1, <2>5
<1>17. Others(a)
  BY <1>10 DEF Others
<1>18. p = <<>> => a = <<>>
  <2> SUFFICES ASSUME p = <<>> PROVE a = <<>>
    OBVIOUS
  <2>1. Len(p) = 0
    BY EmptyList
  <2>2. ~ \E i \in 1..Len(o) : TRUE
    BY <1>2, <2>1 DEF From
  <2>3. Len(o) = 0
    BY <1>9, <2>2
  <2> QED BY <1>8, <2>3
<1>19. AnthropicGets(m, p, r)
  BY <1>4, <1>8, <1>16, <1>17, <1>18 DEF AnthropicGets
<1> QED BY <1>8, <1>19

LEMMA PlainMessage ==
    ASSUME NEW m, Plain(m.content)
    PROVE  Others(AnthropicMarks(<<m>>)) /\ Others(OpenAIMarks(<<m>>))
<1>1. PICK p, q : p = m.content /\ q = <<>>
  OBVIOUS
<1>2. IsSequence(p) /\ IsSequence(q) /\ m.content = p \o q /\ Plain(p) /\ Typed(q, "tool_use")
  BY <1>1, EmptyList, ConcatEmpty, NothingTyped DEF Plain
<1>3. PICK o, r : Others(o) /\ AnthropicMarks(<<m>>) = o \o r /\ r = CallMarks(q)
  <2>1. AnthropicGets(m, p, CallMarks(q))
    BY <1>2, AnthropicParts
  <2> QED BY <2>1 DEF AnthropicGets
<1>4. r = <<>>
  <2>1. Len(q) = 0
    BY <1>1, EmptyList
  <2> QED BY <1>3, <2>1 DEF CallMarks
<1>5. Others(AnthropicMarks(<<m>>))
  BY <1>3, <1>4, ConcatEmpty DEF Others
<1>6. BlocksOf(m, "tool_result") = <<>> /\ BlocksOf(m, "tool_use") = <<>>
  BY PlainHasNo
<1>7. PICK k : k = WirePiece(m)
  OBVIOUS
<1>8. PICK marks : marks = [i \in 1..Len(k) |-> WireMarks(k[i])]
  OBVIOUS
<1>9. OpenAIMarks(<<m>>) = FlattenSeq(marks)
  BY <1>2, <1>1, <1>7, <1>8, OpenAIOne
<1>10. CASE k = <<>>
  <2>1. marks = <<>> /\ FlattenSeq(<<>>) = <<>>
    BY <1>8, <1>10 DEF FlattenSeq
  <2> QED BY <1>5, <1>9, <2>1, EmptyList DEF Others
<1>11. CASE k # <<>>
  <2>1. m.role # "tool"
    BY <1>6, <1>7, <1>11 DEF WirePiece
  <2>2. PICK entry : k = <<entry>> /\ entry.role = m.role /\ entry.tool_calls = <<>>
    BY <1>6, <1>7, <1>11, <2>1 DEF WirePiece
  <2>3. WireMarks(entry) = <<<<"other">>>>
    BY <2>1, <2>2 DEF WireMarks
  <2>4. Len(k) = 1 /\ k[1] = entry
    BY <2>2, SingletonSeq
  <2>5. marks = <<<<<<"other">>>>>>
    <3>1. marks = [i \in 1..1 |-> <<<<"other">>>>]
      BY <1>8, <2>3, <2>4
    <3> QED BY <3>1
  <2>6. PICK x : x = <<<<"other">>>>
    OBVIOUS
  <2>7. IsSequence(x) /\ Len(x) = 1 /\ x[1] = <<"other">>
    BY <2>6, SingletonSeq
  <2>8. FlattenSeq(marks) = x
    BY <2>5, <2>6, <2>7, FlattenOne
  <2> QED BY <1>5, <1>9, <2>7, <2>8 DEF Others
<1> QED BY <1>10, <1>11

LEMMA CallsMessage ==
    ASSUME NEW m, m.role = "assistant", NEW p, Plain(p), NEW q, m.content = p \o q, Typed(q, "tool_use"), q # <<>>
    PROVE  OpenAIMarks(<<m>>) = CallMarks(q)
<1>1. IsSequence(p) /\ IsSequence(q) /\ \A i \in 1..Len(p) : p[i].type # "tool_use"
  BY DEF Plain, Typed
<1>2. \A i \in 1..Len(q) : q[i].type = "tool_use"
  BY DEF Typed
<1>3. BlocksOf(m, "tool_use") = q
  BY <1>1, <1>2, BlocksOfParts
<1>4. IsSequence(m.content)
  BY <1>1, ConcatJoins DEF Joined
<1>5. PICK k : k = WirePiece(m)
  OBVIOUS
<1>6. PICK entry : k = <<entry>> /\ entry.role = "assistant" /\ entry.tool_calls = q
  BY <1>3, <1>5 DEF WirePiece
<1>7. PICK x : x = CallMarks(q)
  OBVIOUS
<1>8. DOMAIN q = 1..Len(q) /\ Len(q) \in Nat
  BY <1>1, SeqOfItems
<1>9. WireMarks(entry) = x
  BY <1>6, <1>7, <1>8 DEF WireMarks, CallMarks
<1>10. IsSequence(x)
  <2>1. x = [i \in 1..Len(q) |-> x[i]]
    BY <1>7 DEF CallMarks
  <2> QED BY <1>8, <2>1, MadeSeq
<1>11. PICK marks : marks = [i \in 1..Len(k) |-> WireMarks(k[i])]
  OBVIOUS
<1>12. Len(k) = 1 /\ k[1] = entry
  BY <1>6, SingletonSeq
<1>13. marks = <<x>>
  <2>1. marks = [i \in 1..1 |-> x]
    BY <1>9, <1>11, <1>12
  <2> QED BY <2>1
<1>14. OpenAIMarks(<<m>>) = FlattenSeq(marks)
  BY <1>4, <1>5, <1>11, OpenAIOne
<1> QED BY <1>7, <1>10, <1>13, <1>14, FlattenOne

LEMMA ResultsMessage ==
    ASSUME NEW m, m.role = "tool", NEW q, m.content = q, Typed(q, "tool_result")
    PROVE  OpenAIMarks(<<m>>) = ResultMarks(q)
<1>1. PICK p : p = <<>>
  OBVIOUS
<1>2. IsSequence(p) /\ IsSequence(q) /\ p \o q = q /\ Len(p) = 0
  BY <1>1, EmptyList, ConcatEmpty DEF Typed
<1>3. (\A i \in 1..Len(p) : p[i].type # "tool_result") /\ (\A i \in 1..Len(q) : q[i].type = "tool_result") /\ m.content = p \o q
  BY <1>2 DEF Typed
<1>4. BlocksOf(m, "tool_result") = q
  BY <1>2, <1>3, BlocksOfParts
<1>5. DOMAIN q = 1..Len(q) /\ Len(q) \in Nat
  BY <1>2, SeqOfItems
<1>6. PICK k : k = WirePiece(m)
  OBVIOUS
<1>7. k = [i \in 1..Len(q) |-> [role |-> "tool", tool_call_id |-> q[i].id]]
  BY <1>4, <1>5, <1>6 DEF WirePiece
<1>8. Len(k) = Len(q)
  <2>1. k = [i \in 1..Len(q) |-> k[i]]
    BY <1>7
  <2> QED BY <1>5, <2>1, MadeSeq
<1>9. PICK marks, x : marks = [i \in 1..Len(k) |-> WireMarks(k[i])] /\ x = ResultMarks(q)
  OBVIOUS
<1>10. IsSequence(x) /\ Len(x) = Len(q) /\ \A i \in 1..Len(q) : x[i] = <<"result", q[i].id>>
  <2>1. x = [i \in 1..Len(q) |-> x[i]]
    BY <1>9 DEF ResultMarks
  <2>2. IsSequence(x) /\ Len(x) = Len(q)
    BY <1>5, <2>1, MadeSeq
  <2> QED BY <1>9, <2>2 DEF ResultMarks
<1>11. IsSequence(marks) /\ Len(marks) = Len(q) /\ \A i \in 1..Len(q) : marks[i] = <<x[i]>>
  <2>1. marks = [i \in 1..Len(q) |-> marks[i]]
    BY <1>8, <1>9
  <2>2. IsSequence(marks) /\ Len(marks) = Len(q)
    BY <1>5, <2>1, MadeSeq
  <2>3. ASSUME NEW i \in 1..Len(q) PROVE marks[i] = <<x[i]>>
    <3>1. k[i].role = "tool" /\ k[i].tool_call_id = q[i].id
      BY <1>7
    <3>2. WireMarks(k[i]) = <<<<"result", q[i].id>>>>
      BY <3>1 DEF WireMarks
    <3> QED BY <1>8, <1>9, <1>10, <3>2
  <2> QED BY <2>2, <2>3
<1>12. FlattenSeq(marks) = x
  BY <1>10, <1>11, FlattenAll
<1>13. OpenAIMarks(<<m>>) = FlattenSeq(marks)
  BY <1>2, <1>6, <1>9, OpenAIOne
<1> QED BY <1>9, <1>12, <1>13

-----------------------------------------------------------------------------
(* A turn of the model.                                                    *)

\* Blocks that are no calls, then one for each call made.
TurnOf(content, made) ==
    \E p, q : /\ Plain(p) /\ Typed(q, "tool_use") /\ content = p \o q
              /\ IsSequence(made) /\ Len(q) = Len(made) /\ \A i \in 1..Len(made) : q[i].id = made[i].id

\* The blocks for the calls made.
LEMMA CallBlocks ==
    ASSUME NEW made, IsSequence(made), NEW q, q = [i \in DOMAIN made |-> ToolUseBlock(made[i])]
    PROVE  Typed(q, "tool_use") /\ Len(q) = Len(made) /\ \A i \in 1..Len(made) : q[i].id = made[i].id
<1>1. DOMAIN made = 1..Len(made) /\ Len(made) \in Nat
  BY SeqOfItems
<1>2. \A i \in 1..Len(made) : q[i] = ToolUseBlock(made[i])
  BY <1>1
<1>3. q = [i \in 1..Len(made) |-> q[i]]
  BY <1>1
<1>4. IsSequence(q) /\ Len(q) = Len(made)
  BY <1>1, <1>3, MadeSeq
<1> QED BY <1>2, <1>4 DEF Typed, ToolUseBlock

LEMMA TextPlain == ASSUME NEW text PROVE Plain(<<TextBlock(text)>>)
<1>1. PICK b : b = TextBlock(text)
  OBVIOUS
<1>2. b.type = "text"
  BY <1>1 DEF TextBlock
<1>3. IsSequence(<<b>>) /\ Len(<<b>>) = 1 /\ <<b>>[1] = b
  BY SingletonSeq
<1>4. \A i \in 1..1 : i = 1
  OBVIOUS
<1>5. Plain(<<b>>)
  BY <1>2, <1>3, <1>4 DEF Plain
<1> QED BY <1>1, <1>5

LEMMA NothingPlain == Plain(<<>>)
BY EmptyList DEF Plain

LEMMA PlainJoined == ASSUME NEW p, Plain(p), NEW q, Plain(q) PROVE Plain(p \o q)
<1>1. PICK u : u = p \o q
  OBVIOUS
<1>2. Joined(p, q, u)
  BY <1>1, ConcatJoins DEF Plain
<1>3. Len(p) \in Nat /\ Len(q) \in Nat /\ Len(u) \in Nat
  BY <1>2 DEF Plain, Joined, IsSequence
<1>4. ASSUME NEW i \in 1..Len(u) PROVE u[i].type \notin {"tool_use", "tool_result"}
  <2>1. CASE i \in 1..Len(p)
    BY <1>2, <2>1 DEF Plain, Joined
  <2>2. CASE i \notin 1..Len(p)
    <3>1. PICK j : j = i - Len(p)
      OBVIOUS
    <3>2. j \in 1..Len(q) /\ i = Len(p) + j
      BY <1>2, <1>3, <2>2, <3>1 DEF Joined
    <3>3. u[Len(p) + j] = q[j]
      BY <1>2, <3>2 DEF Joined
    <3> QED BY <3>2, <3>3 DEF Plain
  <2> QED BY <2>1, <2>2
<1>5. Plain(u)
  BY <1>2, <1>4 DEF Plain, Joined
<1> QED BY <1>1, <1>5

\* The text before the calls.
LEMMA MaybeText == ASSUME NEW text PROVE Plain(IF text = <<>> THEN <<>> ELSE <<TextBlock(text)>>)
BY TextPlain, NothingPlain

LEMMA AnthropicShape ==
    ASSUME NEW a \in Answers
    PROVE  /\ TurnOf(AnthropicResponse(a).content, AnthropicResponse(a).tool_calls)
           /\ Len(AnthropicResponse(a).tool_calls) = Len(a.calls)
<1>1. PICK p, t, made, q : /\ t = (IF a.text = <<>> THEN <<>> ELSE <<TextBlock(a.text)>>)
                           /\ p = <<ThinkingBlock>> \o t
                           /\ made = a.calls
                           /\ q = [i \in DOMAIN made |-> ToolUseBlock(made[i])]
  OBVIOUS
<1>2. IsSequence(made)
  BY <1>1, ChatAssumption
<1>3. Plain(<<ThinkingBlock>>)
  <2>1. PICK b : b = ThinkingBlock
    OBVIOUS
  <2>2. b.type = "thinking"
    BY <2>1 DEF ThinkingBlock
  <2>3. IsSequence(<<b>>) /\ Len(<<b>>) = 1 /\ <<b>>[1] = b /\ \A i \in 1..1 : i = 1
    BY SingletonSeq
  <2>4. Plain(<<b>>)
    BY <2>2, <2>3 DEF Plain
  <2> QED BY <2>1, <2>4
<1>4. Plain(p)
  BY <1>1, <1>3, MaybeText, PlainJoined
<1>5. Typed(q, "tool_use") /\ Len(q) = Len(made) /\ \A i \in 1..Len(made) : q[i].id = made[i].id
  BY <1>1, <1>2, CallBlocks
<1>6. AnthropicResponse(a).content = (<<ThinkingBlock>> \o t) \o q /\ AnthropicResponse(a).tool_calls = made
  BY <1>1 DEF AnthropicResponse, LLMResponse
<1>7. AnthropicResponse(a).content = p \o q
  BY <1>1, <1>6
<1>8. TurnOf(AnthropicResponse(a).content, made)
  BY <1>2, <1>4, <1>5, <1>7 DEF TurnOf
<1> QED BY <1>1, <1>6, <1>8

LEMMA OpenAIShape ==
    ASSUME NEW a \in Answers
    PROVE  /\ TurnOf(OpenAIResponse(a).content, OpenAIResponse(a).tool_calls)
           /\ Len(OpenAIResponse(a).tool_calls) = Len(a.calls)
<1>1. PICK p, made, q : /\ p = (IF a.text = <<>> THEN <<>> ELSE <<TextBlock(a.text)>>)
                        /\ made = [i \in DOMAIN a.calls |-> [a.calls[i] EXCEPT !.args = ParseArguments(@)]]
                        /\ q = [i \in DOMAIN made |-> ToolUseBlock(made[i])]
  OBVIOUS
<1>2. IsSequence(made) /\ Len(made) = Len(a.calls)
  <2>1. IsSequence(a.calls)
    BY ChatAssumption
  <2>2. DOMAIN a.calls = 1..Len(a.calls) /\ Len(a.calls) \in Nat
    BY <2>1, SeqOfItems
  <2>3. made = [i \in 1..Len(a.calls) |-> made[i]]
    BY <1>1, <2>2
  <2> QED BY <2>2, <2>3, MadeSeq
<1>3. Plain(p)
  BY <1>1, MaybeText
<1>4. Typed(q, "tool_use") /\ Len(q) = Len(made) /\ \A i \in 1..Len(made) : q[i].id = made[i].id
  <2>1. q = [i \in DOMAIN made |-> ToolUseBlock(made[i])]
    BY <1>1
  <2> QED BY <1>2, <2>1, CallBlocks
<1>5. OpenAIResponse(a).content = p \o q /\ OpenAIResponse(a).tool_calls = made
  BY <1>1 DEF OpenAIResponse, LLMResponse
<1>6. TurnOf(OpenAIResponse(a).content, made)
  BY <1>2, <1>3, <1>4, <1>5 DEF TurnOf
<1> QED BY <1>2, <1>5, <1>6

-----------------------------------------------------------------------------
(* A stream read to its end.                                               *)

\* How many of the first m of w are p.
Count(w, p, m) == Cardinality({i \in 1..m : w[i] = p})

LEMMA CountStep ==
    ASSUME NEW w, NEW p, NEW m \in Nat
    PROVE  /\ Count(w, p, m) \in Nat
           /\ Count(w, p, 0) = 0
           /\ w[m + 1] = p => Count(w, p, m + 1) = Count(w, p, m) + 1
           /\ w[m + 1] # p => Count(w, p, m + 1) = Count(w, p, m)
<1> DEFINE A == {i \in 1..m : w[i] = p}
           B == {i \in 1..m + 1 : w[i] = p}
<1>1. IsFiniteSet(A) /\ Cardinality(A) \in Nat
  <2>1. IsFiniteSet(1..m)
    BY FS_Interval
  <2>2. A \in SUBSET (1..m)
    OBVIOUS
  <2> HIDE DEF A
  <2> QED BY <2>1, <2>2, FS_Subset, FS_CardinalityType
<1>2. {i \in 1..0 : w[i] = p} = {}
  OBVIOUS
<1>3. m + 1 \notin A
  OBVIOUS
<1>4. CASE w[m + 1] = p
  <2>1. B = A \cup {m + 1}
    BY <1>4
  <2>2. Cardinality(B) = Cardinality(A) + 1
    <3> HIDE DEF A, B
    <3> QED BY <1>1, <1>3, <2>1, FS_AddElement
  <2> QED BY <1>1, <1>2, <1>4, <2>2, FS_EmptySet DEF Count
<1>5. CASE w[m + 1] # p
  <2>1. B = A
    BY <1>5
  <2> QED BY <1>1, <1>2, <1>5, <2>1, FS_EmptySet DEF Count
<1> QED BY <1>4, <1>5

LEMMA CountGrows ==
    ASSUME NEW w, NEW p, NEW n \in Nat, NEW m \in 0..n
    PROVE  Count(w, p, m) <= Count(w, p, n)
<1> DEFINE A == {i \in 1..m : w[i] = p}
           B == {i \in 1..n : w[i] = p}
<1>1. IsFiniteSet(B)
  <2>1. IsFiniteSet(1..n) /\ B \in SUBSET (1..n)
    BY FS_Interval
  <2> HIDE DEF B
  <2> QED BY <2>1, FS_Subset
<1>2. A \in SUBSET B
  OBVIOUS
<1>3. Cardinality(A) <= Cardinality(B)
  <2> HIDE DEF A, B
  <2> QED BY <1>1, <1>2, FS_Subset
<1> QED BY <1>3 DEF Count

\* The first i items of a sequence, which grow by one and end as the whole.
First(s, i) == [j \in 1..i |-> s[j]]

LEMMA FirstGrows ==
    ASSUME NEW s, IsSequence(s), NEW i \in Nat, i + 1 <= Len(s)
    PROVE  First(s, i) \o <<s[i + 1]>> = First(s, i + 1)
<1>1. PICK t : t = First(s, i)
  OBVIOUS
<1>2. t = [j \in 1..i |-> s[j]]
  BY <1>1 DEF First
<1>3. \A j \in 1..i : t[j] = s[j]
  BY <1>2
<1>4. t = [j \in 1..i |-> t[j]]
  BY <1>2
<1>5. IsSequence(t) /\ Len(t) = i
  BY <1>4, MadeSeq
<1>6. PICK e : e = s[i + 1]
  OBVIOUS
<1>7. t \o <<e>> = Append(t, e)
  BY <1>5, AppendConcat
<1>8. PICK u : u = Append(t, e)
  OBVIOUS
<1>9. IsSequence(u) /\ Len(u) = i + 1 /\ u[i + 1] = e /\ \A j \in 1..i : u[j] = t[j]
  BY <1>5, <1>8, AppendAny
<1>10. \A j \in 1..i + 1 : u[j] = s[j]
  BY <1>3, <1>6, <1>9
<1>11. u = [j \in 1..i + 1 |-> u[j]]
  BY <1>9 DEF IsSequence
<1>12. u = [j \in 1..i + 1 |-> s[j]]
  BY <1>10, <1>11
<1>13. u = First(s, i + 1)
  BY <1>12 DEF First
<1> QED BY <1>1, <1>6, <1>7, <1>8, <1>13

LEMMA FirstNone == ASSUME NEW s PROVE First(s, 0) = <<>>
<1>1. PICK t : t = First(s, 0)
  OBVIOUS
<1>2. t = [j \in 1..0 |-> s[j]]
  BY <1>1 DEF First
<1>3. t = <<>>
  BY <1>2
<1> QED BY <1>1, <1>3

LEMMA FirstAll == ASSUME NEW s, IsSequence(s) PROVE First(s, Len(s)) = s
BY DEF First, IsSequence

\* The fragments of a call: its name, then its arguments piece by piece.
FragmentsOf(k, call, fs) ==
    /\ IsSequence(fs) /\ Len(fs) = 1 + Len(call.args)
    /\ fs[1] = Fragment(k, call.id, call.name, <<>>)
    /\ \A i \in 1..Len(call.args) : fs[1 + i] = Fragment(k, NoId, <<>>, <<call.args[i]>>)

LEMMA FragmentsAre ==
    ASSUME NEW k, NEW call, IsSequence(call.args)
    PROVE  FragmentsOf(k, call, CallFragments(k, call))
<1>1. DOMAIN call.args = 1..Len(call.args) /\ Len(call.args) \in Nat
  BY SeqOfItems
<1>2. PICK h : h = <<Fragment(k, call.id, call.name, <<>>)>>
  OBVIOUS
<1>3. IsSequence(h) /\ Len(h) = 1 /\ h[1] = Fragment(k, call.id, call.name, <<>>)
  BY <1>2, SingletonSeq
<1>4. PICK t : t = [i \in DOMAIN call.args |-> Fragment(k, NoId, <<>>, <<call.args[i]>>)]
  OBVIOUS
<1>5. \A i \in 1..Len(call.args) : t[i] = Fragment(k, NoId, <<>>, <<call.args[i]>>)
  BY <1>1, <1>4
<1>6. t = [i \in 1..Len(call.args) |-> t[i]]
  BY <1>1, <1>4
<1>7. IsSequence(t) /\ Len(t) = Len(call.args)
  BY <1>1, <1>6, MadeSeq
<1>8. PICK fs : fs = h \o t
  OBVIOUS
<1>9. Joined(h, t, fs)
  BY <1>3, <1>7, <1>8, ConcatJoins
<1>10. /\ IsSequence(fs) /\ Len(fs) = 1 + Len(call.args) /\ fs[1] = h[1]
       /\ \A i \in 1..Len(call.args) : fs[1 + i] = t[i]
  BY <1>3, <1>7, <1>9 DEF Joined
<1>11. FragmentsOf(k, call, fs)
  BY <1>3, <1>5, <1>10 DEF FragmentsOf
<1>12. CallFragments(k, call) = fs
  BY <1>2, <1>4, <1>8 DEF CallFragments
<1> QED BY <1>11, <1>12

\* The parts of an answer: its text, then one for each call.
PartsOf(a, parts) ==
    /\ Lists(parts) /\ Len(parts) = Len(a.calls) + 1
    /\ Len(parts[1]) = Len(a.text)
    /\ \A i \in 1..Len(a.text) : parts[1][i] = TextDelta(<<a.text[i]>>)
    /\ \A k \in 1..Len(a.calls) : FragmentsOf(k, a.calls[k], parts[k + 1])

LEMMA PartsAre == ASSUME NEW a \in Answers PROVE PartsOf(a, Parts(a))
<1>1. IsSequence(a.text) /\ IsSequence(a.calls)
  BY ChatAssumption
<1>2. DOMAIN a.text = 1..Len(a.text) /\ Len(a.text) \in Nat /\ DOMAIN a.calls = 1..Len(a.calls) /\ Len(a.calls) \in Nat
  BY <1>1, SeqOfItems
<1>3. PICK t : t = [i \in DOMAIN a.text |-> TextDelta(<<a.text[i]>>)]
  OBVIOUS
<1>4. IsSequence(t) /\ Len(t) = Len(a.text) /\ \A i \in 1..Len(a.text) : t[i] = TextDelta(<<a.text[i]>>)
  <2>1. t = [i \in 1..Len(a.text) |-> t[i]]
    BY <1>2, <1>3
  <2>2. IsSequence(t) /\ Len(t) = Len(a.text)
    BY <1>2, <2>1, MadeSeq
  <2> QED BY <1>2, <1>3, <2>2
<1> DEFINE Call(k) == CallFragments(k, a.calls[k])
<1>5. PICK f : f = [k \in DOMAIN a.calls |-> Call(k)]
  OBVIOUS
<1>6. Parts(a) = <<t>> \o f
  BY <1>3, <1>5 DEF Parts
<1>7. \A k \in 1..Len(a.calls) : f[k] = Call(k)
  BY <1>2, <1>5
<1>8. f = [k \in 1..Len(a.calls) |-> f[k]]
  BY <1>2, <1>5
<1>9. IsSequence(f) /\ Len(f) = Len(a.calls)
  BY <1>2, <1>8, MadeSeq
<1>10. ASSUME NEW k \in 1..Len(a.calls) PROVE FragmentsOf(k, a.calls[k], Call(k))
  <2>1. IsSequence(a.calls[k].args)
    BY <1>2, ChatAssumption
  <2> QED BY <2>1, FragmentsAre
<1>11. Lists(f)
  <2>1. \A k \in 1..Len(a.calls) : IsSequence(Call(k))
    <3> HIDE DEF Call
    <3> QED BY <1>10 DEF FragmentsOf
  <2> HIDE DEF Call
  <2> QED BY <1>7, <1>9, <2>1 DEF Lists
<1>12. Lists(<<t>>) /\ Len(<<t>>) = 1 /\ <<t>>[1] = t
  BY <1>4, FlattenOne, SingletonSeq
<1>13. PICK parts : parts = <<t>> \o f
  OBVIOUS
<1>14. Lists(parts) /\ Joined(<<t>>, f, parts)
  BY <1>11, <1>12, <1>13, JoinedLists
<1>15. parts[1] = t /\ Len(parts) = 1 + Len(f) /\ \A k \in 1..Len(f) : parts[1 + k] = f[k]
  BY <1>12, <1>14 DEF Joined
<1>16. \A k \in 1..Len(a.calls) : parts[k + 1] = Call(k)
  BY <1>2, <1>7, <1>9, <1>15
<1>17. Len(parts) = Len(a.calls) + 1
  BY <1>2, <1>9, <1>15
<1>18. \A i \in 1..Len(a.text) : parts[1][i] = TextDelta(<<a.text[i]>>)
  BY <1>4, <1>15
<1>19. Len(parts[1]) = Len(a.text)
  BY <1>4, <1>15
<1>20. ASSUME NEW k \in 1..Len(a.calls) PROVE FragmentsOf(k, a.calls[k], parts[k + 1])
  <2> HIDE DEF Call
  <2> QED BY <1>10, <1>16
<1>21. PartsOf(a, parts)
  <2> HIDE DEF Call
  <2> QED BY <1>14, <1>17, <1>18, <1>19, <1>20 DEF PartsOf
<1> QED BY <1>6, <1>13, <1>21

\* One chunk, and all of them.
FirstRead == [text |-> <<>>, calls |-> <<>>]
ReadChunk(acc, c) ==
    IF c.index = 0 THEN [acc EXCEPT !.text = @ \o c.text] ELSE [acc EXCEPT !.calls = TakeFragment(@, c)]
Reading(s, f) == f = [n \in 0..Len(s) |-> IF n = 0 THEN FirstRead ELSE ReadChunk(f[n - 1], s[n])]

LEMMA ReadingExists ==
    ASSUME NEW s, Len(s) \in Nat
    PROVE  \E f : Reading(s, f)
<1> DEFINE Is(f, m) == f = [n \in 0..m |-> IF n = 0 THEN FirstRead ELSE ReadChunk(f[n - 1], s[n])]
           S == {m \in 0..Len(s) : \E f : Is(f, m)}
<1>1. 0 \in S
  <2>1. Is([n \in 0..0 |-> FirstRead], 0)
    OBVIOUS
  <2>2. \E f : Is(f, 0)
    <3> HIDE DEF Is
    <3> QED BY <2>1
  <2> HIDE DEF Is
  <2> QED BY <2>2
<1>2. ASSUME NEW m \in 0..Len(s), m \in S, m < Len(s) PROVE m + 1 \in S
  <2>1. PICK f : Is(f, m)
    BY <1>2
  <2> DEFINE h == [n \in 0..m + 1 |-> IF n <= m THEN f[n] ELSE ReadChunk(f[m], s[m + 1])]
  <2>2. ASSUME NEW n \in 0..m + 1 PROVE h[n] = IF n = 0 THEN FirstRead ELSE ReadChunk(h[n - 1], s[n])
    <3>1. CASE n = 0
      <4>1. h[n] = f[0]
        BY <3>1
      <4> QED BY <2>1, <3>1, <4>1
    <3>2. CASE n # 0 /\ n <= m
      <4>1. h[n] = f[n] /\ h[n - 1] = f[n - 1]
        BY <3>2
      <4>2. f[n] = ReadChunk(f[n - 1], s[n])
        BY <2>1, <3>2
      <4> QED BY <3>2, <4>1, <4>2
    <3>3. CASE n = m + 1
      <4>1. h[n] = ReadChunk(f[m], s[m + 1]) /\ h[n - 1] = f[m]
        BY <3>3
      <4> QED BY <3>3, <4>1
    <3> QED BY <3>1, <3>2, <3>3
  <2>3. h = [n \in 0..m + 1 |-> h[n]]
    OBVIOUS
  <2> HIDE DEF h
  <2>4. Is(h, m + 1)
    BY <2>2, <2>3
  <2>5. m + 1 \in 0..Len(s)
    BY <1>2
  <2> QED BY <2>4, <2>5
<1>3. Len(s) \in S
  <2>1. \A m \in 0..Len(s) : m \in S
    <3> HIDE DEF S
    <3> QED BY <1>1, <1>2, UpTo
  <2> HIDE DEF S
  <2> QED BY <2>1
<1>4. PICK f : Is(f, Len(s))
  BY <1>3
<1> QED BY <1>4 DEF Reading

\* The calls by their index.
InOrder(held) ==
    LET Nth(n) == CHOOSE i \in DOMAIN held : Cardinality({j \in DOMAIN held : j <= i}) = n
    IN  [n \in 1..Cardinality(DOMAIN held) |-> held[Nth(n)]]

LEMMA AccumulatedIs ==
    ASSUME NEW s, Len(s) \in Nat, NEW stop
    PROVE  \E f : Reading(s, f) /\ Accumulated(s, stop) =
                    OpenAIResponse([text |-> f[Len(s)].text, calls |-> InOrder(f[Len(s)].calls), stop |-> stop])
<1> DEFINE acc == CHOOSE f : Reading(s, f)
<1>1. Reading(s, acc)
  BY ReadingExists
<1>2. Accumulated(s, stop) =
        OpenAIResponse([text |-> acc[Len(s)].text, calls |-> InOrder(acc[Len(s)].calls), stop |-> stop])
  BY DEF Accumulated, Reading, InOrder, ReadChunk, FirstRead
<1> QED BY <1>1, <1>2

LEMMA InOrderSame ==
    ASSUME NEW n \in Nat, NEW held, DOMAIN held = 1..n
    PROVE  InOrder(held) = [i \in 1..n |-> held[i]]
<1> DEFINE D == DOMAIN held
<1>1. Cardinality(D) = n
  BY FS_Interval
<1>2. ASSUME NEW i \in 1..n PROVE Cardinality({j \in D : j <= i}) = i
  <2>1. {j \in D : j <= i} = 1..i
    OBVIOUS
  <2>2. Cardinality(1..i) = i
    BY FS_Interval
  <2> QED BY <2>1, <2>2, Zenon
<1>3. ASSUME NEW i \in 1..n PROVE (CHOOSE k \in D : Cardinality({j \in D : j <= k}) = i) = i
  <2> DEFINE Is(k) == Cardinality({j \in D : j <= k}) = i
             c == CHOOSE k \in D : Is(k)
  <2>1. i \in D /\ Is(i)
    BY <1>2
  <2>2. c \in D /\ Is(c)
    <3> HIDE DEF Is, D
    <3> QED BY <2>1
  <2>3. c \in 1..n
    BY <2>2
  <2> QED BY <1>2, <2>2, <2>3
<1>4. InOrder(held) = [i \in 1..Cardinality(D) |-> held[CHOOSE k \in D : Cardinality({j \in D : j <= k}) = i]]
  BY DEF InOrder
<1> HIDE DEF D
<1> QED BY <1>1, <1>3, <1>4

\* What the first m chunks of a stream in the order w have given.
AsRead(a, w, m, acc) ==
    /\ acc = [text |-> acc.text, calls |-> acc.calls]
    /\ acc.text = First(a.text, Count(w, 1, m))
    /\ DOMAIN acc.calls = {k \in 1..Len(a.calls) : Count(w, k + 1, m) >= 1}
    /\ \A k \in DOMAIN acc.calls :
         acc.calls[k] = [id |-> a.calls[k].id, name |-> a.calls[k].name,
                         args |-> First(a.calls[k].args, Count(w, k + 1, m) - 1)]

\* w takes every part from its first item to its last.
Merges(a, n, w) ==
    /\ n \in Nat /\ w \in [1..n -> 1..Len(a.calls) + 1]
    /\ Count(w, 1, n) = Len(a.text) /\ \A k \in 1..Len(a.calls) : Count(w, k + 1, n) = 1 + Len(a.calls[k].args)

LEMMA ReadText ==
    ASSUME NEW a \in Answers, NEW n, NEW w, Merges(a, n, w), NEW m \in 0..n, m < n, NEW acc, AsRead(a, w, m, acc),
           w[m + 1] = 1, NEW parts, PartsOf(a, parts)
    PROVE  AsRead(a, w, m + 1, ReadChunk(acc, parts[w[m + 1]][Count(w, w[m + 1], m + 1)]))
<1>1. IsSequence(a.text) /\ IsSequence(a.calls)
  BY ChatAssumption
<1>2. n \in Nat /\ m \in Nat /\ m + 1 \in 0..n /\ Len(a.text) \in Nat /\ Len(a.calls) \in Nat
  BY <1>1 DEF Merges, IsSequence
<1>3. PICK i : i = Count(w, 1, m)
  OBVIOUS
<1>4. i \in Nat /\ Count(w, 1, m + 1) = i + 1
  BY <1>2, <1>3, CountStep
<1>5. i + 1 <= Len(a.text)
  <2>1. Count(w, 1, m + 1) <= Count(w, 1, n)
    BY <1>2, CountGrows
  <2> QED BY <1>4, <2>1 DEF Merges
<1>6. parts[1][i + 1] = TextDelta(<<a.text[i + 1]>>)
  <2>1. i + 1 \in 1..Len(a.text)
    BY <1>2, <1>4, <1>5
  <2> QED BY <2>1 DEF PartsOf
<1>7. PICK c : c = parts[w[m + 1]][Count(w, w[m + 1], m + 1)]
  OBVIOUS
<1>8. c = TextDelta(<<a.text[i + 1]>>)
  BY <1>4, <1>6, <1>7
<1>9. c.index = 0 /\ c.text = <<a.text[i + 1]>>
  BY <1>8 DEF TextDelta
<1>10. PICK got : got = ReadChunk(acc, c)
  OBVIOUS
<1>11. got = [text |-> acc.text \o <<a.text[i + 1]>>, calls |-> acc.calls]
  BY <1>9, <1>10 DEF ReadChunk, AsRead
<1>12. acc.text \o <<a.text[i + 1]>> = First(a.text, i + 1)
  <2>1. acc.text = First(a.text, i)
    BY <1>3 DEF AsRead
  <2> QED BY <1>1, <1>4, <1>5, <2>1, FirstGrows
<1>13. got = [text |-> got.text, calls |-> got.calls] /\ got.calls = acc.calls
  BY <1>11
<1>14. got.text = First(a.text, Count(w, 1, m + 1))
  BY <1>4, <1>11, <1>12
<1>15. ASSUME NEW k \in 1..Len(a.calls) PROVE Count(w, k + 1, m + 1) = Count(w, k + 1, m)
  <2>1. PICK p : p = k + 1
    OBVIOUS
  <2>2. w[m + 1] # p
    BY <1>2, <2>1
  <2>3. Count(w, p, m + 1) = Count(w, p, m)
    BY <1>2, <2>2, CountStep
  <2> QED BY <2>1, <2>3
<1>16. DOMAIN got.calls = {k \in 1..Len(a.calls) : Count(w, k + 1, m + 1) >= 1}
  <2>1. DOMAIN got.calls = {k \in 1..Len(a.calls) : Count(w, k + 1, m) >= 1}
    BY <1>13 DEF AsRead
  <2> QED BY <1>15, <2>1
<1>17. ASSUME NEW k \in DOMAIN got.calls
       PROVE  got.calls[k] = [id |-> a.calls[k].id, name |-> a.calls[k].name,
                              args |-> First(a.calls[k].args, Count(w, k + 1, m + 1) - 1)]
  <2>1. k \in 1..Len(a.calls)
    BY <1>16
  <2>2. Count(w, k + 1, m + 1) = Count(w, k + 1, m)
    BY <1>15, <2>1
  <2> QED BY <1>13, <2>2 DEF AsRead
<1>18. AsRead(a, w, m + 1, got)
  BY <1>13, <1>14, <1>16, <1>17 DEF AsRead
<1> QED BY <1>7, <1>10, <1>18

LEMMA ReadCall ==
    ASSUME NEW a \in Answers, NEW n, NEW w, Merges(a, n, w), NEW m \in 0..n, m < n, NEW acc, AsRead(a, w, m, acc),
           NEW k \in 1..Len(a.calls), w[m + 1] = k + 1, NEW parts, PartsOf(a, parts)
    PROVE  AsRead(a, w, m + 1, ReadChunk(acc, parts[w[m + 1]][Count(w, w[m + 1], m + 1)]))
<1>1. IsSequence(a.calls) /\ IsSequence(a.calls[k].name) /\ IsSequence(a.calls[k].args)
  <2>1. IsSequence(a.calls)
    BY ChatAssumption
  <2>2. k \in DOMAIN a.calls
    BY <2>1, SeqOfItems
  <2> QED BY <2>1, <2>2, ChatAssumption
<1>2. n \in Nat /\ m \in Nat /\ m + 1 \in 0..n /\ Len(a.calls) \in Nat
  BY <1>1 DEF Merges, IsSequence
<1>3. PICK i : i = Count(w, k + 1, m)
  OBVIOUS
<1>4. i \in Nat /\ Count(w, k + 1, m + 1) = i + 1
  <2>1. PICK p : p = k + 1
    OBVIOUS
  <2>2. Count(w, p, m) \in Nat /\ Count(w, p, m + 1) = Count(w, p, m) + 1
    BY <1>2, <2>1, CountStep
  <2> QED BY <1>3, <2>1, <2>2
<1>5. i <= Len(a.calls[k].args) /\ Len(a.calls[k].args) \in Nat
  <2>1. PICK p : p = k + 1
    OBVIOUS
  <2>2. Count(w, p, m + 1) <= Count(w, p, n)
    BY <1>2, CountGrows
  <2>3. Count(w, k + 1, n) = 1 + Len(a.calls[k].args)
    BY DEF Merges
  <2>4. Len(a.calls[k].args) \in Nat
    BY <1>1, SeqOfItems
  <2> QED BY <1>4, <2>1, <2>2, <2>3, <2>4
<1>6. PICK c : c = parts[w[m + 1]][Count(w, w[m + 1], m + 1)]
  OBVIOUS
<1>7. c = parts[k + 1][i + 1]
  BY <1>4, <1>6
<1>8. PICK id, name, args : id = a.calls[k].id /\ name = a.calls[k].name /\ args = a.calls[k].args
  OBVIOUS
<1>9. c = IF i = 0 THEN Fragment(k, id, name, <<>>) ELSE Fragment(k, NoId, <<>>, <<args[i]>>)
  <2>1. FragmentsOf(k, a.calls[k], parts[k + 1])
    BY DEF PartsOf
  <2>2. CASE i = 0
    BY <1>7, <1>8, <2>1, <2>2 DEF FragmentsOf
  <2>3. CASE i # 0
    <3>1. i \in 1..Len(a.calls[k].args) /\ i + 1 = 1 + i
      BY <1>4, <1>5, <2>3
    <3>2. c = parts[k + 1][1 + i]
      BY <1>7, <3>1
    <3> QED BY <1>8, <2>1, <2>3, <3>1, <3>2 DEF FragmentsOf
  <2> QED BY <2>2, <2>3
<1>10. c.index = k /\ k # 0
  BY <1>9 DEF Fragment
<1>11. PICK old : old = acc.calls
  OBVIOUS
<1>12. PICK now : now = TakeFragment(old, c)
  OBVIOUS
<1>13. PICK got : got = ReadChunk(acc, c)
  OBVIOUS
<1>14. got = [text |-> acc.text, calls |-> now]
  BY <1>10, <1>11, <1>12, <1>13 DEF ReadChunk, AsRead
<1>15. DOMAIN old = {j \in 1..Len(a.calls) : Count(w, j + 1, m) >= 1}
  BY <1>11 DEF AsRead
<1>16. k \in DOMAIN old <=> i # 0
  BY <1>3, <1>4, <1>15
<1>17. i # 0 => old[k] = [id |-> id, name |-> name, args |-> First(args, i - 1)]
  <2> SUFFICES ASSUME i # 0 PROVE old[k] = [id |-> id, name |-> name, args |-> First(args, i - 1)]
    OBVIOUS
  <2>1. k \in DOMAIN old
    BY <1>16
  <2> QED BY <1>3, <1>8, <1>11, <2>1 DEF AsRead
<1>18. DOMAIN now = DOMAIN old \cup {k} /\ \A j \in DOMAIN old : j # k => now[j] = old[j]
  BY <1>10, <1>12 DEF TakeFragment
<1>19. now[k] = [id |-> id, name |-> name, args |-> First(args, i)]
  <2>1. name \o <<>> = name /\ <<>> \o name = name /\ <<>> \o <<>> = <<>>
    BY <1>1, <1>8, ConcatEmpty, EmptyList
  <2> DEFINE call == IF c.index \in DOMAIN old THEN old[c.index] ELSE [id |-> NoId, name |-> <<>>, args |-> <<>>]
  <2>2. now[k] = [id |-> IF c.id # NoId THEN c.id ELSE call.id, name |-> call.name \o c.name, args |-> call.args \o c.args]
    BY <1>10, <1>12 DEF TakeFragment
  <2>3. CASE i = 0
    <3>1. call = [id |-> NoId, name |-> <<>>, args |-> <<>>]
      BY <1>10, <1>16, <2>3
    <3>2. c.id = id /\ c.name = name /\ c.args = <<>>
      BY <1>9, <2>3 DEF Fragment
    <3>3. call.id = NoId /\ call.name = <<>> /\ call.args = <<>>
      BY <3>1
    <3> HIDE DEF call
    <3>4. now[k] = [id |-> id, name |-> <<>> \o name, args |-> <<>> \o <<>>]
      BY <2>2, <3>2, <3>3
    <3>5. now[k] = [id |-> id, name |-> name, args |-> <<>>]
      BY <2>1, <3>4
    <3> QED BY <2>3, <3>5, FirstNone
  <2>4. CASE i # 0
    <3>1. call = [id |-> id, name |-> name, args |-> First(args, i - 1)]
      BY <1>10, <1>16, <1>17, <2>4
    <3>2. c.id = NoId /\ c.name = <<>> /\ c.args = <<args[i]>>
      BY <1>9, <2>4 DEF Fragment
    <3>3. call.id = id /\ call.name = name /\ call.args = First(args, i - 1)
      BY <3>1
    <3> HIDE DEF call
    <3>4. now[k] = [id |-> id, name |-> name \o <<>>, args |-> First(args, i - 1) \o <<args[i]>>]
      BY <2>2, <3>2, <3>3
    <3>5. First(args, i - 1) \o <<args[i]>> = First(args, i)
      <4>1. PICK p : p = i - 1
        OBVIOUS
      <4>2. p \in Nat /\ p + 1 = i /\ p + 1 <= Len(args)
        BY <1>4, <1>5, <1>8, <2>4, <4>1
      <4>3. First(args, p) \o <<args[p + 1]>> = First(args, p + 1)
        BY <1>1, <1>8, <4>2, FirstGrows
      <4> QED BY <4>1, <4>2, <4>3
    <3> QED BY <2>1, <3>4, <3>5
  <2> QED BY <2>3, <2>4
<1>20. got = [text |-> got.text, calls |-> got.calls] /\ got.calls = now /\ got.text = acc.text
  BY <1>14
<1>21. got.text = First(a.text, Count(w, 1, m + 1))
  <2>1. w[m + 1] # 1
    BY <1>2
  <2>2. Count(w, 1, m + 1) = Count(w, 1, m)
    BY <1>2, <2>1, CountStep
  <2>3. acc.text = First(a.text, Count(w, 1, m))
    BY DEF AsRead
  <2> QED BY <1>20, <2>2, <2>3
<1>22. ASSUME NEW j \in 1..Len(a.calls), j # k PROVE Count(w, j + 1, m + 1) = Count(w, j + 1, m)
  <2>1. PICK p : p = j + 1
    OBVIOUS
  <2>2. w[m + 1] # p
    BY <1>2, <1>22, <2>1
  <2>3. Count(w, p, m + 1) = Count(w, p, m)
    BY <1>2, <2>2, CountStep
  <2> QED BY <2>1, <2>3
<1>23. ASSUME NEW j PROVE j \in DOMAIN now <=> j \in 1..Len(a.calls) /\ Count(w, j + 1, m + 1) >= 1
  <2>1. CASE j = k
    BY <1>4, <1>18, <2>1
  <2>2. CASE j # k
    BY <1>15, <1>18, <1>22, <2>2
  <2> QED BY <2>1, <2>2
<1>24. DOMAIN got.calls = {j \in 1..Len(a.calls) : Count(w, j + 1, m + 1) >= 1}
  BY <1>20, <1>23
<1>25. ASSUME NEW j \in DOMAIN got.calls
       PROVE  got.calls[j] = [id |-> a.calls[j].id, name |-> a.calls[j].name,
                              args |-> First(a.calls[j].args, Count(w, j + 1, m + 1) - 1)]
  <2>1. j \in DOMAIN now
    BY <1>20
  <2>2. CASE j = k
    <3>1. Count(w, k + 1, m + 1) - 1 = i
      BY <1>4
    <3> QED BY <1>8, <1>19, <1>20, <2>2, <3>1
  <2>3. CASE j # k
    <3>1. j \in 1..Len(a.calls) /\ j \in DOMAIN old /\ now[j] = old[j]
      BY <1>18, <1>23, <2>1, <2>3
    <3>2. Count(w, j + 1, m + 1) = Count(w, j + 1, m)
      BY <1>22, <2>3, <3>1
    <3>3. old[j] = [id |-> a.calls[j].id, name |-> a.calls[j].name,
                    args |-> First(a.calls[j].args, Count(w, j + 1, m) - 1)]
      BY <1>11, <3>1 DEF AsRead
    <3> QED BY <1>20, <3>1, <3>2, <3>3
  <2> QED BY <2>2, <2>3
<1>26. AsRead(a, w, m + 1, got)
  BY <1>20, <1>21, <1>24, <1>25 DEF AsRead
<1> QED BY <1>6, <1>13, <1>26

LEMMA StreamOf ==
    ASSUME NEW a \in Answers, NEW s \in Streams(a)
    PROVE  \E n, w : /\ Merges(a, n, w)
                     /\ s = [i \in 1..n |-> Parts(a)[w[i]][Count(w, w[i], i)]]
<1>1. PICK parts : parts = Parts(a)
  OBVIOUS
<1>2. PartsOf(a, parts)
  BY <1>1, PartsAre
<1>3. PICK n : n = Len(FlattenSeq(parts))
  OBVIOUS
<1>4. IsSequence(a.calls) /\ Len(a.calls) \in Nat
  <2>1. IsSequence(a.calls)
    BY ChatAssumption
  <2> QED BY <2>1 DEF IsSequence
<1>5. n \in Nat
  <2>1. IsSequence(FlattenSeq(parts))
    BY <1>2, FlattenIsList DEF PartsOf
  <2> QED BY <1>3, <2>1 DEF IsSequence
<1>6. DOMAIN parts = 1..Len(a.calls) + 1
  <2>1. IsSequence(parts) /\ Len(parts) = Len(a.calls) + 1
    BY <1>2 DEF PartsOf, Lists
  <2> QED BY <2>1, SeqOfItems
<1>7. PICK w \in [1..n -> DOMAIN parts] :
        /\ \A p \in DOMAIN parts : Count(w, p, n) = Len(parts[p])
        /\ s = [i \in 1..n |-> parts[w[i]][Count(w, w[i], i)]]
  BY <1>1, <1>3 DEF Streams, Count
<1>8. Count(w, 1, n) = Len(a.text)
  <2>1. 1 \in DOMAIN parts
    BY <1>4, <1>6
  <2> QED BY <1>2, <1>7, <2>1 DEF PartsOf
<1>9. ASSUME NEW k \in 1..Len(a.calls) PROVE Count(w, k + 1, n) = 1 + Len(a.calls[k].args)
  <2>1. k + 1 \in DOMAIN parts
    BY <1>4, <1>6
  <2>2. FragmentsOf(k, a.calls[k], parts[k + 1])
    BY <1>2 DEF PartsOf
  <2> QED BY <1>7, <2>1, <2>2 DEF FragmentsOf
<1>10. w \in [1..n -> 1..Len(a.calls) + 1]
  BY <1>6, <1>7
<1>11. Merges(a, n, w)
  BY <1>5, <1>8, <1>9, <1>10 DEF Merges
<1>12. s = [i \in 1..n |-> Parts(a)[w[i]][Count(w, w[i], i)]]
  BY <1>1, <1>7
<1> QED BY <1>11, <1>12

\* What all chunks give is the answer.
LEMMA AllRead ==
    ASSUME NEW a \in Answers, NEW n, NEW w, Merges(a, n, w), NEW acc, AsRead(a, w, n, acc)
    PROVE  acc.text = a.text /\ InOrder(acc.calls) = a.calls
<1>1. IsSequence(a.text) /\ IsSequence(a.calls)
  BY ChatAssumption
<1>2. Len(a.calls) \in Nat /\ DOMAIN a.calls = 1..Len(a.calls)
  BY <1>1, SeqOfItems
<1>3. acc.text = a.text
  <2>1. acc.text = First(a.text, Len(a.text))
    BY DEF AsRead, Merges
  <2> QED BY <1>1, <2>1, FirstAll
<1>4. PICK held : held = acc.calls
  OBVIOUS
<1>5. DOMAIN held = 1..Len(a.calls)
  <2>1. ASSUME NEW k \in 1..Len(a.calls) PROVE Count(w, k + 1, n) >= 1
    <3>1. Len(a.calls[k].args) \in Nat
      <4>1. IsSequence(a.calls[k].args)
        BY <1>2, ChatAssumption
      <4> QED BY <4>1, SeqOfItems
    <3> QED BY <3>1 DEF Merges
  <2>2. DOMAIN held = {k \in 1..Len(a.calls) : Count(w, k + 1, n) >= 1}
    BY <1>4 DEF AsRead
  <2> QED BY <2>1, <2>2
<1>6. ASSUME NEW k \in 1..Len(a.calls) PROVE held[k] = a.calls[k]
  <2>1. held[k] = [id |-> a.calls[k].id, name |-> a.calls[k].name, args |-> a.calls[k].args]
    <3>1. IsSequence(a.calls[k].args)
      BY <1>2, ChatAssumption
    <3>2. PICK m : m = Len(a.calls[k].args)
      OBVIOUS
    <3>3. Count(w, k + 1, n) - 1 = m
      <4>1. m \in Nat
        BY <3>1, <3>2, SeqOfItems
      <4> QED BY <3>2, <4>1 DEF Merges
    <3>4. held[k] = [id |-> a.calls[k].id, name |-> a.calls[k].name, args |-> First(a.calls[k].args, m)]
      BY <1>4, <1>5, <3>3 DEF AsRead
    <3>5. First(a.calls[k].args, m) = a.calls[k].args
      BY <3>1, <3>2, FirstAll
    <3> QED BY <3>4, <3>5
  <2>2. a.calls[k] = [id |-> a.calls[k].id, name |-> a.calls[k].name, args |-> a.calls[k].args]
    BY <1>2, ChatAssumption
  <2> QED BY <2>1, <2>2
<1>7. InOrder(held) = [k \in 1..Len(a.calls) |-> held[k]]
  BY <1>2, <1>5, InOrderSame
<1>8. [k \in 1..Len(a.calls) |-> held[k]] = [k \in 1..Len(a.calls) |-> a.calls[k]]
  BY <1>6
<1>9. a.calls = [k \in 1..Len(a.calls) |-> a.calls[k]]
  BY <1>1 DEF IsSequence
<1> QED BY <1>3, <1>4, <1>7, <1>8, <1>9

\* However its chunks are interleaved, a stream accumulates to what the whole
\* answer becomes.
LEMMA StreamIsWhole ==
    ASSUME NEW a \in Answers, NEW s \in Streams(a)
    PROVE  Accumulated(s, a.stop) = OpenAIResponse(a)
<1>1. PICK n, w : Merges(a, n, w) /\ s = [i \in 1..n |-> Parts(a)[w[i]][Count(w, w[i], i)]]
  BY StreamOf
<1>2. PICK parts : parts = Parts(a)
  OBVIOUS
<1>3. PartsOf(a, parts)
  BY <1>2, PartsAre
<1>4. n \in Nat /\ w \in [1..n -> 1..Len(a.calls) + 1] /\ Len(a.calls) \in Nat
  <2>1. IsSequence(a.calls)
    BY ChatAssumption
  <2> QED BY <1>1, <2>1 DEF Merges, IsSequence
<1>5. Len(s) = n /\ \A i \in 1..n : s[i] = parts[w[i]][Count(w, w[i], i)]
  <2>1. \A i \in 1..n : s[i] = parts[w[i]][Count(w, w[i], i)]
    BY <1>1, <1>2
  <2>2. s = [i \in 1..n |-> s[i]]
    BY <1>1
  <2>3. Len(s) = n
    BY <1>4, <2>2, MadeSeq
  <2> QED BY <2>1, <2>3
<1>6. PICK f : Reading(s, f) /\ Accumulated(s, a.stop) =
                 OpenAIResponse([text |-> f[Len(s)].text, calls |-> InOrder(f[Len(s)].calls), stop |-> a.stop])
  BY <1>4, <1>5, AccumulatedIs
<1>7. f[0] = FirstRead /\ \A m \in 1..n : f[m] = ReadChunk(f[m - 1], s[m])
  <2>1. f = [m \in 0..n |-> IF m = 0 THEN FirstRead ELSE ReadChunk(f[m - 1], s[m])]
    BY <1>5, <1>6 DEF Reading
  <2>2. f[0] = FirstRead
    BY <1>4, <2>1
  <2>3. ASSUME NEW m \in 1..n PROVE f[m] = ReadChunk(f[m - 1], s[m])
    BY <1>4, <2>1, <2>3
  <2> QED BY <2>2, <2>3
<1> DEFINE T == {m \in 0..n : AsRead(a, w, m, f[m])}
<1>8. 0 \in T
  <2>1. \A p : Count(w, p, 0) = 0
    BY CountStep
  <2>2. PICK acc : acc = FirstRead
    OBVIOUS
  <2>3. acc = [text |-> acc.text, calls |-> acc.calls] /\ acc.text = <<>> /\ acc.calls = <<>>
    BY <2>2 DEF FirstRead
  <2>4. acc.text = First(a.text, Count(w, 1, 0))
    BY <2>1, <2>3, FirstNone
  <2>5. DOMAIN acc.calls = {k \in 1..Len(a.calls) : Count(w, k + 1, 0) >= 1}
    <3>1. \A k : ~(Count(w, k + 1, 0) >= 1)
      BY <2>1
    <3> QED BY <2>3, <3>1
  <2>6. \A k : k \notin DOMAIN acc.calls
    BY <2>3
  <2>7. AsRead(a, w, 0, acc)
    BY <2>3, <2>4, <2>5, <2>6 DEF AsRead
  <2> QED BY <1>4, <1>7, <2>2, <2>7
<1>9. ASSUME NEW m \in 0..n, m \in T, m < n PROVE m + 1 \in T
  <2>1. m + 1 \in 1..n /\ (m + 1) - 1 = m
    BY <1>4, <1>9
  <2>2. f[m + 1] = ReadChunk(f[m], s[m + 1])
    BY <1>7, <2>1
  <2>3. s[m + 1] = parts[w[m + 1]][Count(w, w[m + 1], m + 1)]
    BY <1>5, <2>1
  <2>4. PICK acc : acc = f[m]
    OBVIOUS
  <2>5. AsRead(a, w, m, acc)
    BY <1>9, <2>4
  <2>6. w[m + 1] \in 1..Len(a.calls) + 1
    BY <1>4, <2>1
  <2>7. AsRead(a, w, m + 1, ReadChunk(acc, parts[w[m + 1]][Count(w, w[m + 1], m + 1)]))
    <3>1. CASE w[m + 1] = 1
      BY <1>1, <1>3, <1>9, <2>5, <3>1, ReadText
    <3>2. CASE w[m + 1] # 1
      <4>1. PICK k \in 1..Len(a.calls) : w[m + 1] = k + 1
        <5>1. w[m + 1] - 1 \in 1..Len(a.calls) /\ w[m + 1] = (w[m + 1] - 1) + 1
          BY <1>4, <2>6, <3>2
        <5> QED BY <5>1
      <4> QED BY <1>1, <1>3, <1>9, <2>5, <4>1, ReadCall
    <3> QED BY <3>1, <3>2
  <2>8. AsRead(a, w, m + 1, f[m + 1])
    BY <2>2, <2>3, <2>4, <2>7
  <2> QED BY <2>1, <2>8
<1>10. AsRead(a, w, n, f[n])
  <2>1. \A m \in 0..n : m \in T
    <3> HIDE DEF T
    <3> QED BY <1>4, <1>8, <1>9, UpTo
  <2> QED BY <1>4, <2>1
<1>11. f[n].text = a.text /\ InOrder(f[n].calls) = a.calls
  BY <1>1, <1>10, AllRead
<1>12. Accumulated(s, a.stop) = OpenAIResponse([text |-> a.text, calls |-> a.calls, stop |-> a.stop])
  BY <1>5, <1>6, <1>11
<1>13. OpenAIResponse([text |-> a.text, calls |-> a.calls, stop |-> a.stop]) = OpenAIResponse(a)
  BY DEF OpenAIResponse
<1> QED BY <1>12, <1>13

-----------------------------------------------------------------------------
(* The messages of a run, between its rounds and within one.               *)

Assistants(ms) == Cardinality({i \in DOMAIN ms : ms[i].role = "assistant"})
Good(ms) == Messaged(ms) /\ Paired(AnthropicMarks(ms)) /\ Paired(OpenAIMarks(ms))

\* The model is asked next.
Ready(ms) ==
    Good(ms) /\ Assistants(ms) \in 0..MaxIterations /\ Len(ms) = 2 * Assistants(ms) + 1

\* The model has spoken.
Spoken(ms) == IsSequence(ms) /\ Assistants(ms) \in 0..MaxIterations /\ Len(ms) = 2 * Assistants(ms)

\* The calls of the last turn q: of the first ones rs are the results, cs are
\* the others.
Split(q, rs, cs) ==
    /\ Typed(q, "tool_use") /\ Typed(rs, "tool_result") /\ IsSequence(cs)
    /\ Len(rs) + Len(cs) = Len(q) /\ Len(cs) > 0
    /\ \A i \in 1..Len(rs) : rs[i].id = q[i].id
    /\ \A i \in 1..Len(cs) : cs[i].id = q[Len(rs) + i].id

Pending(ms, rs, cs) ==
    /\ Spoken(ms)
    /\ \E m, turn, p, q : /\ Good(m) /\ ms = m \o <<turn>> /\ turn.role = "assistant"
                          /\ turn.content = p \o q /\ Plain(p) /\ Split(q, rs, cs)

LEMMA AssistantsOf ==
    ASSUME NEW ms, IsSequence(ms), NEW e
    PROVE  /\ Assistants(ms) \in Nat
           /\ e.role = "assistant" => Assistants(Append(ms, e)) = Assistants(ms) + 1
           /\ e.role # "assistant" => Assistants(Append(ms, e)) = Assistants(ms)
<1>1. DOMAIN ms = 1..Len(ms) /\ Len(ms) \in Nat
  BY SeqOfItems
<1>2. PICK t : t = Append(ms, e)
  OBVIOUS
<1>3. IsSequence(t) /\ Len(t) = Len(ms) + 1 /\ t[Len(ms) + 1] = e /\ \A i \in 1..Len(ms) : t[i] = ms[i]
  BY <1>2, AppendAny
<1>4. DOMAIN t = 1..Len(ms) + 1
  BY <1>3, SeqOfItems
<1> DEFINE A == {i \in DOMAIN ms : ms[i].role = "assistant"}
           B == {i \in DOMAIN t : t[i].role = "assistant"}
<1>5. IsFiniteSet(A) /\ Cardinality(A) \in Nat
  <2>1. IsFiniteSet(1..Len(ms)) /\ A \in SUBSET (1..Len(ms))
    BY <1>1, FS_Interval
  <2> HIDE DEF A
  <2> QED BY <2>1, FS_Subset, FS_CardinalityType
<1>6. e.role = "assistant" => Cardinality(B) = Cardinality(A) + 1
  <2> SUFFICES ASSUME e.role = "assistant" PROVE Cardinality(B) = Cardinality(A) + 1
    OBVIOUS
  <2>1. B = A \cup {Len(ms) + 1} /\ Len(ms) + 1 \notin A
    BY <1>1, <1>3, <1>4
  <2> HIDE DEF A, B
  <2> QED BY <1>5, <2>1, FS_AddElement
<1>7. e.role # "assistant" => B = A
  BY <1>1, <1>3, <1>4
<1> HIDE DEF A, B
<1>8. Assistants(ms) = Cardinality(A) /\ Assistants(t) = Cardinality(B)
  BY DEF Assistants, A, B
<1> QED BY <1>2, <1>5, <1>6, <1>7, <1>8

\* Lists with a message after them.
LEMMA GoodConcat ==
    ASSUME NEW a, Good(a), NEW b, Messaged(b), Paired(AnthropicMarks(b)), Paired(OpenAIMarks(b)),
           IsSequence(AnthropicMarks(b)), IsSequence(OpenAIMarks(b))
    PROVE  Good(a \o b)
<1>1. Messaged(a) /\ Paired(AnthropicMarks(a)) /\ Paired(OpenAIMarks(a))
  BY DEF Good
<1>2. AnthropicMarks(a \o b) = AnthropicMarks(a) \o AnthropicMarks(b) /\ IsSequence(AnthropicMarks(a))
  BY <1>1, AnthropicConcat
<1>3. OpenAIMarks(a \o b) = OpenAIMarks(a) \o OpenAIMarks(b) /\ IsSequence(OpenAIMarks(a))
  BY <1>1, OpenAIConcat
<1>4. Paired(AnthropicMarks(a \o b))
  BY <1>1, <1>2, PairedConcat
<1>5. Paired(OpenAIMarks(a \o b))
  BY <1>1, <1>3, PairedConcat
<1> QED BY <1>1, <1>4, <1>5, JoinedMessages DEF Good

LEMMA GoodPlain ==
    ASSUME NEW m, Plain(m.content)
    PROVE  Good(<<m>>)
<1>1. Messaged(<<m>>)
  <2>1. IsSequence(m.content)
    BY DEF Plain
  <2> QED BY <2>1, AnthropicOne
<1>2. Paired(AnthropicMarks(<<m>>)) /\ Paired(OpenAIMarks(<<m>>))
  BY PlainMessage, PairedOthers
<1> QED BY <1>1, <1>2 DEF Good

LEMMA QuestionReady ==
    ASSUME NEW question
    PROVE  Ready(<<ChatMessage("user", <<TextBlock(question)>>)>>)
<1>1. PICK m : m = ChatMessage("user", <<TextBlock(question)>>)
  OBVIOUS
<1>2. m.role = "user" /\ m.content = <<TextBlock(question)>>
  BY <1>1 DEF ChatMessage
<1>3. Good(<<m>>)
  BY <1>2, TextPlain, GoodPlain
<1>4. Assistants(<<m>>) = 0
  <2>1. DOMAIN <<m>> = 1..1 /\ <<m>>[1] = m /\ \A i \in 1..1 : i = 1
    OBVIOUS
  <2>2. {i \in DOMAIN <<m>> : <<m>>[i].role = "assistant"} = {}
    BY <1>2, <2>1
  <2> QED BY <2>2, FS_EmptySet DEF Assistants
<1>5. Len(<<m>>) = 1 /\ MaxIterations \in Nat
  BY SingletonSeq, ChatAssumption
<1>6. Ready(<<m>>)
  BY <1>3, <1>4, <1>5 DEF Ready
<1> QED BY <1>1, <1>6

\* The model speaks: with calls they are all pending.
LEMMA ReadySpoken ==
    ASSUME NEW ms, Ready(ms), Assistants(ms) < MaxIterations, NEW content
    PROVE  Spoken(Append(ms, ChatMessage("assistant", content)))
<1>1. PICK turn, t : turn = ChatMessage("assistant", content) /\ t = Append(ms, turn)
  OBVIOUS
<1>2. turn.role = "assistant" /\ IsSequence(ms)
  BY <1>1 DEF ChatMessage, Ready, Good, Messaged
<1>3. IsSequence(t) /\ Len(t) = Len(ms) + 1
  BY <1>1, <1>2, AppendAny
<1>4. Assistants(t) = Assistants(ms) + 1 /\ Assistants(ms) \in Nat
  BY <1>1, <1>2, AssistantsOf
<1>5. Assistants(t) \in 0..MaxIterations /\ Len(t) = 2 * Assistants(t)
  BY <1>3, <1>4, ChatAssumption DEF Ready
<1>6. Spoken(t)
  BY <1>3, <1>5 DEF Spoken
<1> QED BY <1>1, <1>6

LEMMA PendingStarts ==
    ASSUME NEW ms, Ready(ms), Assistants(ms) < MaxIterations, NEW content, NEW made, TurnOf(content, made), made # <<>>
    PROVE  Pending(Append(ms, ChatMessage("assistant", content)), <<>>, made)
<1>1. PICK turn, t : turn = ChatMessage("assistant", content) /\ t = Append(ms, turn)
  OBVIOUS
<1>2. turn.role = "assistant" /\ turn.content = content
  BY <1>1 DEF ChatMessage
<1>3. Spoken(t)
  BY <1>1, ReadySpoken
<1>4. Good(ms) /\ IsSequence(ms)
  BY DEF Ready, Good, Messaged
<1>5. t = ms \o <<turn>>
  BY <1>1, <1>4, AppendConcat
<1>6. PICK p, q : /\ Plain(p) /\ Typed(q, "tool_use") /\ content = p \o q
                  /\ IsSequence(made) /\ Len(q) = Len(made) /\ \A i \in 1..Len(made) : q[i].id = made[i].id
  BY DEF TurnOf
<1>7. PICK rs : rs = <<>>
  OBVIOUS
<1>8. Typed(rs, "tool_result") /\ Len(rs) = 0
  BY <1>7, NothingTyped, EmptyList
<1>9. Len(made) \in Nat /\ Len(made) > 0
  <2>1. Len(made) \in Nat
    BY <1>6 DEF IsSequence
  <2>2. Len(made) # 0
    <3> SUFFICES ASSUME Len(made) = 0 PROVE FALSE
      OBVIOUS
    <3>1. made = [i \in 1..0 |-> made[i]]
      BY <1>6 DEF IsSequence
    <3> QED BY <3>1
  <2> QED BY <2>1, <2>2
<1>10. \A i \in 1..Len(made) : made[i].id = q[Len(rs) + i].id
  BY <1>6, <1>8, <1>9
<1>11. Split(q, rs, made)
  BY <1>6, <1>8, <1>9, <1>10 DEF Split
<1>12. Pending(t, rs, made)
  BY <1>2, <1>3, <1>4, <1>5, <1>6, <1>11 DEF Pending
<1> QED BY <1>1, <1>7, <1>12

LEMMA TailOf ==
    ASSUME NEW s, IsSequence(s), Len(s) > 0
    PROVE  /\ IsSequence(Tail(s)) /\ Len(Tail(s)) = Len(s) - 1 /\ Head(s) = s[1]
           /\ \A i \in 1..Len(s) - 1 : Tail(s)[i] = s[i + 1]
<1>1. Len(s) \in Nat /\ s # <<>>
  BY EmptyList DEF IsSequence
<1>2. PICK S : s \in Seq(S)
  BY InOneSet
<1>3. /\ Tail(s) \in Seq(S) /\ Len(Tail(s)) = Len(s) - 1
      /\ \A i \in 1..Len(Tail(s)) : Tail(s)[i] = s[i + 1]
  BY <1>1, <1>2, HeadTailProperties
<1>4. IsSequence(Tail(s))
  BY <1>3, ItemsOfSeq
<1>5. Head(s) = s[1]
  BY <1>1, <1>2
<1>6. \A i \in 1..Len(s) - 1 : Tail(s)[i] = s[i + 1]
  BY <1>3
<1> QED BY <1>3, <1>4, <1>5, <1>6

\* One more call has its result.
GoneOn(q, rs, cs, block) ==
    /\ IsSequence(Tail(cs)) /\ Len(Tail(cs)) = Len(cs) - 1
    /\ Typed(Append(rs, block), "tool_result") /\ Len(Append(rs, block)) = Len(rs) + 1
    /\ \A i \in 1..Len(Append(rs, block)) : Append(rs, block)[i].id = q[i].id
    /\ Len(Tail(cs)) > 0 => Split(q, Append(rs, block), Tail(cs))

LEMMA SplitGoesOn ==
    ASSUME NEW q, NEW rs, NEW cs, Split(q, rs, cs), NEW isError
    PROVE  GoneOn(q, rs, cs, ToolResultBlock(Head(cs).id, isError))
<1>1. /\ Typed(q, "tool_use") /\ Typed(rs, "tool_result") /\ IsSequence(cs)
      /\ Len(rs) + Len(cs) = Len(q) /\ Len(cs) > 0
      /\ \A i \in 1..Len(rs) : rs[i].id = q[i].id
      /\ \A i \in 1..Len(cs) : cs[i].id = q[Len(rs) + i].id
  BY DEF Split
<1>2. Len(rs) \in Nat /\ Len(cs) \in Nat /\ Len(q) \in Nat /\ IsSequence(rs)
  BY <1>1 DEF Typed, IsSequence
<1>3. PICK rest, block, all : rest = Tail(cs) /\ block = ToolResultBlock(Head(cs).id, isError) /\ all = Append(rs, block)
  OBVIOUS
<1>4. IsSequence(rest) /\ Len(rest) = Len(cs) - 1 /\ Head(cs) = cs[1] /\ \A i \in 1..Len(cs) - 1 : rest[i] = cs[i + 1]
  BY <1>1, <1>3, TailOf
<1>5. block.type = "tool_result" /\ block.id = cs[1].id
  BY <1>3, <1>4 DEF ToolResultBlock
<1>6. IsSequence(all) /\ Len(all) = Len(rs) + 1 /\ all[Len(rs) + 1] = block /\ \A i \in 1..Len(rs) : all[i] = rs[i]
  BY <1>2, <1>3, AppendAny
<1>7. block.id = q[Len(rs) + 1].id
  <2>1. 1 \in 1..Len(cs)
    BY <1>1, <1>2
  <2> QED BY <1>1, <1>5, <2>1
<1>8. ASSUME NEW i \in 1..Len(all) PROVE all[i].id = q[i].id /\ all[i].type = "tool_result"
  <2>1. CASE i \in 1..Len(rs)
    BY <1>1, <1>6, <2>1 DEF Typed
  <2>2. CASE i \notin 1..Len(rs)
    <3>1. i = Len(rs) + 1
      BY <1>2, <1>6, <2>2
    <3> QED BY <1>5, <1>6, <1>7, <3>1
  <2> QED BY <2>1, <2>2
<1>9. Typed(all, "tool_result")
  BY <1>6, <1>8 DEF Typed
<1>10. ASSUME NEW i \in 1..Len(rest) PROVE rest[i].id = q[Len(all) + i].id
  <2>1. rest[i] = cs[i + 1] /\ i + 1 \in 1..Len(cs) /\ Len(rs) + (i + 1) = Len(all) + i
    BY <1>2, <1>4, <1>6
  <2>2. cs[i + 1].id = q[Len(rs) + (i + 1)].id
    BY <1>1, <2>1
  <2> QED BY <2>1, <2>2
<1>11. Len(all) + Len(rest) = Len(q)
  BY <1>1, <1>2, <1>4, <1>6
<1>12. Len(rest) > 0 => Split(q, all, rest)
  BY <1>1, <1>4, <1>8, <1>9, <1>10, <1>11 DEF Split
<1>13. GoneOn(q, rs, cs, block)
  BY <1>3, <1>4, <1>6, <1>8, <1>9, <1>12 DEF GoneOn
<1> QED BY <1>3, <1>13

LEMMA PendingGoesOn ==
    ASSUME NEW ms, NEW rs, NEW cs, Pending(ms, rs, cs), NEW isError, Tail(cs) # <<>>
    PROVE  Pending(ms, Append(rs, ToolResultBlock(Head(cs).id, isError)), Tail(cs))
<1>1. PICK m, turn, p, q : /\ Good(m) /\ ms = m \o <<turn>> /\ turn.role = "assistant"
                           /\ turn.content = p \o q /\ Plain(p) /\ Split(q, rs, cs)
  BY DEF Pending
<1>2. PICK rest, all : rest = Tail(cs) /\ all = Append(rs, ToolResultBlock(Head(cs).id, isError))
  OBVIOUS
<1>3. IsSequence(rest) /\ (Len(rest) > 0 => Split(q, all, rest))
  <2>1. GoneOn(q, rs, cs, ToolResultBlock(Head(cs).id, isError))
    BY <1>1, SplitGoesOn
  <2> QED BY <1>2, <2>1 DEF GoneOn
<1>4. Len(rest) > 0
  <2>1. Len(rest) \in Nat
    BY <1>3 DEF IsSequence
  <2>2. Len(rest) # 0
    <3> SUFFICES ASSUME Len(rest) = 0 PROVE FALSE
      OBVIOUS
    <3>1. rest = [i \in 1..0 |-> rest[i]]
      BY <1>3 DEF IsSequence
    <3> QED BY <1>2, <3>1
  <2> QED BY <2>1, <2>2
<1>5. Pending(ms, all, rest)
  BY <1>1, <1>3, <1>4 DEF Pending
<1> QED BY <1>2, <1>5

LEMMA AnthropicCalls ==
    ASSUME NEW m, NEW p, Plain(p), NEW q, m.content = p \o q, Typed(q, "tool_use")
    PROVE  \E o : Others(o) /\ AnthropicMarks(<<m>>) = o \o CallMarks(q)
<1>1. IsSequence(q)
  BY DEF Typed
<1>2. AnthropicGets(m, p, CallMarks(q))
  BY <1>1, AnthropicParts
<1> QED BY <1>2 DEF AnthropicGets

LEMMA AnthropicResults ==
    ASSUME NEW m, Typed(m.content, "tool_result")
    PROVE  AnthropicMarks(<<m>>) = ResultMarks(m.content)
<1>1. PICK p, q : p = <<>> /\ q = m.content
  OBVIOUS
<1>2. Typed(q, "tool_result") /\ IsSequence(q) /\ Plain(p)
  BY <1>1, NothingPlain DEF Typed
<1>3. m.content = p \o q
  BY <1>1, <1>2, ConcatEmpty
<1>4. AnthropicGets(m, p, ResultMarks(q))
  BY <1>2, <1>3, AnthropicParts
<1>5. PICK r : r = ResultMarks(q)
  OBVIOUS
<1>6. AnthropicMarks(<<m>>) = <<>> \o r
  BY <1>1, <1>4, <1>5 DEF AnthropicGets
<1>7. IsSequence(r)
  <2>1. r = [i \in 1..Len(q) |-> r[i]] /\ Len(q) \in Nat
    BY <1>2, <1>5 DEF ResultMarks, IsSequence
  <2> QED BY <2>1, MadeSeq
<1> QED BY <1>1, <1>5, <1>6, <1>7, ConcatEmpty

\* The round is whole: the turn, its calls, and at once their results.
LEMMA RoundGood ==
    ASSUME NEW turn, turn.role = "assistant", NEW p, Plain(p), NEW q, turn.content = p \o q, Typed(q, "tool_use"),
           NEW told, told.role = "tool", Typed(told.content, "tool_result"), Len(told.content) = Len(q), Len(q) > 0,
           \A i \in 1..Len(q) : told.content[i].id = q[i].id
    PROVE  /\ Messaged(<<turn>> \o <<told>>)
           /\ Paired(AnthropicMarks(<<turn>> \o <<told>>)) /\ Paired(OpenAIMarks(<<turn>> \o <<told>>))
           /\ IsSequence(AnthropicMarks(<<turn>> \o <<told>>)) /\ IsSequence(OpenAIMarks(<<turn>> \o <<told>>))
<1>1. PICK rs : rs = told.content
  OBVIOUS
<1>2. IsSequence(p) /\ IsSequence(q) /\ IsSequence(rs) /\ Typed(rs, "tool_result")
  BY <1>1 DEF Plain, Typed
<1>3. IsSequence(turn.content)
  BY <1>2, ConcatJoins DEF Joined
<1>4. Messaged(<<turn>>) /\ Messaged(<<told>>)
  BY <1>1, <1>2, <1>3, AnthropicOne
<1>6. PICK asked, given : asked = CallMarks(q) /\ given = ResultMarks(rs)
  OBVIOUS
<1>7. PICK o : Others(o) /\ AnthropicMarks(<<turn>>) = o \o asked
  BY <1>6, AnthropicCalls
<1>8. AnthropicMarks(<<told>>) = given
  BY <1>1, <1>2, <1>6, AnthropicResults
<1>9. q # <<>>
  BY EmptyList
<1>10. OpenAIMarks(<<turn>>) = asked /\ OpenAIMarks(<<told>>) = given
  BY <1>1, <1>2, <1>6, <1>9, CallsMessage, ResultsMessage
<1>11. IsSequence(asked) /\ IsSequence(given)
  <2>1. asked = [i \in 1..Len(q) |-> asked[i]] /\ given = [i \in 1..Len(rs) |-> given[i]]
    BY <1>6 DEF CallMarks, ResultMarks
  <2>2. Len(q) \in Nat /\ Len(rs) \in Nat
    BY <1>2 DEF IsSequence
  <2> QED BY <2>1, <2>2, MadeSeq
<1>12. Paired(asked \o given)
  BY <1>1, <1>2, <1>6, PairedRound
<1>13. IsSequence(asked \o given)
  BY <1>11, ConcatJoins DEF Joined
<1>14. AnthropicMarks(<<turn>> \o <<told>>) = (o \o asked) \o given
  BY <1>4, <1>7, <1>8, AnthropicConcat
<1>15. (o \o asked) \o given = o \o (asked \o given)
  <2>1. IsSequence(o)
    BY <1>7 DEF Others
  <2>2. PICK x, y, z : x = o /\ y = asked /\ z = given
    OBVIOUS
  <2>3. IsSequence(x) /\ IsSequence(y) /\ IsSequence(z)
    BY <1>11, <2>1, <2>2
  <2>4. (x \o y) \o z = x \o (y \o z)
    BY <2>3, ConcatAssoc, SMTT(20)
  <2> QED BY <2>2, <2>4
<1>16. Paired(o \o (asked \o given)) /\ IsSequence(o \o (asked \o given))
  <2>1. PICK both : both = asked \o given
    OBVIOUS
  <2>2. IsSequence(o) /\ IsSequence(both) /\ Paired(o) /\ Paired(both)
    BY <1>7, <1>12, <1>13, <2>1, PairedOthers DEF Others
  <2>3. Paired(o \o both) /\ IsSequence(o \o both)
    BY <2>2, PairedConcat, ConcatJoins DEF Joined
  <2> QED BY <2>1, <2>3
<1>17. OpenAIMarks(<<turn>> \o <<told>>) = asked \o given
  BY <1>4, <1>10, OpenAIConcat
<1> QED BY <1>4, <1>12, <1>13, <1>14, <1>15, <1>16, <1>17, JoinedMessages

LEMMA PendingEnds ==
    ASSUME NEW ms, NEW rs, NEW cs, Pending(ms, rs, cs), NEW isError, Tail(cs) = <<>>
    PROVE  Ready(Append(ms, ChatMessage("tool", Append(rs, ToolResultBlock(Head(cs).id, isError)))))
<1>1. PICK m, turn, p, q : /\ Good(m) /\ ms = m \o <<turn>> /\ turn.role = "assistant"
                           /\ turn.content = p \o q /\ Plain(p) /\ Split(q, rs, cs)
  BY DEF Pending
<1>2. PICK all, told, t :
        /\ all = Append(rs, ToolResultBlock(Head(cs).id, isError))
        /\ told = ChatMessage("tool", all) /\ t = Append(ms, told)
  OBVIOUS
<1>3. told.role = "tool" /\ told.content = all
  BY <1>2 DEF ChatMessage
<1>4. /\ Len(Tail(cs)) = Len(cs) - 1 /\ Typed(all, "tool_result") /\ Len(all) = Len(rs) + 1
      /\ \A i \in 1..Len(all) : all[i].id = q[i].id
  <2>1. GoneOn(q, rs, cs, ToolResultBlock(Head(cs).id, isError))
    BY <1>1, SplitGoesOn
  <2> QED BY <1>2, <2>1 DEF GoneOn
<1>5. Len(all) = Len(q) /\ Len(q) > 0 /\ Typed(q, "tool_use")
  <2>1. Len(Tail(cs)) = 0
    BY EmptyList
  <2>2. Len(rs) \in Nat /\ Len(cs) \in Nat /\ Len(rs) + Len(cs) = Len(q) /\ Len(cs) > 0 /\ Typed(q, "tool_use")
    BY <1>1 DEF Split, Typed, IsSequence
  <2>3. Len(all) = Len(rs) + 1 /\ Len(cs) - 1 = 0
    BY <1>4, <2>1
  <2>4. \A j, k, n \in Nat : j + k = n /\ k - 1 = 0 => j + 1 = n /\ n > 0
    OBVIOUS
  <2>5. Len(q) \in Nat
    BY <2>2
  <2>6. Len(rs) + 1 = Len(q) /\ Len(q) > 0
    BY <2>2, <2>3, <2>4, <2>5, Zenon
  <2> QED BY <2>2, <2>3, <2>6, Zenon
<1>6. PICK round : round = <<turn>> \o <<told>>
  OBVIOUS
<1>7. /\ Messaged(round) /\ Paired(AnthropicMarks(round)) /\ Paired(OpenAIMarks(round))
      /\ IsSequence(AnthropicMarks(round)) /\ IsSequence(OpenAIMarks(round))
  BY <1>1, <1>3, <1>4, <1>5, <1>6, RoundGood
<1>8. Good(m \o round)
  BY <1>1, <1>7, GoodConcat
<1>9. IsSequence(ms) /\ IsSequence(m)
  BY <1>1 DEF Pending, Spoken, Good, Messaged
<1>10. t = m \o round
  <2>1. t = ms \o <<told>>
    BY <1>2, <1>9, AppendConcat
  <2>2. IsSequence(<<turn>>) /\ IsSequence(<<told>>)
    BY SingletonSeq
  <2>3. (m \o <<turn>>) \o <<told>> = m \o (<<turn>> \o <<told>>)
    BY <1>9, <2>2, ConcatAssoc
  <2> QED BY <1>1, <1>6, <2>1, <2>3
<1>11. Assistants(t) = Assistants(ms) /\ Len(t) = Len(ms) + 1
  <2>1. told.role # "assistant"
    BY <1>3
  <2> QED BY <1>2, <1>9, <2>1, AssistantsOf, AppendAny
<1>12. Ready(t)
  BY <1>8, <1>10, <1>11 DEF Ready, Pending, Spoken
<1> QED BY <1>2, <1>12

LEMMA NothingGood == Good(<<>>)
<1>1. FlattenSeq(<<>>) = <<>>
  BY DEF FlattenSeq
<1>2. ToParams(<<>>) = <<>>
  BY <1>1 DEF ToParams, Kept
<1>3. AnthropicMarks(<<>>) = <<>>
  BY <1>1, <1>2 DEF AnthropicMarks
<1>4. WirePart(<<>>) = <<>>
  BY <1>1 DEF WirePart
<1>5. OpenAIMarks(<<>>) = <<>>
  BY <1>1, <1>4 DEF OpenAIMarks
<1>6. Others(<<>>) /\ Messaged(<<>>)
  BY EmptyList DEF Others, Messaged
<1>7. Paired(<<>>)
  BY <1>6, PairedOthers
<1> QED BY <1>3, <1>5, <1>6, <1>7 DEF Good

\* A history: turns of text alone.
LEMMA PlainGood ==
    ASSUME NEW ms, IsSequence(ms), \A i \in 1..Len(ms) : Plain(ms[i].content)
    PROVE  Good(ms)
<1> DEFINE prefix(n) == [i \in 1..n |-> ms[i]]
           T == {n \in 0..Len(ms) : Good(prefix(n))}
<1>0. Len(ms) \in Nat /\ ms = prefix(Len(ms))
  BY DEF IsSequence
<1>1. 0 \in T
  <2>1. prefix(0) = <<>>
    OBVIOUS
  <2> HIDE DEF prefix
  <2> QED BY <1>0, <2>1, NothingGood
<1>2. ASSUME NEW n \in 0..Len(ms), n \in T, n < Len(ms) PROVE n + 1 \in T
  <2>1. PICK a, b : a = prefix(n) /\ b = prefix(n + 1)
    OBVIOUS
  <2>2. Good(a)
    BY <1>2, <2>1
  <2>3. PICK m : m = ms[n + 1]
    OBVIOUS
  <2>4. Plain(m.content)
    <3>1. n + 1 \in 1..Len(ms)
      BY <1>0, <1>2
    <3> QED BY <2>3, <3>1
  <2>5. IsSequence(a) /\ Len(a) = n /\ IsSequence(b) /\ Len(b) = n + 1
    <3>1. a = [i \in 1..n |-> a[i]] /\ b = [i \in 1..n + 1 |-> b[i]]
      BY <2>1
    <3>2. n \in Nat /\ n + 1 \in Nat
      BY <1>0
    <3> QED BY <3>1, <3>2, MadeSeq
  <2>6. PICK c : c = Append(a, m)
    OBVIOUS
  <2>7. IsSequence(c) /\ Len(c) = n + 1 /\ c[n + 1] = m /\ \A i \in 1..n : c[i] = a[i]
    BY <2>5, <2>6, AppendAny
  <2>8. ASSUME NEW i \in 1..n + 1 PROVE b[i] = c[i]
    <3>1. b[i] = ms[i]
      BY <2>1
    <3>2. CASE i = n + 1
      BY <2>3, <2>7, <3>1, <3>2
    <3>3. CASE i # n + 1
      <4>1. i \in 1..n
        BY <1>0, <3>3
      <4>2. a[i] = ms[i]
        BY <2>1, <4>1
      <4> QED BY <2>7, <3>1, <4>1, <4>2
    <3> QED BY <3>2, <3>3
  <2>9. b = c
    BY <2>5, <2>7, <2>8, SameItems
  <2>10. b = a \o <<m>>
    BY <2>5, <2>6, <2>9, AppendConcat
  <2>11. Good(<<m>>) /\ IsSequence(AnthropicMarks(<<m>>)) /\ IsSequence(OpenAIMarks(<<m>>))
    BY <2>4, GoodPlain, PlainMessage DEF Others
  <2>12. Good(a \o <<m>>)
    BY <2>2, <2>11, GoodConcat DEF Good
  <2>13. n + 1 \in 0..Len(ms)
    BY <1>0, <1>2
  <2>14. Good(b)
    BY <2>10, <2>12
  <2>15. Good(prefix(n + 1))
    <3> HIDE DEF prefix
    <3> QED BY <2>1, <2>14
  <2> HIDE DEF prefix
  <2> QED BY <2>13, <2>15
<1>3. \A n \in 0..Len(ms) : n \in T
  <2> HIDE DEF T
  <2> QED BY <1>0, <1>1, <1>2, UpTo
<1>4. Good(prefix(Len(ms)))
  BY <1>0, <1>3
<1> HIDE DEF prefix
<1> QED BY <1>0, <1>4

LEMMA GoodJoined ==
    ASSUME NEW a, Good(a), NEW b, Good(b)
    PROVE  Good(a \o b)
<1>1. Messaged(b) /\ Messaged(<<>>) /\ IsSequence(b)
  BY NothingGood DEF Good, Messaged
<1>2. IsSequence(AnthropicMarks(b)) /\ IsSequence(OpenAIMarks(b))
  BY <1>1, AnthropicConcat, OpenAIConcat
<1> QED BY <1>2, GoodConcat DEF Good

LEMMA WirePartLists ==
    ASSUME NEW ms, Messaged(ms)
    PROVE  /\ IsSequence(WirePart(ms))
           /\ \A i \in 1..Len(WirePart(ms)) : IsSequence(WireMarks(WirePart(ms)[i]))
<1>0. IsSequence(ms) /\ DOMAIN ms = 1..Len(ms) /\ Len(ms) \in Nat
  BY SeqOfItems DEF Messaged
<1>1. PICK s : s = [i \in DOMAIN ms |-> WirePiece(ms[i])]
  OBVIOUS
<1>2. \A i \in 1..Len(ms) : s[i] = WirePiece(ms[i])
  BY <1>0, <1>1
<1>3. IsSequence(s) /\ Len(s) = Len(ms)
  <2>1. s = [i \in 1..Len(ms) |-> s[i]]
    BY <1>0, <1>1
  <2> QED BY <1>0, <2>1, MadeSeq
<1>4. ASSUME NEW i \in 1..Len(s)
      PROVE  IsSequence(s[i]) /\ \A j \in 1..Len(s[i]) : IsSequence(WireMarks(s[i][j]))
  <2>1. IsSequence(ms[i].content) /\ s[i] = WirePiece(ms[i])
    BY <1>2, <1>3 DEF Messaged
  <2> QED BY <2>1, WirePieceLists
<1>5. Lists(s)
  BY <1>3, <1>4 DEF Lists
<1> DEFINE S == UNION {{s[i][j] : j \in 1..Len(s[i])} : i \in 1..Len(s)}
<1>6. \A i \in 1..Len(s) : \A j \in 1..Len(s[i]) : s[i][j] \in S
  OBVIOUS
<1>7. \A e \in S : IsSequence(WireMarks(e))
  BY <1>4
<1> HIDE DEF S
<1>8. PICK f : f = FlattenSeq(s)
  OBVIOUS
<1>9. f \in Seq(S)
  BY <1>5, <1>6, <1>8, FlattenItems
<1>10. IsSequence(f) /\ \A i \in 1..Len(f) : IsSequence(WireMarks(f[i]))
  BY <1>7, <1>9, ItemsOfSeq
<1>11. WirePart(ms) = f
  BY <1>1, <1>8 DEF WirePart
<1> QED BY <1>10, <1>11

\* The marks of what OpenAI gets: the system message is one more.
LEMMA SystemFirst ==
    ASSUME NEW ms, Messaged(ms), NEW wire, wire = ToWireMessages(ms)
    PROVE  \E o : Others(o) /\ FlattenSeq([i \in DOMAIN wire |-> WireMarks(wire[i])]) = o \o OpenAIMarks(ms)
<1>1. PICK system, part : system = [role |-> "system"] /\ part = WirePart(ms)
  OBVIOUS
<1>2. wire = <<system>> \o part
  BY <1>1 DEF ToWireMessages, WirePart, WirePiece
<1>3. IsSequence(part) /\ \A i \in 1..Len(part) : IsSequence(WireMarks(part[i]))
  BY <1>1, WirePartLists
<1>4. PICK o : o = <<<<"other">>>>
  OBVIOUS
<1>5. IsSequence(o) /\ Len(o) = 1 /\ o[1] = <<"other">> /\ \A i \in 1..1 : i = 1
  BY <1>4, SingletonSeq
<1>6. Others(o)
  BY <1>5 DEF Others
<1>7. WireMarks(system) = o
  BY <1>1, <1>4 DEF WireMarks
<1>8. PICK a, b, c : /\ a = <<o>> /\ b = [i \in DOMAIN part |-> WireMarks(part[i])]
                     /\ c = [i \in DOMAIN wire |-> WireMarks(wire[i])]
  OBVIOUS
<1>9. DOMAIN part = 1..Len(part) /\ Len(part) \in Nat
  BY <1>3, SeqOfItems
<1>10. IsSequence(b) /\ Len(b) = Len(part) /\ \A i \in 1..Len(part) : b[i] = WireMarks(part[i])
  <2>1. b = [i \in 1..Len(part) |-> b[i]] /\ \A i \in 1..Len(part) : b[i] = WireMarks(part[i])
    BY <1>8, <1>9
  <2>2. IsSequence(b) /\ Len(b) = Len(part)
    BY <1>9, <2>1, MadeSeq
  <2> QED BY <2>1, <2>2
<1>11. Lists(b)
  BY <1>3, <1>10 DEF Lists
<1>12. Lists(a) /\ FlattenSeq(a) = o /\ Len(a) = 1 /\ a[1] = o /\ IsSequence(a)
  BY <1>5, <1>8, FlattenOne, SingletonSeq
<1>13. IsSequence(<<system>>) /\ Len(<<system>>) = 1 /\ <<system>>[1] = system
  BY SingletonSeq
<1>14. Joined(<<system>>, part, wire)
  BY <1>2, <1>3, <1>13, ConcatJoins
<1>15. IsSequence(wire) /\ Len(wire) = 1 + Len(part) /\ wire[1] = system /\ \A i \in 1..Len(part) : wire[1 + i] = part[i]
  BY <1>13, <1>14 DEF Joined
<1>16. DOMAIN wire = 1..Len(wire) /\ Len(wire) \in Nat
  BY <1>15, SeqOfItems
<1>17. IsSequence(c) /\ Len(c) = Len(wire) /\ \A i \in 1..Len(wire) : c[i] = WireMarks(wire[i])
  <2>1. c = [i \in 1..Len(wire) |-> c[i]] /\ \A i \in 1..Len(wire) : c[i] = WireMarks(wire[i])
    BY <1>8, <1>16
  <2>2. IsSequence(c) /\ Len(c) = Len(wire)
    BY <1>16, <2>1, MadeSeq
  <2> QED BY <2>1, <2>2
<1>18. c = a \o b
  <2>1. PICK d : d = a \o b
    OBVIOUS
  <2>2. Joined(a, b, d)
    BY <1>10, <1>12, <2>1, ConcatJoins
  <2>3. IsSequence(d) /\ Len(d) = 1 + Len(part) /\ d[1] = o /\ \A i \in 1..Len(part) : d[1 + i] = b[i]
    BY <1>10, <1>12, <2>2 DEF Joined
  <2>4. ASSUME NEW i \in 1..Len(c) PROVE c[i] = d[i]
    <3>1. CASE i = 1
      BY <1>7, <1>15, <1>17, <2>3, <3>1
    <3>2. CASE i # 1
      <4>1. PICK j \in 1..Len(part) : i = 1 + j
        <5>1. i - 1 \in 1..Len(part) /\ i = 1 + (i - 1)
          BY <1>9, <1>15, <1>17, <3>2
        <5> QED BY <5>1
      <4>2. c[i] = WireMarks(wire[i]) /\ wire[i] = part[j] /\ d[i] = b[j] /\ b[j] = WireMarks(part[j])
        BY <1>10, <1>15, <1>17, <2>3, <4>1
      <4> QED BY <4>2
    <3> QED BY <3>1, <3>2
  <2>5. c = d
    BY <1>15, <1>17, <2>3, <2>4, SameItems
  <2> QED BY <2>1, <2>5
<1>19. FlattenSeq(c) = o \o FlattenSeq(b)
  BY <1>11, <1>12, <1>18, FlattenConcat
<1>20. FlattenSeq(b) = OpenAIMarks(ms)
  BY <1>1, <1>8 DEF OpenAIMarks
<1> QED BY <1>6, <1>8, <1>19, <1>20

\* What goes on either wire for such messages is well formed.
LEMMA GoodWires ==
    ASSUME NEW ms, Good(ms)
    PROVE  LET params == ToParams(ms) wire == ToWireMessages(ms)
           IN  /\ Paired(FlattenSeq([i \in DOMAIN params |-> ParamMarks(params[i])]))
               /\ Paired(FlattenSeq([i \in DOMAIN wire |-> WireMarks(wire[i])]))
<1>1. Messaged(ms) /\ Paired(AnthropicMarks(ms)) /\ Paired(OpenAIMarks(ms))
  BY DEF Good
<1>2. PICK wire : wire = ToWireMessages(ms)
  OBVIOUS
<1>3. PICK o : Others(o) /\ FlattenSeq([i \in DOMAIN wire |-> WireMarks(wire[i])]) = o \o OpenAIMarks(ms)
  BY <1>1, <1>2, SystemFirst
<1>4. IsSequence(OpenAIMarks(ms)) /\ IsSequence(o) /\ Paired(o)
  BY <1>1, <1>3, OpenAIConcat, PairedOthers DEF Others
<1>5. Paired(o \o OpenAIMarks(ms))
  BY <1>1, <1>4, PairedConcat
<1>6. Paired(FlattenSeq([i \in DOMAIN ToParams(ms) |-> ParamMarks(ToParams(ms)[i])]))
  BY <1>1 DEF AnthropicMarks
<1> QED BY <1>2, <1>3, <1>5, <1>6

-----------------------------------------------------------------------------
(* What a run has at hand at each point of its loop.                       *)

CallCounts == {Len(a.calls) : a \in Answers}

AtHand(at, said, replayed, open, done) ==
    /\ IsSequence(said) /\ IsSequence(replayed) /\ Len(replayed) <= HistoryLimit
    /\ at # "tool" => open = <<>> /\ done = <<>>
    /\ at \in {"prepare", "llm"} => Ready(said)
    /\ at = "tool" => Pending(said, done, open) /\ Len(done) + Len(open) \in CallCounts
    /\ at = "persist" => Spoken(said)
    /\ at \in {"new", "ended"} => Len(said) <= 2 * MaxIterations

\* Every turn of the model is that of a whole answer.
Faithful(said) ==
    \A i \in 1..Len(said) : said[i].role = "assistant" =>
        \E a \in Answers : said[i].content = OpenAIResponse(a).content

HeldOf == DOMAIN history = Runs /\ DOMAIN calls = Runs /\ DOMAIN results = Runs
WireLocal(r) ==
    /\ AtHand(pc[r], new[r], history[r], calls[r], results[r])
    /\ provider = "openai" => Faithful(new[r])
WireInv == HeldOf /\ \A r \in Runs : WireLocal(r)

\* Only run r moves, and has then this at hand.
Becomes(r, at, said, replayed, open, done) ==
    /\ HeldOf' /\ provider' = provider
    /\ pc'[r] = at /\ new'[r] = said /\ history'[r] = replayed /\ calls'[r] = open /\ results'[r] = done
    /\ \A q \in Runs \ {r} : /\ pc'[q] = pc[q] /\ new'[q] = new[q] /\ history'[q] = history[q]
                             /\ calls'[q] = calls[q] /\ results'[q] = results[q]

LEMMA BecomesKeeps ==
    ASSUME WireInv, NEW r \in Runs, NEW at, NEW said, NEW replayed, NEW open, NEW done,
           Becomes(r, at, said, replayed, open, done), AtHand(at, said, replayed, open, done),
           provider = "openai" => Faithful(said)
    PROVE  WireInv'
<1>1. WireLocal(r)'
  BY DEF WireLocal, Becomes
<1>2. ASSUME NEW q \in Runs, q # r PROVE WireLocal(q)'
  BY <1>2 DEF WireInv, WireLocal, Becomes
<1> QED BY <1>1, <1>2 DEF WireInv, Becomes

LEMMA EndedAtHand ==
    ASSUME NEW said, IsSequence(said), Len(said) <= 2 * MaxIterations
    PROVE  AtHand("ended", said, <<>>, <<>>, <<>>)
<1>1. Len(<<>>) <= HistoryLimit
  BY EmptyList, ChatAssumption
<1> QED BY <1>1, EmptyList DEF AtHand

LEMMA NothingSaid == IsSequence(<<>>) /\ Len(<<>>) <= 2 * MaxIterations /\ Faithful(<<>>)
<1>1. Len(<<>>) = 0 /\ IsSequence(<<>>)
  BY EmptyList
<1> QED BY <1>1, ChatAssumption DEF Faithful

LEMMA AbandonedWire ==
    ASSUME WireInv, Functions, NEW r \in Runs, NEW status, Abandon(r, status), provider' = provider
    PROVE  WireInv'
<1>1. Becomes(r, "ended", <<>>, <<>>, <<>>, <<>>)
  BY DEF WireInv, HeldOf, Functions, Abandon, End, Becomes
<1>2. AtHand("ended", <<>>, <<>>, <<>>, <<>>)
  BY NothingSaid, EndedAtHand
<1> QED BY <1>1, <1>2, NothingSaid, BecomesKeeps

LEMMA SpokenFits == ASSUME NEW said, Spoken(said) PROVE IsSequence(said) /\ Len(said) <= 2 * MaxIterations
<1>1. Assistants(said) \in Nat /\ Assistants(said) <= MaxIterations
  BY ChatAssumption DEF Spoken
<1> QED BY <1>1, ChatAssumption DEF Spoken

LEMMA StoredWire ==
    ASSUME WireInv, Functions, NEW r \in Runs, pc[r] = "persist", NEW status, End(r, status),
           new' = new, provider' = provider
    PROVE  WireInv'
<1>1. Becomes(r, "ended", new[r], <<>>, <<>>, <<>>)
  BY DEF WireInv, HeldOf, Functions, End, Becomes
<1>2. Spoken(new[r]) /\ (provider = "openai" => Faithful(new[r]))
  BY DEF WireInv, WireLocal, AtHand
<1>3. AtHand("ended", new[r], <<>>, <<>>, <<>>)
  BY <1>2, SpokenFits, EndedAtHand
<1> QED BY <1>1, <1>2, <1>3, BecomesKeeps

LEMMA AuthenticateWire == ASSUME WireInv, Functions, NEW r \in Runs, Authenticate(r) PROVE WireInv'
<1>1. PICK question \in Questions : new' = [new EXCEPT ![r] = <<ChatMessage("user", <<TextBlock(question)>>)>>]
  BY DEF Authenticate
<1>2. PICK said : said = <<ChatMessage("user", <<TextBlock(question)>>)>>
  OBVIOUS
<1>3. /\ pc[r] = "new" /\ pc' = [pc EXCEPT ![r] = "prepare"]
      /\ provider' = provider /\ history' = history /\ calls' = calls /\ results' = results
  BY DEF Authenticate
<1>4. Becomes(r, "prepare", said, history[r], calls[r], results[r])
  BY <1>1, <1>2, <1>3 DEF WireInv, HeldOf, Functions, Becomes
<1>5. Ready(said)
  BY <1>2, QuestionReady
<1>6. AtHand("new", new[r], history[r], calls[r], results[r])
  BY <1>3 DEF WireInv, WireLocal
<1>7. AtHand("prepare", said, history[r], calls[r], results[r])
  BY <1>5, <1>6 DEF AtHand, Ready, Good, Messaged
<1>8. Faithful(said)
  <2>1. PICK m : m = ChatMessage("user", <<TextBlock(question)>>)
    OBVIOUS
  <2>2. m.role = "user"
    BY <2>1 DEF ChatMessage
  <2>3. Len(<<m>>) = 1 /\ <<m>>[1] = m /\ \A i \in 1..1 : i = 1
    BY SingletonSeq
  <2>4. Faithful(<<m>>)
    BY <2>2, <2>3 DEF Faithful
  <2> QED BY <1>2, <2>1, <2>4
<1> QED BY <1>4, <1>7, <1>8, BecomesKeeps

LEMMA PrepareWire == ASSUME WireInv, Functions, RankInv, NEW r \in Runs, Prepare(r) PROVE WireInv'
<1>1. pc[r] = "prepare" /\ provider' = provider
  BY DEF Prepare
<1>2. AtHand("prepare", new[r], history[r], calls[r], results[r]) /\ (provider = "openai" => Faithful(new[r]))
  BY <1>1 DEF WireInv, WireLocal
<1>3. CASE /\ pc' = [pc EXCEPT ![r] = "llm"] /\ new' = new /\ calls' = calls /\ results' = results
           /\ \/ history' = history
              \/ history' = [history EXCEPT ![r] = History(conv[r])]
  <2>1. PICK h : h = history'[r]
    OBVIOUS
  <2>2. IsSequence(h) /\ Len(h) <= HistoryLimit
    <3>1. CASE history' = history
      BY <1>2, <2>1, <3>1 DEF AtHand
    <3>2. CASE history' = [history EXCEPT ![r] = History(conv[r])]
      <4>1. h = History(conv[r])
        BY <2>1, <3>2 DEF WireInv, HeldOf
      <4> QED BY <4>1, ReplayedRows
    <3> QED BY <1>3, <3>1, <3>2
  <2>3. Becomes(r, "llm", new[r], h, calls[r], results[r])
    BY <1>1, <1>3, <2>1 DEF WireInv, HeldOf, Functions, Becomes
  <2>4. AtHand("llm", new[r], h, calls[r], results[r])
    BY <1>2, <2>2 DEF AtHand
  <2> QED BY <1>2, <2>3, <2>4, BecomesKeeps
<1>4. CASE Abandon(r, Status("NotFoundError"))
  BY <1>1, <1>4, AbandonedWire
<1> QED BY <1>3, <1>4 DEF Prepare

LEMMA FaithfulAppend ==
    ASSUME NEW said, IsSequence(said), Faithful(said), NEW m,
           m.role = "assistant" => \E a \in Answers : m.content = OpenAIResponse(a).content
    PROVE  Faithful(Append(said, m))
<1>1. PICK t : t = Append(said, m)
  OBVIOUS
<1>2. /\ IsSequence(t) /\ Len(t) = Len(said) + 1 /\ t[Len(said) + 1] = m
      /\ \A i \in 1..Len(said) : t[i] = said[i]
  BY <1>1, AppendAny
<1>3. ASSUME NEW i \in 1..Len(t), t[i].role = "assistant"
      PROVE  \E a \in Answers : t[i].content = OpenAIResponse(a).content
  <2>1. CASE i \in 1..Len(said)
    <3>1. t[i] = said[i]
      BY <1>2, <2>1
    <3> QED BY <1>3, <2>1, <3>1 DEF Faithful
  <2>2. CASE i \notin 1..Len(said)
    <3>1. i = Len(said) + 1
      BY <1>2, <2>2 DEF IsSequence
    <3> QED BY <1>2, <1>3, <3>1
  <2> QED BY <2>1, <2>2
<1>4. Faithful(t)
  BY <1>3 DEF Faithful
<1> QED BY <1>1, <1>4

LEMMA ResponseShape ==
    ASSUME provider \in Providers, NEW a \in Answers, NEW response \in Responses[provider][a]
    PROVE  /\ TurnOf(response.content, response.tool_calls) /\ Len(response.tool_calls) \in CallCounts
           /\ provider = "openai" => response = OpenAIResponse(a)
<1>1. CASE provider = "anthropic"
  <2>1. response = AnthropicResponse(a)
    BY <1>1 DEF Responses
  <2> QED BY <1>1, <2>1, AnthropicShape DEF CallCounts
<1>2. CASE provider = "openai"
  <2>1. response \in {OpenAIResponse(a)} \cup {Accumulated(s, a.stop) : s \in Streams(a)}
    BY <1>2 DEF Responses
  <2>2. response = OpenAIResponse(a)
    BY <2>1, StreamIsWhole
  <2> QED BY <2>2, OpenAIShape DEF CallCounts
<1> QED BY <1>1, <1>2, ChatAssumption

LEMMA ModelAnswersWire == ASSUME WireInv, Functions, NEW r \in Runs, ModelAnswers(r) PROVE WireInv'
<1>1. PICK a \in Answers : \E response \in Responses[provider][a] :
        /\ new' = [new EXCEPT ![r] = Append(@, ChatMessage("assistant", response.content))]
        /\ calls' = [calls EXCEPT ![r] = response.tool_calls]
        /\ pc' = [pc EXCEPT ![r] = IF response.tool_calls = <<>> THEN "persist" ELSE "tool"]
  BY DEF ModelAnswers
<1>2. PICK response \in Responses[provider][a] :
        /\ new' = [new EXCEPT ![r] = Append(new[r], ChatMessage("assistant", response.content))]
        /\ calls' = [calls EXCEPT ![r] = response.tool_calls]
        /\ pc' = [pc EXCEPT ![r] = IF response.tool_calls = <<>> THEN "persist" ELSE "tool"]
  BY <1>1
<1>3. PICK content, made, said :
        /\ content = response.content /\ made = response.tool_calls
        /\ said = Append(new[r], ChatMessage("assistant", content))
  OBVIOUS
<1>4. /\ pc[r] = "llm" /\ Assistants(new[r]) < MaxIterations
      /\ provider' = provider /\ history' = history /\ results' = results
  BY DEF ModelAnswers, Iterations, Assistants
<1>5. /\ TurnOf(content, made) /\ Len(made) \in CallCounts
      /\ provider = "openai" => content = OpenAIResponse(a).content
  <2>1. provider \in Providers
    BY DEF Functions
  <2>2. /\ TurnOf(response.content, response.tool_calls) /\ Len(response.tool_calls) \in CallCounts
        /\ provider = "openai" => response = OpenAIResponse(a)
    BY <2>1, ResponseShape
  <2> QED BY <1>3, <2>2
<1>6. AtHand("llm", new[r], history[r], calls[r], results[r]) /\ (provider = "openai" => Faithful(new[r]))
  BY <1>4 DEF WireInv, WireLocal
<1>7. Ready(new[r]) /\ IsSequence(new[r]) /\ results[r] = <<>> /\ IsSequence(history[r]) /\ Len(history[r]) <= HistoryLimit
  BY <1>6 DEF AtHand
<1>8. Spoken(said) /\ IsSequence(said)
  <2>1. Spoken(said)
    BY <1>3, <1>4, <1>7, ReadySpoken
  <2> QED BY <2>1 DEF Spoken
<1>9. provider = "openai" => Faithful(said)
  <2> SUFFICES ASSUME provider = "openai" PROVE Faithful(said)
    OBVIOUS
  <2>1. PICK m : m = ChatMessage("assistant", content)
    OBVIOUS
  <2>2. m.content = OpenAIResponse(a).content
    BY <1>5, <2>1 DEF ChatMessage
  <2>3. Faithful(Append(new[r], m))
    BY <1>6, <1>7, <2>2, FaithfulAppend
  <2> QED BY <1>3, <2>1, <2>3
<1>10. CASE made = <<>>
  <2>1. Becomes(r, "persist", said, history[r], <<>>, <<>>)
    BY <1>2, <1>3, <1>4, <1>7, <1>10 DEF WireInv, HeldOf, Functions, Becomes
  <2>2. AtHand("persist", said, history[r], <<>>, <<>>)
    BY <1>7, <1>8 DEF AtHand
  <2> QED BY <1>9, <2>1, <2>2, BecomesKeeps
<1>11. CASE made # <<>>
  <2>1. Becomes(r, "tool", said, history[r], made, <<>>)
    BY <1>2, <1>3, <1>4, <1>7, <1>11 DEF WireInv, HeldOf, Functions, Becomes
  <2>2. Pending(said, <<>>, made)
    BY <1>3, <1>4, <1>5, <1>7, <1>11, PendingStarts
  <2>3. Len(<<>>) + Len(made) \in CallCounts
    <3>1. Len(made) \in Nat
      BY <1>5 DEF TurnOf, IsSequence
    <3>2. PICK none : none = Len(<<>>)
      OBVIOUS
    <3>3. none + Len(made) = Len(made)
      BY <3>1, <3>2, EmptyList
    <3> QED BY <1>5, <3>2, <3>3
  <2>4. AtHand("tool", said, history[r], made, <<>>)
    BY <1>7, <1>8, <2>2, <2>3 DEF AtHand
  <2> QED BY <1>9, <2>1, <2>4, BecomesKeeps
<1> QED BY <1>10, <1>11

LEMMA ExecuteToolWire == ASSUME WireInv, Functions, NEW r \in Runs, ExecuteTool(r) PROVE WireInv'
<1>1. PICK isError :
        LET blocks == Append(results[r], ToolResultBlock(Head(calls[r]).id, isError))
            rest == Tail(calls[r])
        IN  /\ calls' = [calls EXCEPT ![r] = rest]
            /\ IF rest # <<>>
               THEN results' = [results EXCEPT ![r] = blocks] /\ UNCHANGED <<pc, new>>
               ELSE /\ results' = [results EXCEPT ![r] = <<>>]
                    /\ new' = [new EXCEPT ![r] = Append(new[r], ChatMessage("tool", blocks))]
                    /\ pc' = [pc EXCEPT ![r] = "llm"]
  BY DEF ExecuteTool
<1>2. PICK blocks, rest, said :
        /\ blocks = Append(results[r], ToolResultBlock(Head(calls[r]).id, isError)) /\ rest = Tail(calls[r])
        /\ said = Append(new[r], ChatMessage("tool", blocks))
  OBVIOUS
<1>3. pc[r] = "tool" /\ provider' = provider /\ history' = history
  BY DEF ExecuteTool
<1>4. AtHand("tool", new[r], history[r], calls[r], results[r]) /\ (provider = "openai" => Faithful(new[r]))
  BY <1>3 DEF WireInv, WireLocal
<1>5. /\ Pending(new[r], results[r], calls[r]) /\ Len(results[r]) + Len(calls[r]) \in CallCounts
      /\ IsSequence(new[r]) /\ IsSequence(history[r]) /\ Len(history[r]) <= HistoryLimit
  BY <1>4 DEF AtHand
<1>6. CASE rest # <<>>
  <2>1. Becomes(r, "tool", new[r], history[r], rest, blocks)
    BY <1>1, <1>2, <1>3, <1>6 DEF WireInv, HeldOf, Functions, Becomes
  <2>2. Pending(new[r], blocks, rest)
    BY <1>2, <1>5, <1>6, PendingGoesOn
  <2>3. Len(blocks) + Len(rest) = Len(results[r]) + Len(calls[r])
    <3>1. IsSequence(results[r]) /\ IsSequence(calls[r]) /\ Len(calls[r]) > 0
      BY <1>5 DEF Pending, Split, Typed
    <3>2. Len(blocks) = Len(results[r]) + 1
      BY <1>2, <3>1, AppendAny
    <3>3. Len(rest) = Len(calls[r]) - 1
      BY <1>2, <3>1, TailOf
    <3>4. Len(results[r]) \in Nat /\ Len(calls[r]) \in Nat
      BY <3>1 DEF IsSequence
    <3>5. \A u, v \in Nat : (u + 1) + (v - 1) = u + v
      OBVIOUS
    <3> QED BY <3>2, <3>3, <3>4, <3>5, Zenon
  <2>4. AtHand("tool", new[r], history[r], rest, blocks)
    BY <1>5, <2>2, <2>3 DEF AtHand
  <2> QED BY <1>4, <2>1, <2>4, BecomesKeeps
<1>7. CASE rest = <<>>
  <2>1. Becomes(r, "llm", said, history[r], <<>>, <<>>)
    BY <1>1, <1>2, <1>3, <1>7 DEF WireInv, HeldOf, Functions, Becomes
  <2>2. Ready(said)
    BY <1>2, <1>5, <1>7, PendingEnds
  <2>3. AtHand("llm", said, history[r], <<>>, <<>>)
    BY <1>5, <2>2 DEF AtHand, Ready, Good, Messaged
  <2>4. provider = "openai" => Faithful(said)
    <3>1. PICK m : m = ChatMessage("tool", blocks)
      OBVIOUS
    <3>2. m.role # "assistant"
      BY <3>1 DEF ChatMessage
    <3>3. provider = "openai" => Faithful(Append(new[r], m))
      BY <1>4, <1>5, <3>2, FaithfulAppend
    <3> QED BY <1>2, <3>1, <3>3
  <2> QED BY <2>1, <2>3, <2>4, BecomesKeeps
<1> QED BY <1>6, <1>7

LEMMA WireInvAlways == Spec => []WireInv
<1>1. ASSUME Init PROVE WireInv
  <2>1. HeldOf
    BY <1>1 DEF Init, HeldOf
  <2>2. ASSUME NEW r \in Runs PROVE WireLocal(r)
    <3>1. pc[r] = "new" /\ new[r] = <<>> /\ history[r] = <<>> /\ calls[r] = <<>> /\ results[r] = <<>>
      BY <1>1 DEF Init
    <3>2. AtHand("ended", <<>>, <<>>, <<>>, <<>>)
      BY NothingSaid, EndedAtHand
    <3>3. AtHand("new", <<>>, <<>>, <<>>, <<>>)
      BY <3>2 DEF AtHand
    <3> QED BY <3>1, <3>3, NothingSaid DEF WireLocal
  <2> QED BY <2>1, <2>2 DEF WireInv
<1>2. ASSUME WireInv, ChatInv, RankInv, [Next]_vars PROVE WireInv'
  <2>1. Functions
    BY <1>2 DEF ChatInv
  <2>2. CASE UNCHANGED vars
    BY <1>2, <2>2 DEF WireInv, HeldOf, WireLocal, vars, runVars
  <2>3. ASSUME NEW r \in Runs, Authenticate(r) \/ Progress(r) \/ Disconnect(r) PROVE WireInv'
    <3>1. CASE Authenticate(r) \/ Prepare(r) \/ ModelAnswers(r) \/ ExecuteTool(r)
      BY <1>2, <2>1, <3>1, AuthenticateWire, PrepareWire, ModelAnswersWire, ExecuteToolWire
    <3>2. CASE ModelFails(r) \/ GiveUp(r) \/ PersistFails(r) \/ Disconnect(r)
      BY <1>2, <2>1, <3>2, AbandonedWire DEF ModelFails, GiveUp, PersistFails, Disconnect
    <3>3. CASE Persist(r) \/ PersistUnheard(r)
      BY <1>2, <2>1, <3>3, StoredWire DEF Persist, PersistUnheard
    <3> QED BY <2>3, <3>1, <3>2, <3>3 DEF Progress
  <2> QED BY <1>2, <2>2, <2>3 DEF Next
<1> QED BY <1>1, <1>2, ChatInvAlways, RankInvAlways, PTL DEF Spec

-----------------------------------------------------------------------------
(* The rest of the types.                                                  *)

Shaped ==
    /\ provider \in Providers
    /\ owner \in [Runs -> Users \cup {None}]
    /\ pc \in [Runs -> {"new", "prepare", "llm", "tool", "persist", "ended"}]
    /\ user \in [Runs -> Users \cup {None}]
    /\ conv \in [Runs -> Runs \cup {None}]
    /\ aborted \in [Runs -> BOOLEAN]
    /\ answer \in [Runs -> {None, 1} \cup Statuses]
    /\ cause \in [Runs -> SdkErrors \cup {"none"}]

LEMMA StatusesUsed == {200, 404, 429, 500, 502, 504} \subseteq Statuses
<1>1. {"NotFoundError", "LLMRateLimitError", "LLMError", "LLMTimeoutError"} \subseteq DOMAIN Handlers
  BY DEF Handlers
<1>2. /\ Handlers["NotFoundError"] = 404 /\ Handlers["LLMRateLimitError"] = 429
      /\ Handlers["LLMError"] = 502 /\ Handlers["LLMTimeoutError"] = 504
  BY DEF Handlers
<1> QED BY <1>1, <1>2 DEF Statuses

LEMMA EndTyped ==
    ASSUME Shaped, NEW r \in Runs, NEW status \in {None, 1} \cup Statuses, End(r, status)
    PROVE  /\ pc' \in [Runs -> {"new", "prepare", "llm", "tool", "persist", "ended"}]
           /\ aborted' \in [Runs -> BOOLEAN] /\ answer' \in [Runs -> {None, 1} \cup Statuses]
BY DEF Shaped, End

LEMMA AbandonTyped ==
    ASSUME Shaped, NEW r \in Runs, NEW status \in {None, 1} \cup Statuses, Abandon(r, status),
           UNCHANGED <<provider, user>>, cause' = cause \/ \E e \in SdkErrors : cause' = [cause EXCEPT ![r] = e]
    PROVE  Shaped'
<1>1. conv' \in [Runs -> Runs \cup {None}] /\ owner' = owner
  BY DEF Shaped, Abandon, dbVars
<1>2. cause' \in [Runs -> SdkErrors \cup {"none"}]
  BY DEF Shaped
<1>3. End(r, status)
  BY DEF Abandon
<1> QED BY <1>1, <1>2, <1>3, EndTyped DEF Shaped

LEMMA TypedStep ==
    ASSUME Shaped, ChatInv, NEW r \in Runs, Authenticate(r) \/ Progress(r) \/ Disconnect(r)
    PROVE  Shaped'
<1>1. CASE Authenticate(r)
  BY <1>1 DEF Authenticate, Shaped, dbVars
<1>2. CASE Prepare(r)
  <2>1. CASE Abandon(r, Status("NotFoundError"))
    <3>1. Status("NotFoundError") \in {None, 1} \cup Statuses
      BY Statuses5, StatusesUsed
    <3>2. UNCHANGED <<provider, user>> /\ cause' = cause
      BY <1>2 DEF Prepare
    <3> QED BY <2>1, <3>1, <3>2, AbandonTyped
  <2>2. CASE /\ pc' = [pc EXCEPT ![r] = "llm"] /\ owner' = owner /\ aborted' = aborted /\ answer' = answer
             /\ conv' = [conv EXCEPT ![r] = r] \/ conv' = conv
    BY <1>2, <2>2 DEF Prepare, Shaped
  <2> QED BY <1>2, <2>1, <2>2 DEF Prepare, dbVars
<1>3. CASE ModelAnswers(r)
  <2>1. \E at \in {"persist", "tool"} : pc' = [pc EXCEPT ![r] = at]
    BY <1>3 DEF ModelAnswers
  <2>2. UNCHANGED <<provider, owner, user, conv, aborted, answer, cause>>
    BY <1>3 DEF ModelAnswers, dbVars
  <2> QED BY <2>1, <2>2 DEF Shaped
<1>4. CASE ExecuteTool(r)
  <2>1. pc' = pc \/ pc' = [pc EXCEPT ![r] = "llm"]
    BY <1>4 DEF ExecuteTool
  <2>2. aborted' = aborted \/ aborted' = [aborted EXCEPT ![r] = TRUE]
    BY <1>4 DEF ExecuteTool
  <2>3. UNCHANGED <<provider, owner, user, conv, answer, cause>>
    BY <1>4 DEF ExecuteTool, dbVars
  <2> QED BY <2>1, <2>2, <2>3 DEF Shaped
<1>5. CASE ModelFails(r)
  <2>1. PICK e \in SdkErrors : cause' = [cause EXCEPT ![r] = e] /\ Abandon(r, Status(TranslateError(e)))
    BY <1>5 DEF ModelFails
  <2>2. Status(TranslateError(e)) \in {None, 1} \cup Statuses
    <3>1. Status(TranslateError(e)) \in {429, 500, 502, 504}
      BY FailureValues
    <3> QED BY <3>1, StatusesUsed
  <2>3. UNCHANGED <<provider, user>>
    BY <1>5 DEF ModelFails
  <2> QED BY <2>1, <2>2, <2>3, AbandonTyped
<1>6. CASE GiveUp(r)
  <2>1. Status("AgentLoopError") \in {None, 1} \cup Statuses
    BY Statuses5, StatusesUsed
  <2> QED BY <1>6, <2>1, AbandonTyped DEF GiveUp
<1>7. CASE PersistFails(r) \/ Disconnect(r)
  <2>1. {1, 500} \subseteq {None, 1} \cup Statuses
    BY StatusesUsed
  <2> QED BY <1>7, <2>1, AbandonTyped DEF PersistFails, Disconnect
<1>8. CASE Persist(r) \/ PersistUnheard(r)
  <2>1. PICK status \in {200, 500, 1} : End(r, status)
    BY <1>8 DEF Persist, PersistUnheard
  <2>2. status \in {None, 1} \cup Statuses
    BY StatusesUsed
  <2>3. pc[r] = "persist" /\ owner' = [owner EXCEPT ![conv[r]] = user[r]] /\ UNCHANGED <<provider, user, conv, cause>>
    BY <1>8 DEF Persist, PersistUnheard, Store
  <2>4. user[r] \in Users /\ conv[r] \in Runs
    BY <2>3, UnderWayIncomplete DEF UnderWay
  <2>5. owner' \in [Runs -> Users \cup {None}]
    BY <2>3, <2>4 DEF Shaped
  <2> QED BY <2>1, <2>2, <2>3, <2>5, EndTyped DEF Shaped
<1> QED BY <1>1, <1>2, <1>3, <1>4, <1>5, <1>6, <1>7, <1>8 DEF Progress

LEMMA TypedAlways == Spec => []Shaped
<1>1. Init => Shaped
  BY DEF Init, Shaped
<1>2. ASSUME Shaped, ChatInv, [Next]_vars PROVE Shaped'
  <2>1. CASE UNCHANGED vars
    BY <1>2, <2>1 DEF Shaped, vars, dbVars, runVars
  <2> QED BY <1>2, <2>1, TypedStep DEF Next
<1> QED BY <1>1, <1>2, ChatInvAlways, PTL DEF Spec

\* A run's rows are numbered within its bound.
RowsBounded == rows \subseteq Runs \X (1..2 * MaxIterations)

LEMMA RowsBoundedAlways == Spec => []RowsBounded
<1>1. Init => RowsBounded
  BY DEF Init, RowsBounded
<1>2. ASSUME RowsBounded, WireInv, [Next]_vars PROVE RowsBounded'
  <2>1. ASSUME NEW r \in Runs, Persist(r) \/ PersistUnheard(r) PROVE RowsBounded'
    <3>1. pc[r] = "persist" /\ rows' = rows \cup {<<r, i>> : i \in DOMAIN new[r]}
      BY <2>1 DEF Persist, PersistUnheard, Store
    <3>2. IsSequence(new[r]) /\ Len(new[r]) <= 2 * MaxIterations
      BY <1>2, <3>1, SpokenFits DEF WireInv, WireLocal, AtHand
    <3>3. \A i \in DOMAIN new[r] : i \in 1..2 * MaxIterations
      <4>1. DOMAIN new[r] = 1..Len(new[r]) /\ Len(new[r]) \in Nat /\ 2 * MaxIterations \in Nat
        BY <3>2, SeqOfItems, ChatAssumption
      <4> QED BY <3>2, <4>1
    <3> QED BY <1>2, <3>1, <3>3 DEF RowsBounded
  <2>2. ASSUME NEW r \in Runs, Authenticate(r) \/ Progress(r) \/ Disconnect(r), ~Persist(r), ~PersistUnheard(r)
        PROVE  rows' = rows
    BY <2>2 DEF Progress, Authenticate, Prepare, ModelAnswers, ModelFails, GiveUp, ExecuteTool, PersistFails,
       Disconnect, Abandon, dbVars
  <2>3. UNCHANGED vars => rows' = rows
    BY DEF vars, dbVars
  <2> QED BY <1>2, <2>1, <2>2, <2>3 DEF Next, RowsBounded
<1> QED BY <1>1, <1>2, WireInvAlways, PTL DEF Spec

\* What a run has at hand is bounded.
LEMMA HandBounded ==
    ASSUME WireInv, Shaped, NEW r \in Runs
    PROVE  /\ Len(history[r]) <= HistoryLimit
           /\ Len(new[r]) <= 2 * MaxIterations + 1
           /\ Len(results[r]) + Len(calls[r]) \in {0} \cup CallCounts
<1>1. AtHand(pc[r], new[r], history[r], calls[r], results[r])
  BY DEF WireInv, WireLocal
<1>2. Len(new[r]) <= 2 * MaxIterations + 1
  <2>1. CASE Ready(new[r])
    <3>1. Assistants(new[r]) \in Nat /\ Assistants(new[r]) <= MaxIterations /\ MaxIterations \in Nat
      BY <2>1, ChatAssumption DEF Ready
    <3> QED BY <2>1, <3>1 DEF Ready
  <2>2. CASE Spoken(new[r]) \/ Len(new[r]) <= 2 * MaxIterations
    <3>1. IsSequence(new[r]) /\ Len(new[r]) <= 2 * MaxIterations
      BY <1>1, <2>2, SpokenFits DEF AtHand
    <3>2. Len(new[r]) \in Nat /\ MaxIterations \in Nat
      BY <3>1, ChatAssumption DEF IsSequence
    <3> QED BY <3>1, <3>2
  <2>3. Ready(new[r]) \/ Spoken(new[r]) \/ Len(new[r]) <= 2 * MaxIterations
    <3>1. pc[r] \in {"prepare", "llm", "tool", "persist", "new", "ended"}
      BY DEF Shaped
    <3> QED BY <1>1, <3>1 DEF AtHand, Pending
  <2> QED BY <2>1, <2>2, <2>3
<1>3. Len(results[r]) + Len(calls[r]) \in {0} \cup CallCounts
  <2>1. CASE pc[r] = "tool"
    BY <1>1, <2>1 DEF AtHand
  <2>2. CASE pc[r] # "tool"
    <3>1. Len(results[r]) = 0 /\ Len(calls[r]) = 0
      BY <1>1, <2>2, EmptyList DEF AtHand
    <3> QED BY <3>1
  <2> QED BY <2>1, <2>2
<1> QED BY <1>1, <1>2, <1>3 DEF AtHand

\* Turns of text alone are replayed.
LEMMA ReplayedGood ==
    ASSUME NEW h, IsSequence(h)
    PROVE  Good([k \in DOMAIN h |-> Turn(h[k][1], h[k][2])])
<1>1. PICK turns : turns = [k \in DOMAIN h |-> Turn(h[k][1], h[k][2])]
  OBVIOUS
<1>2. DOMAIN h = 1..Len(h) /\ Len(h) \in Nat
  BY SeqOfItems
<1>3. turns = [k \in 1..Len(h) |-> turns[k]]
  BY <1>1, <1>2
<1>4. IsSequence(turns) /\ Len(turns) = Len(h)
  BY <1>2, <1>3, MadeSeq
<1>5. ASSUME NEW k \in 1..Len(turns) PROVE Plain(turns[k].content)
  <2>1. PICK text : turns[k] = ChatMessage(new[h[k][1]][h[k][2]].role, <<TextBlock(text)>>)
    BY <1>1, <1>2, <1>4 DEF Turn
  <2>2. turns[k].content = <<TextBlock(text)>>
    BY <2>1 DEF ChatMessage
  <2> QED BY <2>2, TextPlain
<1>6. Good(turns)
  BY <1>4, <1>5, PlainGood
<1> QED BY <1>1, <1>6

-----------------------------------------------------------------------------
(* The theorems.                                                           *)

LEMMA RowsAllOrNone ==
    ASSUME ChatInv, NEW r \in Runs
    PROVE  /\ Complete(r) => RowsOfRun(r) = DOMAIN new[r] /\ 1 \in DOMAIN new[r]
           /\ Unstored(r) => RowsOfRun(r) = {}
           /\ Complete(r) \/ Unstored(r)
           /\ pc[r] = "ended" /\ answer[r] = 200 => Complete(r)
<1>1. Complete(r) => RowsOfRun(r) = DOMAIN new[r]
  BY DEF Complete, RowsOfRun
<1>2. Complete(r) => 1 \in DOMAIN new[r]
  BY DEF Complete, Final, Opened, IsSequence
<1>3. Unstored(r) => RowsOfRun(r) = {}
  BY DEF Unstored, RowsOfRun
<1>4. Local(r)
  BY DEF ChatInv
<1>5. QED
  BY <1>1, <1>2, <1>3, <1>4 DEF Local, UnderWay, Ended

\* "then a final done event (after the run has been persisted)"
\* (chat_service.py): an exchange is stored whole or not at all, in a
\* conversation of its own user, however requests overlap and whatever fails;
\* 200 means that it is stored.
THEOREM ExchangesStayWhole == Spec => []ExchangeAtomic
<1>1. ASSUME ChatInv PROVE ExchangeAtomic
  <2>1. ASSUME NEW r \in Runs
        PROVE  /\ RowsOfRun(r) \in {{}, DOMAIN new[r]}
               /\ pc[r] = "ended" /\ answer[r] = 200 => RowsOfRun(r) = DOMAIN new[r] /\ new[r] # <<>>
               /\ answer[r] \notin {200, 500, 1} => RowsOfRun(r) = {}
    BY <1>1, RowsAllOrNone DEF Complete
  <2>2. ASSUME NEW r \in Runs, RowsOfRun(r) # {}
        PROVE  /\ owner[conv[r]] = user[r]
               /\ new[r][1].role = "user"
               /\ Last(new[r]).role = "assistant" /\ ~HasCalls(Last(new[r]))
    BY <1>1, <2>2, RowsAllOrNone DEF Complete, Final, Opened
  <2>3. ASSUME NEW c \in Runs, owner[c] # None PROVE StoredRuns(c) # {}
    <3>1. PICK r \in Runs : conv[r] = c /\ Complete(r)
      BY <1>1, <2>3 DEF ChatInv, NoneEmpty
    <3>2. 1 \in DOMAIN new[r] /\ <<r, 1>> \in rows
      BY <1>1, <3>1, RowsAllOrNone DEF Complete
    <3>3. r \in StoredRuns(c)
      BY <3>1, <3>2 DEF StoredRuns
    <3>4. QED
      BY <3>3
  <2>4. QED
    BY <2>1, <2>2, <2>3 DEF ExchangeAtomic
<1>2. QED
  BY <1>1, ChatInvAlways, PTL

\* "rate limit 429, timeout 504, other provider errors 502": the status a
\* request that the provider failed answers is that of the failure.
THEOREM FailuresKeepStatus == Spec => []FailureStatus
<1>1. ASSUME ChatInv PROVE FailureStatus
  <2> SUFFICES ASSUME NEW r \in Runs, cause[r] \notin {"none", "AuthenticationError", "ValueError"}
               PROVE  answer[r] = CASE cause[r] = "RateLimitError" -> 429
                                    [] cause[r] = "APITimeoutError" -> 504 [] OTHER -> 502
    BY DEF FailureStatus
  <2>1. Ended(r)
    BY <1>1 DEF ChatInv, Local, UnderWay
  <2>2. cause[r] \in SdkErrors /\ answer[r] = Status(TranslateError(cause[r]))
    BY <2>1 DEF Ended
  <2>3. QED
    BY <2>2, FailureValues
<1>2. QED
  BY <1>1, ChatInvAlways, PTL

\* A run that has its history loads that of its own conversation.
LEMMA Loads ==
    ASSUME Functions, HistoryOf, [Next]_vars, NEW r \in Runs, pc[r] = "prepare", pc'[r] = "llm", conv[r] # None
    PROVE  owner[conv[r]] = user[r] /\ history'[r] = History(conv[r])
<1>1. PICK p \in Runs : Authenticate(p) \/ Progress(p) \/ Disconnect(p)
  BY DEF Next, vars, runVars
<1>2. \A q \in Runs : \A status : End(q, status) => pc' = [pc EXCEPT ![q] = "ended"]
  BY DEF End
<1>3. \A q \in Runs : \A status : Abandon(q, status) => pc' = [pc EXCEPT ![q] = "ended"]
  BY <1>2 DEF Abandon
<1>4. p = r
  <2>1. \/ \E x : pc' = [pc EXCEPT ![p] = x]
        \/ pc' = pc
    BY <1>1, <1>2, <1>3, ZenonT(40) DEF Progress, Authenticate, Prepare, ModelAnswers, ModelFails, GiveUp, ExecuteTool,
       Persist, PersistUnheard, PersistFails, Disconnect
  <2> QED BY <2>1 DEF Functions
<1>5. ~Authenticate(r) /\ ~ModelAnswers(r) /\ ~ModelFails(r) /\ ~GiveUp(r) /\ ~ExecuteTool(r) /\ ~Persist(r)
      /\ ~PersistUnheard(r) /\ ~PersistFails(r)
  BY DEF Authenticate, ModelAnswers, ModelFails, GiveUp, ExecuteTool, Persist, PersistUnheard, PersistFails
<1>6. \A status : ~Abandon(r, status)
  BY <1>3 DEF Functions
<1>7. Prepare(r)
  BY <1>1, <1>4, <1>5, <1>6 DEF Progress, Disconnect
<1>8. GetForUser(conv[r], user[r]) /\ history' = [history EXCEPT ![r] = History(conv[r])]
  BY <1>6, <1>7 DEF Prepare
<1> QED BY <1>8 DEF GetForUser, HistoryOf

\* "follow-up in the same conversation sees prior context", and "one user can
\* never load another's conversation": whatever overlaps, a request that loads
\* its history replays every exchange of the conversation that is answered, in
\* the order of the requests and up to the limit, all of them its user's own
\* (ChatService._history, ConversationRepository.list_messages).
THEOREM FollowUpsSeeAnswers == Spec => FollowUpSeesAnswered
<1> DEFINE Sees(r, replayed) ==
             /\ \A k \in DOMAIN replayed : user[replayed[k][1]] = user[r] /\ conv[replayed[k][1]] = conv[r]
             /\ \A j, k \in DOMAIN replayed : j < k => replayed[j][1] <= replayed[k][1]
             /\ \A done \in Runs : answer[done] = 200 /\ conv[done] = conv[r] =>
                  \A i \in {i \in DOMAIN new[done] : Replayed(done, i)} :
                    \/ <<done, i>> \in ToSet(replayed)
                    \/ /\ Len(replayed) = HistoryLimit
                       /\ \A k \in DOMAIN replayed : replayed[k][1] >= done
<1>1. ASSUME ChatInv, RankInv, HistoryOf, [Next]_vars,
             NEW r \in Runs, pc[r] = "prepare", pc'[r] = "llm", conv[r] # None
      PROVE  Sees(r, history'[r])
  <2>1. owner[conv[r]] = user[r] /\ history'[r] = History(conv[r])
    BY <1>1, Loads DEF ChatInv
  <2> DEFINE c == conv[r]
             h == history'[r]
  <2>2. /\ \A k \in DOMAIN h : h[k][1] \in StoredRuns(c)
        /\ \A j, k \in DOMAIN h : j < k => h[j][1] <= h[k][1]
        /\ \A q \in StoredRuns(c) : \A m \in DOMAIN rank[q] :
             \/ \E k \in DOMAIN h : h[k] = <<q, rank[q][m]>>
             \/ Len(h) = HistoryLimit /\ \A k \in DOMAIN h : h[k][1] >= q
    BY <1>1, <2>1, ReplayedRows
  <2>3. ASSUME NEW q \in StoredRuns(c) PROVE q \in Runs /\ conv[q] = c /\ user[q] = user[r]
    <3>1. q \in Runs /\ conv[q] = c /\ ~Unstored(q)
      BY DEF StoredRuns, Unstored
    <3>2. Complete(q)
      BY <1>1, <3>1, RowsAllOrNone
    <3> QED BY <2>1, <3>1, <3>2 DEF Complete
  <2> HIDE DEF h
  <2>4. ASSUME NEW done \in Runs, answer[done] = 200, conv[done] = c,
               NEW i \in DOMAIN new[done], Replayed(done, i)
        PROVE  \/ <<done, i>> \in ToSet(h)
               \/ Len(h) = HistoryLimit /\ \A k \in DOMAIN h : h[k][1] >= done
    <3>1. Complete(done)
      BY <1>1, <2>4 DEF ChatInv, Local, UnderWay, Ended, None
    <3>2. done \in StoredRuns(c)
      BY <2>4, <3>1 DEF StoredRuns, Complete
    <3>3. PICK m \in DOMAIN rank[done] : rank[done][m] = i
      BY <1>1, <2>4, <3>1 DEF RankInv, Ranked, Placed
    <3>4. \/ \E k \in DOMAIN h : h[k] = <<done, i>>
          \/ Len(h) = HistoryLimit /\ \A k \in DOMAIN h : h[k][1] >= done
      BY <2>2, <3>2, <3>3
    <3> QED BY <3>4 DEF ToSet
  <2> QED BY <2>2, <2>3, <2>4 DEF h
<1>2. ChatInv /\ RankInv /\ HistoryOf /\ [Next]_vars =>
        [\A r \in Runs : pc[r] = "prepare" /\ pc'[r] = "llm" /\ conv[r] # None => Sees(r, history'[r])]_vars
  <2> HIDE DEF Sees
  <2> QED BY <1>1
<1> QED BY <1>2, ChatInvAlways, RankInvAlways, HistoryOfAlways, PTL DEF Spec, FollowUpSeesAnswered

\* Whatever is replayed, and whatever the model has asked for and the tools have
\* returned in every round, the calls of the request to Anthropic, and those of
\* the one to OpenAI, come in rounds, each at once followed by its results, one
\* for one and in order (Agent.run, _to_params, _to_wire_messages); and what a
\* run holds is typed and bounded.
THEOREM WireStaysWellFormed == Spec => []WireWellFormed
<1>1. ASSUME WireInv, Shaped, RowsBounded PROVE WireWellFormed
  <2>1. TypeOK
    <3>1. \A r \in Runs : /\ Len(history[r]) <= HistoryLimit
                          /\ Len(new[r]) <= 2 * MaxIterations + 1
                          /\ Len(results[r]) + Len(calls[r]) \in {0} \cup {Len(a.calls) : a \in Answers}
      BY <1>1, HandBounded DEF CallCounts
    <3> QED BY <1>1, <3>1 DEF TypeOK, Shaped, RowsBounded
  <2>2. ASSUME NEW r \in Runs, pc[r] = "llm"
        PROVE  LET params == ToParams(Messages(r)) wire == ToWireMessages(Messages(r))
               IN  /\ Paired(FlattenSeq([i \in DOMAIN params |-> ParamMarks(params[i])]))
                   /\ Paired(FlattenSeq([i \in DOMAIN wire |-> WireMarks(wire[i])]))
    <3>1. IsSequence(history[r]) /\ Good(new[r])
      BY <1>1, <2>2 DEF WireInv, WireLocal, AtHand, Ready
    <3>2. Good([k \in DOMAIN history[r] |-> Turn(history[r][k][1], history[r][k][2])])
      BY <3>1, ReplayedGood
    <3>3. Good(Messages(r))
      BY <3>1, <3>2, GoodJoined DEF Messages
    <3> QED BY <3>3, GoodWires
  <2> QED BY <2>1, <2>2 DEF WireWellFormed
<1> QED BY <1>1, WireInvAlways, TypedAlways, RowsBoundedAlways, PTL

\* "tool calls stream as fragments to accumulate" (openai_client.py:218): however
\* OpenAI fragments an answer and interleaves its calls, the turn that the agent
\* appends is that of the whole answer (OpenAIClient.stream, Agent.run).
THEOREM StreamsAreWhole == Spec => []StreamEqualsWhole
<1>1. ASSUME WireInv PROVE StreamEqualsWhole
  <2>1. ASSUME NEW r \in Runs, provider = "openai", NEW m \in ToSet(new[r]), m.role = "assistant"
        PROVE  \E a \in Answers : m.content = OpenAIResponse(a).content
    <3>1. IsSequence(new[r]) /\ Faithful(new[r])
      BY <1>1, <2>1 DEF WireInv, WireLocal, AtHand
    <3>2. DOMAIN new[r] = 1..Len(new[r])
      BY <3>1, SeqOfItems
    <3>3. PICK i \in 1..Len(new[r]) : m = new[r][i]
      BY <2>1, <3>2 DEF ToSet
    <3> QED BY <2>1, <3>1, <3>3 DEF Faithful
  <2> QED BY <2>1 DEF StreamEqualsWhole
<1> QED BY <1>1, WireInvAlways, PTL

=============================================================================
