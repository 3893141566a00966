-------------------------------- MODULE Chat --------------------------------
(***************************************************************************)
(* ChatService and FinanceAgent behind /ai/chat and /ai/chat/stream: a     *)
(* request loads or creates its conversation, replays the stored turns to  *)
(* the model, runs the tool loop, and stores the whole exchange in one     *)
(* commit before it answers.  Requests overlap, the provider and the       *)
(* database fail, clients disconnect.                                      *)
(*                                                                         *)
(* Run r is the r-th request to open its transaction: its rows all get     *)
(* that created_at, and a random id each.  A new conversation gets the     *)
(* number of the run that creates it.  A status of 400 and more also       *)
(* stands for the `error` event of a stream, 200 for its `done` event.     *)
(***************************************************************************)
EXTENDS LLMClients, ApiErrors

CONSTANTS
    Users,
    Questions,       \* texts a user can send
    Answers,         \* what the provider can answer
    Tools,           \* names of the finance tools
    InvalidArgs,     \* argument objects that fail validation
    Providers,       \* values of settings.llm_provider in use
    MaxIterations,   \* rounds of the loop, 8 in the code
    HistoryLimit,    \* _HISTORY_LIMIT
    MaxRuns          \* bound: requests

\* A sequence, of whatever items.
IsSequence(s) == Len(s) \in Nat /\ s = [i \in 1..Len(s) |-> s[i]]

ASSUME ChatAssumption ==
    /\ MaxIterations \in Nat \ {0}
    /\ HistoryLimit \in Nat \ {0}
    /\ MaxRuns \in Nat \ {0}
    /\ 0 \notin Users
    /\ Providers \subseteq {"anthropic", "openai"}
    /\ \A a \in Answers : IsSequence(a.text) /\ IsSequence(a.calls) /\ \A i \in DOMAIN a.calls :
         LET c == a.calls[i]
         IN  c = [id |-> c.id, name |-> c.name, args |-> c.args] /\ IsSequence(c.name) /\ IsSequence(c.args)

Runs == 1..MaxRuns
None == 0

VARIABLES
    provider,  \* settings.llm_provider
    owner,     \* conversations: user of each committed row, None
    rows,      \* messages: <<r, i>> for the i-th message of run r
    rank,      \* order of the ids of a run's stored messages
    pc, user,
    conv,      \* conversation asked for, then used; None: a new one
    history,   \* stored turns replayed to the model
    new,       \* new_messages of the run
    calls,     \* tool calls of the last turn not yet executed
    results,   \* result blocks of that turn
    aborted,   \* a statement failed: the database takes no more of this transaction
    answer,    \* HTTP status; None: none yet; 1: the client is gone
    cause      \* history: the SDK exception that ended the run

dbVars == <<owner, rows, rank>>
runVars == <<pc, user, conv, history, new, calls, results, aborted, answer, cause>>
vars == <<provider, dbVars, runVars>>

TypeOK ==
    /\ provider \in Providers
    /\ owner \in [Runs -> Users \cup {None}]
    /\ rows \subseteq Runs \X (1..2 * MaxIterations)
    /\ pc \in [Runs -> {"new", "prepare", "llm", "tool", "persist", "ended"}]
    /\ user \in [Runs -> Users \cup {None}]
    /\ conv \in [Runs -> Runs \cup {None}]
    /\ \A r \in Runs : /\ Len(history[r]) <= HistoryLimit
                       /\ Len(new[r]) <= 2 * MaxIterations + 1
                       /\ Len(results[r]) + Len(calls[r]) \in {0} \cup {Len(a.calls) : a \in Answers}
    /\ aborted \in [Runs -> BOOLEAN]
    /\ answer \in [Runs -> {None, 1} \cup Statuses]
    /\ cause \in [Runs -> SdkErrors \cup {"none"}]

-----------------------------------------------------------------------------
(* Stored messages and what is replayed of them                            *)

StoredRuns(c) == {r \in Runs : conv[r] = c /\ \E i \in DOMAIN new[r] : <<r, i>> \in rows}

\* A stored message is replayed as its text, tool turns and blank texts not.
Replayed(r, i) == new[r][i].role # "tool" /\ Visible(JoinedText(new[r][i]))
Turn(r, i) == ChatMessage(new[r][i].role, <<TextBlock(JoinedText(new[r][i]))>>)

\* Mutant: the runs come newest first.
ListMessagesNewestFirst(c) ==
    LET listed[n \in 0..MaxRuns] ==
            IF n = 0 THEN <<>>
            ELSE IF n \in StoredRuns(c) THEN [k \in DOMAIN rank[n] |-> <<n, rank[n][k]>>] \o listed[n - 1]
            ELSE listed[n - 1]
    IN  listed[MaxRuns]

\* ORDER BY created_at, id.  Ids matter for the replayed rows only.
ListMessages(c) ==
    LET listed[n \in 0..MaxRuns] ==
            IF n = 0 THEN <<>>
            ELSE IF n \in StoredRuns(c) THEN listed[n - 1] \o [k \in DOMAIN rank[n] |-> <<n, rank[n][k]>>]
            ELSE listed[n - 1]
    IN  listed[MaxRuns]

\* history[-_HISTORY_LIMIT:], as rows.
History(c) ==
    LET turns == ListMessages(c)
        first == IF Len(turns) > HistoryLimit THEN Len(turns) - HistoryLimit + 1 ELSE 1
    IN  SubSeq(turns, first, Len(turns))

\* What the next call to the model carries.
Messages(r) == [k \in DOMAIN history[r] |-> Turn(history[r][k][1], history[r][k][2])] \o new[r]

-----------------------------------------------------------------------------
(* A request                                                               *)

\* The request ends with an answer, or a client that is gone; of what it held
\* only the messages it has stored remain.
End(r, status) ==
    /\ pc' = [pc EXCEPT ![r] = "ended"]
    /\ answer' = [answer EXCEPT ![r] = status]
    /\ history' = [history EXCEPT ![r] = <<>>]
    /\ calls' = [calls EXCEPT ![r] = <<>>]
    /\ results' = [results EXCEPT ![r] = <<>>]
    /\ aborted' = [aborted EXCEPT ![r] = FALSE]

Abandon(r, status) ==
    /\ End(r, status)
    /\ new' = [new EXCEPT ![r] = <<>>]
    /\ conv' = [conv EXCEPT ![r] = None]
    /\ UNCHANGED dbVars

\* get_current_user is the first statement of the transaction.
Authenticate(r) ==
    /\ pc[r] = "new"
    /\ \A earlier \in Runs : earlier < r => pc[earlier] # "new"
    /\ \E u \in Users, c \in Runs \cup {None}, question \in Questions :
         /\ user' = [user EXCEPT ![r] = u]
         /\ conv' = [conv EXCEPT ![r] = c]
         /\ new' = [new EXCEPT ![r] = <<ChatMessage("user", <<TextBlock(question)>>)>>]
    /\ pc' = [pc EXCEPT ![r] = "prepare"]
    /\ UNCHANGED <<provider, dbVars, history, calls, results, aborted, answer, cause>>

\* get_for_user: "ownership is part of the lookup".
GetForUser(c, u) == owner[c] = u

\* _prepare: a new conversation (flushed, not committed), or an existing one
\* of the user with its history.
Prepare(r) ==
    /\ pc[r] = "prepare"
    /\ \/ /\ conv[r] = None
          /\ conv' = [conv EXCEPT ![r] = r]
          /\ pc' = [pc EXCEPT ![r] = "llm"]
          /\ UNCHANGED <<dbVars, history, new, calls, results, aborted, answer>>
       \/ /\ conv[r] # None
          /\ GetForUser(conv[r], user[r])
          /\ history' = [history EXCEPT ![r] = History(conv[r])]
          /\ pc' = [pc EXCEPT ![r] = "llm"]
          /\ UNCHANGED <<dbVars, conv, new, calls, results, aborted, answer>>
       \/ /\ conv[r] # None
          /\ ~GetForUser(conv[r], user[r])
          /\ Abandon(r, Status("NotFoundError"))
    /\ UNCHANGED <<provider, user, cause>>

-----------------------------------------------------------------------------
(* The agent's loop                                                        *)

Iterations(r) == Cardinality({i \in DOMAIN new[r] : new[r][i].role = "assistant"})

\* The responses an answer can become, whole or streamed.
Responses ==
    [anthropic |-> [a \in Answers |-> {AnthropicResponse(a)}],
     openai |-> [a \in Answers |-> {OpenAIResponse(a)} \cup {Accumulated(s, a.stop) : s \in Streams(a)}]]

\* One round: the model's turn is appended.  Without tool calls it is final.
ModelAnswers(r) ==
    /\ pc[r] = "llm"
    /\ Iterations(r) < MaxIterations
    /\ \E a \in Answers : \E response \in Responses[provider][a] :
         /\ new' = [new EXCEPT ![r] = Append(@, ChatMessage("assistant", response.content))]
         /\ calls' = [calls EXCEPT ![r] = response.tool_calls]
         /\ pc' = [pc EXCEPT ![r] = IF response.tool_calls = <<>> THEN "persist" ELSE "tool"]
    /\ UNCHANGED <<provider, dbVars, user, conv, history, results, aborted, answer, cause>>

\* The call fails; so does a stream, after any number of tokens.
ModelFails(r) ==
    /\ pc[r] = "llm"
    /\ Iterations(r) < MaxIterations
    /\ \E e \in SdkErrors :
         /\ cause' = [cause EXCEPT ![r] = e]
         /\ Abandon(r, Status(TranslateError(e)))
    /\ UNCHANGED <<provider, user>>

\* AgentLoopError.
GiveUp(r) ==
    /\ pc[r] = "llm"
    /\ Iterations(r) = MaxIterations
    /\ Abandon(r, Status("AgentLoopError"))
    /\ UNCHANGED <<provider, user, cause>>

\* ToolRegistry.execute: the results a call can have, is_error or not.
\* Unknown tools and invalid arguments are rejected before any statement.
Outcomes(r, call) ==
    IF Head(call.name) \in Tools /\ call.args \notin InvalidArgs /\ ~aborted[r]
    THEN {TRUE, FALSE} ELSE {TRUE}

\* Mutant: a failed call raises out of the turn's results.
ExecuteToolDropsErrors(r) ==
    /\ pc[r] = "tool"
    /\ LET call == Head(calls[r]) rest == Tail(calls[r])
       IN  \E isError \in Outcomes(r, call) :
             LET blocks == IF isError THEN results[r] ELSE Append(results[r], ToolResultBlock(call.id, isError))
             IN  /\ calls' = [calls EXCEPT ![r] = rest]
                 /\ aborted' = aborted
                 /\ IF rest # <<>>
                    THEN results' = [results EXCEPT ![r] = blocks] /\ UNCHANGED <<pc, new>>
                    ELSE /\ results' = [results EXCEPT ![r] = <<>>]
                         /\ new' = [new EXCEPT ![r] = Append(@, ChatMessage("tool", blocks))]
                         /\ pc' = [pc EXCEPT ![r] = "llm"]
    /\ UNCHANGED <<provider, dbVars, user, conv, history, answer, cause>>

\* Mutant: a failed call is tried again.
ExecuteToolRetries(r) ==
    /\ pc[r] = "tool"
    /\ LET call == Head(calls[r]) rest == Tail(calls[r])
       IN  \E isError \in Outcomes(r, call) :
             /\ ~isError
             /\ calls' = [calls EXCEPT ![r] = rest]
             /\ pc' = [pc EXCEPT ![r] = IF rest = <<>> THEN "llm" ELSE "tool"]
    /\ UNCHANGED <<provider, dbVars, user, conv, history, new, results, aborted, answer, cause>>

\* One call is executed, an error being a result; "all results go back in
\* one message".  The tool may fail in the database, which from then on
\* refuses this session's statements.
ExecuteTool(r) ==
    /\ pc[r] = "tool"
    /\ LET call == Head(calls[r]) rest == Tail(calls[r])
       IN  \E isError \in Outcomes(r, call) :
             LET blocks == Append(results[r], ToolResultBlock(call.id, isError))
             IN  /\ calls' = [calls EXCEPT ![r] = rest]
                 /\ \/ UNCHANGED aborted
                    \/ isError /\ Outcomes(r, call) # {TRUE} /\ aborted' = [aborted EXCEPT ![r] = TRUE]
                 /\ IF rest # <<>>
                    THEN results' = [results EXCEPT ![r] = blocks] /\ UNCHANGED <<pc, new>>
                    ELSE /\ results' = [results EXCEPT ![r] = <<>>]
                         /\ new' = [new EXCEPT ![r] = Append(@, ChatMessage("tool", blocks))]
                         /\ pc' = [pc EXCEPT ![r] = "llm"]
    /\ UNCHANGED <<provider, dbVars, user, conv, history, answer, cause>>

-----------------------------------------------------------------------------
(* Persistence                                                             *)

\* Every new message, the conversation if it is new, in one commit; the
\* random ids put the messages in any order.
Store(r) ==
    /\ owner' = [owner EXCEPT ![conv[r]] = user[r]]
    /\ rows' = rows \cup {<<r, i>> : i \in DOMAIN new[r]}
    /\ \E order \in SetToSeqs({i \in DOMAIN new[r] : Replayed(r, i)}) : rank' = [rank EXCEPT ![r] = order]

\* Mutant: the answer goes out before the commit.
PersistAfterDone(r) ==
    /\ pc[r] = "persist"
    /\ End(r, 200)
    /\ UNCHANGED dbVars
    /\ UNCHANGED <<provider, user, conv, new, cause>>

\* _persist commits, then the answer or the done event goes out.
Persist(r) ==
    /\ pc[r] = "persist"
    /\ ~aborted[r]
    /\ Store(r)
    /\ End(r, 200)
    /\ UNCHANGED <<provider, user, conv, new, cause>>

\* The commit is done but nobody hears of it: the acknowledgement is lost, or
\* the client is.
PersistUnheard(r) ==
    /\ pc[r] = "persist"
    /\ ~aborted[r]
    /\ Store(r)
    /\ \E status \in {500, 1} : End(r, status)
    /\ UNCHANGED <<provider, user, conv, new, cause>>

\* The inserts or the commit fail and the session is rolled back.
PersistFails(r) ==
    /\ pc[r] = "persist"
    /\ Abandon(r, 500)
    /\ UNCHANGED <<provider, user, cause>>

\* The client closes the stream, which cancels the request, or the process
\* dies: rollback.
Disconnect(r) ==
    /\ pc[r] \notin {"new", "ended"}
    /\ Abandon(r, 1)
    /\ UNCHANGED <<provider, user, cause>>

-----------------------------------------------------------------------------

Init ==
    /\ provider \in Providers
    /\ owner = [r \in Runs |-> None]
    /\ rows = {}
    /\ rank = [r \in Runs |-> <<>>]
    /\ pc = [r \in Runs |-> "new"]
    /\ user = [r \in Runs |-> None]
    /\ conv = [r \in Runs |-> None]
    /\ history = [r \in Runs |-> <<>>]
    /\ new = [r \in Runs |-> <<>>]
    /\ calls = [r \in Runs |-> <<>>]
    /\ results = [r \in Runs |-> <<>>]
    /\ aborted = [r \in Runs |-> FALSE]
    /\ answer = [r \in Runs |-> None]
    /\ cause = [r \in Runs |-> "none"]

\* What the server does of its own accord once a request has come in.
Progress(r) ==
    \/ Prepare(r)
    \/ ModelAnswers(r)
    \/ ModelFails(r)
    \/ GiveUp(r)
    \/ ExecuteTool(r)
    \/ Persist(r)
    \/ PersistUnheard(r)
    \/ PersistFails(r)

Next == \E r \in Runs : Authenticate(r) \/ Progress(r) \/ Disconnect(r)

Spec == Init /\ [][Next]_vars

\* The event loop schedules every request, provider calls end (answer, error
\* or the client's timeout), and so do statements.
FairSpec == Spec /\ \A r \in Runs : WF_vars(Progress(r))

-----------------------------------------------------------------------------
(* Properties.                                                             *)

HasCalls(message) == \E i \in DOMAIN message.content : message.content[i].type = "tool_use"
RowsOfRun(r) == {i \in DOMAIN new[r] : <<r, i>> \in rows}

\* "then a final done event (after the run has been persisted)": whatever
\* fails or overlaps, an exchange is stored whole or not at all, in a
\* conversation of its own user; an answer of 200 has it stored, an error answer
\* has it not (unless the commit's acknowledgement was lost); what is stored
\* ends in a turn of the model that asks for no more tools, so that a run that
\* uses up its rounds leaves nothing; no conversation is without a message.
ExchangeAtomic ==
    /\ \A r \in Runs : /\ RowsOfRun(r) \in {{}, DOMAIN new[r]}
                       /\ pc[r] = "ended" /\ answer[r] = 200 => RowsOfRun(r) = DOMAIN new[r] /\ new[r] # <<>>
                       /\ answer[r] \notin {200, 500, 1} => RowsOfRun(r) = {}
    /\ \A r \in Runs : RowsOfRun(r) # {} =>
         /\ owner[conv[r]] = user[r]
         /\ new[r][1].role = "user"
         /\ Last(new[r]).role = "assistant" /\ ~HasCalls(Last(new[r]))
    /\ \A c \in Runs : owner[c] # None => StoredRuns(c) # {}

\* "follow-up in the same conversation sees prior context", and "one user can
\* never load another's conversation": what is answered when a request loads its
\* history is replayed, up to the limit, and what the limit leaves out is older
\* than what it keeps; exchanges of overlapping requests come one after the
\* other and not mixed up, and all of them are the user's own.
FollowUpSeesAnswered ==
    [][\A r \in Runs : pc[r] = "prepare" /\ pc'[r] = "llm" /\ conv[r] # None =>
         LET replayed == history'[r]
         IN  /\ \A k \in DOMAIN replayed : user[replayed[k][1]] = user[r] /\ conv[replayed[k][1]] = conv[r]
             /\ \A j, k \in DOMAIN replayed : j < k => replayed[j][1] <= replayed[k][1]
             /\ \A done \in Runs : answer[done] = 200 /\ conv[done] = conv[r] =>
                  \A i \in {i \in DOMAIN new[done] : Replayed(done, i)} :
                    \/ <<done, i>> \in ToSet(replayed)
                    \/ /\ Len(replayed) = HistoryLimit
                       /\ \A k \in DOMAIN replayed : replayed[k][1] >= done]_vars

\* Marks of the wire messages: tool calls, tool results and everything else.
ParamMarks(p) == [i \in DOMAIN p.content |->
    CASE p.content[i].type = "tool_use"    -> <<"call", p.content[i].id>>
      [] p.content[i].type = "tool_result" -> <<"result", p.content[i].id>>
      [] OTHER -> <<"other">>]
WireMarks(w) ==
    CASE w.role = "tool" -> <<<<"result", w.tool_call_id>>>>
      [] w.role = "assistant" /\ w.tool_calls # <<>> ->
           [i \in DOMAIN w.tool_calls |-> <<"call", w.tool_calls[i].id>>]
      [] OTHER -> <<<<"other">>>>

\* Calls and results come in rounds: n calls, at once followed by their results.
Round(marks, first, n) == \A i \in first..first + n - 1 :
    /\ i + n \in DOMAIN marks
    /\ marks[i][1] = "call" /\ marks[i + n] = <<"result", marks[i][2]>>
Paired(marks) == \A k \in DOMAIN marks : marks[k] # <<"other">> =>
    \E first, n \in DOMAIN marks : k \in first..first + 2 * n - 1 /\ Round(marks, first, n)

\* Both providers refuse a request whose tool calls and results do not match:
\* in every call of the loop, after any replay, results follow their calls;
\* what a run has at hand is well typed and bounded.
WireWellFormed ==
    /\ TypeOK
    /\ \A r \in Runs : pc[r] = "llm" =>
         LET params == ToParams(Messages(r)) wire == ToWireMessages(Messages(r))
         IN  /\ Paired(FlattenSeq([i \in DOMAIN params |-> ParamMarks(params[i])]))
             /\ Paired(FlattenSeq([i \in DOMAIN wire |-> WireMarks(wire[i])]))

\* A streamed answer is the answer: the turn the agent appends has the calls
\* and the text that a whole answer would have given.
StreamEqualsWhole ==
    \A r \in Runs : provider = "openai" =>
        \A m \in ToSet(new[r]) : m.role = "assistant" => \E a \in Answers : m.content = OpenAIResponse(a).content

\* "rate limit 429, timeout 504, other provider errors 502".  (The README's
\* "auth 503" is not what the handlers do.)
FailureStatus ==
    \A r \in Runs : cause[r] \notin {"none", "AuthenticationError", "ValueError"} =>
        answer[r] = CASE cause[r] = "RateLimitError" -> 429 [] cause[r] = "APITimeoutError" -> 504 [] OTHER -> 502

\* Every request ends: the loop is bounded and no failure of a tool, the
\* provider or the database leaves it waiting.
RunEnds == \A r \in Runs : pc[r] = "prepare" ~> pc[r] = "ended"

\* "replaying history" (chat_service.py:4): a question precedes its answer.
QuestionBeforeAnswer ==
    \A r \in Runs : \A j, k \in DOMAIN history[r] :
        j < k /\ history[r][j][1] = history[r][k][1] => history[r][j][2] < history[r][k][2]

=============================================================================
