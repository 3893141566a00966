----------------------------- MODULE Assistant -----------------------------
(***************************************************************************)
(* The assistant page of the frontend: the reducer and the hook of         *)
(* useAssistantChat.ts over the stream reader of api/assistant.ts.  The    *)
(* user sends, stops and retries while events of the server's stream       *)
(* arrive in chunks cut anywhere, connections break and the page is left.  *)
(*                                                                         *)
(* Run r is the r-th mutation of the tab.  An exchange is the pair of      *)
(* bubbles that exchange_started appends; its place in messages stands for *)
(* its assistantId.  The server is modelled by what Chat says of it: it    *)
(* sends events, stores the run, then sends done, or it sends error.  The  *)
(* k-th text typed on a page is k; texts are trimmed and not blank.        *)
(***************************************************************************)
EXTENDS Naturals, FiniteSets, SequencesExt

CONSTANTS
    Tools,          \* tool names
    MaxRuns,        \* bound: mutations
    MaxExchanges,   \* bound: pairs of bubbles
    MaxEvents,      \* bound: token and tool events of a run
    MaxInFlight     \* bound: frames sent and not yet read

ASSUME AssistantAssumption ==
    /\ MaxRuns \in Nat \ {0} /\ MaxExchanges \in Nat \ {0}
    /\ MaxEvents \in Nat /\ MaxInFlight \in Nat \ {0}

Runs == 1..MaxRuns
None == 0

VARIABLES
    chat,       \* ChatState of the mounted page
    phase,      \* of a mutation: "unused", "paused", "fetching", "reading", "closed"
    target,     \* exchange its callbacks write to; None: it is over, or its page is gone
    request,    \* [message, conversation_id] of a run
    abortRef,   \* run whose controller the page would abort, None
    wire,       \* pieces sent and not yet read
    buffer,     \* the reader's rest of an incomplete frame
    finished,   \* the reader has seen done or error
    server,     \* "idle", "running", "ended", as far as the page can hear of it
    sent,       \* what the server has sent for an open stream
    stored,     \* runs stored before their done was sent (others may be, see Chat)
    stopped,    \* history: runs ended by Stop
    overtaken   \* history: a retry began while an older stream of its bubble was open

streamVars == <<wire, buffer, finished>>
serverVars == <<server, sent, stored>>
vars == <<chat, phase, target, request, abortRef, streamVars, serverVars, stopped, overtaken>>

initialState == [messages |-> <<>>, conversationId |-> None, lastSent |-> None]

\* What the server has sent of a run: its tokens, and a card per tool call that
\* was begun, with how it stands.  The calls run one after the other; one that
\* failed shows the same as one that completed.
Nothing == [text |-> <<>>, cards |-> <<>>]
Calling(answer) == answer.cards # <<>> /\ Last(answer.cards).status = "running"
Count(answer) == Len(answer.text) + 2 * Len(answer.cards) - (IF Calling(answer) THEN 1 ELSE 0)

TypeOK ==
    /\ chat.conversationId \in Runs \cup {None}
    /\ chat.lastSent \in 0..MaxExchanges
    /\ Len(chat.messages) <= MaxExchanges
    /\ \A b \in DOMAIN chat.messages :
         LET m == chat.messages[b]
         IN  /\ m.question \in 1..MaxExchanges
             /\ m.status \in {"streaming", "done", "error"}
             /\ ~overtaken => Len(m.tools) <= (MaxEvents + 1) \div 2
    /\ phase \in [Runs -> {"unused", "paused", "fetching", "reading", "closed"}]
    /\ target \in [Runs -> 0..MaxExchanges]
    /\ abortRef \in Runs \cup {None}
    /\ \A r \in Runs : Len(wire[r]) <= 3 * MaxInFlight /\ Len(buffer[r]) <= 2
    /\ finished \in [Runs -> BOOLEAN]
    /\ server \in [Runs -> {"idle", "running", "ended"}]
    /\ \A r \in Runs : Count(sent[r]) <= MaxEvents
    /\ stored \subseteq Runs /\ stopped \subseteq Runs
    /\ overtaken \in BOOLEAN

-----------------------------------------------------------------------------
(* The reducer.  A fragment <<r, n>> is the n-th token of run r, <<r, 0>>  *)
(* the final text of its done event.                                       *)

exchange_started(s, question) ==
    [s EXCEPT !.lastSent = question,
              !.messages = Append(@, [question |-> question, parts |-> <<>>, tools |-> <<>>,
                                      status |-> "streaming"])]

\* The text grows at its end.
appendText(parts, fragment) == Append(parts, fragment)

token(s, b, fragment) == [s EXCEPT !.messages[b].parts = appendText(@, fragment)]

\* The last card of that name is replaced if it is still running.
tool(s, b, card) ==
    LET cards == s.messages[b].tools
        named == {i \in DOMAIN cards : cards[i].name = card.name}
    IN  [s EXCEPT !.messages[b].tools =
           IF named # {} /\ cards[Max(named)].status = "running"
           THEN [@ EXCEPT ![Max(named)] = card] ELSE Append(@, card)]

\* Mutant: the final text follows the tokens.
doneAppends(s, b, event) ==
    [s EXCEPT !.conversationId = event.conversation_id,
              !.messages[b] = [@ EXCEPT !.parts = Append(@, event.message), !.tools = event.tools,
                                        !.status = "done"]]

\* "trust the final text - it's what the backend persisted"
done(s, b, event) ==
    [s EXCEPT !.conversationId = event.conversation_id,
              !.messages[b] = [@ EXCEPT !.parts = <<event.message>>, !.tools = event.tools,
                                        !.status = "done"]]

error(s, b) == [s EXCEPT !.messages[b].status = "error"]

retry_started(s, b) ==
    [s EXCEPT !.messages[b] = [@ EXCEPT !.parts = <<>>, !.tools = <<>>, !.status = "streaming"]]

\* Mutant: only a bubble with text is settled.
settledText(s, b) ==
    IF s.messages[b].status # "streaming" \/ s.messages[b].parts = <<>> THEN s
    ELSE [s EXCEPT !.messages[b].status = "done"]

settled(s, b) ==
    IF s.messages[b].status # "streaming" THEN s
    ELSE [s EXCEPT !.messages[b].status = IF s.messages[b].parts # <<>> THEN "done" ELSE "error"]

streaming == \E b \in DOMAIN chat.messages : chat.messages[b].status = "streaming"

-----------------------------------------------------------------------------
(* Frames.  A frame travels as three pieces: its lines and the two line    *)
(* ends that close it; a chunk is any number of pieces.                    *)

Lines(event) == <<"lines", event>>
LineEnd == <<"\n">>
Frame(event) == <<Lines(event), LineEnd, LineEnd>>

Boundaries(text) == {i \in 1..Len(text) - 1 : text[i] = LineEnd /\ text[i + 1] = LineEnd}

\* Mutant: what follows the last complete frame is thrown away.
drainFramesNoRest(text) ==
    LET end == Max({i + 1 : i \in Boundaries(text)} \cup {0})
    IN  [frames |-> SubSeq(text, 1, end), rest |-> <<>>]

\* The frames up to the last boundary, and the rest.
drainFrames(text) ==
    LET end == Max({i + 1 : i \in Boundaries(text)} \cup {0})
    IN  [frames |-> SubSeq(text, 1, end), rest |-> SubSeq(text, end + 1, Len(text))]

\* One frame handed to its callback, the callback dispatched.
handle(s, b, event) ==
    CASE event.event = "token" -> token(s, b, event.text)
      [] event.event = "tool"  -> tool(s, b, event.card)
      [] event.event = "done"  -> done(s, b, event)
      [] event.event = "error" -> error(s, b)

\* The frames of a chunk, one after the other.
handleEach(s, b, frames) ==
    LET after[i \in 0..Len(frames)] ==
          IF i = 0 THEN s
          ELSE IF frames[i] = LineEnd THEN after[i - 1] ELSE handle(after[i - 1], b, frames[i][2])
    IN  after[Len(frames)]

-----------------------------------------------------------------------------
(* The hook                                                                *)

\* mutation.mutate: React Query runs the function at once or, offline,
\* pauses it; only when it runs does the page hold its controller.
Mutate(b, question) ==
    \E r \in Runs :
        /\ phase[r] = "unused" /\ \A x \in 1..r - 1 : phase[x] # "unused"
        /\ target' = [target EXCEPT ![r] = b]
        /\ request' = [request EXCEPT ![r] = [message |-> question, conversation_id |-> chat.conversationId]]
        /\ \/ phase' = [phase EXCEPT ![r] = "fetching"] /\ abortRef' = r
           \/ phase' = [phase EXCEPT ![r] = "paused"] /\ UNCHANGED abortRef
        /\ UNCHANGED <<streamVars, serverVars, stopped>>

Send ==
    /\ ~streaming
    /\ Len(chat.messages) < MaxExchanges
    /\ LET next == Len(chat.messages) + 1
       IN  chat' = exchange_started(chat, next) /\ Mutate(next, next)
    /\ UNCHANGED overtaken

Failed == {b \in DOMAIN chat.messages : chat.messages[b].status = "error"}
Open == {r \in Runs : phase[r] \in {"paused", "fetching", "reading"}}

\* The last failed bubble, the last text.
Retry ==
    /\ ~streaming /\ Failed # {}
    /\ chat' = retry_started(chat, Max(Failed))
    /\ Mutate(Max(Failed), chat.lastSent)
    /\ overtaken' = (overtaken \/ \E r \in Open : target[r] = Max(Failed))

\* Back online.
Resume(r) ==
    /\ phase[r] = "paused"
    /\ phase' = [phase EXCEPT ![r] = "fetching"]
    /\ abortRef' = r
    /\ UNCHANGED <<chat, target, request, streamVars, serverVars, stopped, overtaken>>

\* streamMessage returns, and mutationFn dispatches settled, before the
\* browser handles another event.
Returns(r, s) ==
    /\ phase' = [phase EXCEPT ![r] = "closed"]
    /\ chat' = settled(s, target[r])
    /\ wire' = [wire EXCEPT ![r] = <<>>]
    /\ buffer' = [buffer EXCEPT ![r] = <<>>]
    /\ sent' = [sent EXCEPT ![r] = Nothing]
    /\ server' = [server EXCEPT ![r] = "ended"]
    /\ target' = [target EXCEPT ![r] = None]
    /\ finished' = [finished EXCEPT ![r] = FALSE]
    /\ UNCHANGED <<request, abortRef, stored, overtaken>>

\* Stop, shown while a bubble is streaming: AbortError, no callback.
Stop ==
    /\ streaming
    /\ abortRef # None /\ phase[abortRef] \in {"fetching", "reading"}
    /\ Returns(abortRef, chat)
    /\ stopped' = stopped \cup {abortRef}

\* The page is left, or a 401 here or elsewhere clears the session and the
\* gate takes its place: the state is gone, the last controller is aborted, and
\* what other mutations dispatch from now on nobody keeps.
Unmount ==
    /\ chat.messages # <<>>
    /\ chat' = initialState
    /\ abortRef' = None
    /\ target' = [r \in Runs |-> None]
    /\ phase' = [r \in Runs |-> IF phase[r] = "unused" THEN "unused" ELSE "closed"]
    /\ wire' = [r \in Runs |-> <<>>] /\ buffer' = [r \in Runs |-> <<>>]
    /\ finished' = [r \in Runs |-> FALSE]
    /\ server' = [r \in Runs |-> IF phase[r] = "unused" THEN "idle" ELSE "ended"]
    /\ sent' = [r \in Runs |-> Nothing]
    /\ UNCHANGED <<request, stored, stopped, overtaken>>

-----------------------------------------------------------------------------
(* The reader                                                              *)

\* Mutant: the rejection is thrown, past the settled that follows.
FetchFailsThrown(r) ==
    /\ phase[r] = "fetching"
    /\ phase' = [phase EXCEPT ![r] = "closed"]
    /\ UNCHANGED <<chat, target, request, abortRef, streamVars, serverVars, stopped, overtaken>>

\* fetch rejects, or the answer is not ok: onError.
FetchFails(r) ==
    /\ phase[r] = "fetching"
    /\ Returns(r, error(chat, target[r]))
    /\ UNCHANGED stopped

ResponseOpens(r) ==
    /\ phase[r] = "fetching"
    /\ server[r] # "idle"
    /\ phase' = [phase EXCEPT ![r] = "reading"]
    /\ UNCHANGED <<chat, target, request, abortRef, streamVars, serverVars, stopped, overtaken>>

\* A chunk: every complete frame in it is handled.
Read(r) ==
    /\ phase[r] = "reading"
    /\ \E n \in 1..Len(wire[r]) :
         LET drained == drainFrames(buffer[r] \o SubSeq(wire[r], 1, n))
         IN  /\ wire' = [wire EXCEPT ![r] = SubSeq(@, n + 1, Len(@))]
             /\ buffer' = [buffer EXCEPT ![r] = drained.rest]
             /\ finished' = [finished EXCEPT ![r] = @ \/ \E i \in DOMAIN drained.frames :
                               /\ drained.frames[i] # LineEnd
                               /\ drained.frames[i][2].event \in {"done", "error"}]
             /\ chat' = handleEach(chat, target[r], drained.frames)
    /\ UNCHANGED <<phase, target, request, abortRef, serverVars, stopped, overtaken>>

\* Without done or error, the end of a stream is an error.
AfterEnd(r) == IF finished[r] THEN chat ELSE error(chat, target[r])

\* The stream closes cleanly.
Closes(r) ==
    /\ phase[r] = "reading" /\ wire[r] = <<>> /\ server[r] = "ended"
    /\ Returns(r, AfterEnd(r))
    /\ UNCHANGED stopped

\* The connection breaks, or ends before the server has concluded; what was
\* under way is lost.
Breaks(r) ==
    /\ phase[r] = "reading"
    /\ Returns(r, AfterEnd(r))
    /\ UNCHANGED stopped

-----------------------------------------------------------------------------
(* The server (external to the page)                                       *)

Receive(r) ==
    /\ phase[r] = "fetching" /\ server[r] = "idle"
    /\ server' = [server EXCEPT ![r] = "running"]
    /\ UNCHANGED <<chat, phase, target, request, abortRef, streamVars, sent, stored, stopped, overtaken>>

ConversationOf(r) == IF request[r].conversation_id = None THEN r ELSE request[r].conversation_id

NextEvents(r, answer) ==
    IF Calling(answer)
    THEN {[event |-> "tool", card |-> [name |-> Last(answer.cards).name, status |-> "completed"]]}
    ELSE {[event |-> "token", text |-> <<r, Len(answer.text) + 1>>]}
         \cup {[event |-> "tool", card |-> [name |-> t, status |-> "running"]] : t \in Tools}

Extend(answer, event) ==
    CASE event.event = "token" -> [answer EXCEPT !.text = Append(@, event.text)]
      [] event.event = "tool" /\ Calling(answer) ->
           [answer EXCEPT !.cards = [@ EXCEPT ![Len(answer.cards)] = event.card]]
      [] event.event = "tool" /\ ~Calling(answer) ->
           [answer EXCEPT !.cards = Append(@, event.card)]

Listening(r) == phase[r] \in {"fetching", "reading"} /\ Len(wire[r]) + 3 <= 3 * MaxInFlight

Emit(r) ==
    /\ server[r] = "running" /\ Listening(r)
    /\ Count(sent[r]) < MaxEvents
    /\ \E event \in NextEvents(r, sent[r]) :
         /\ sent' = [sent EXCEPT ![r] = Extend(@, event)]
         /\ wire' = [wire EXCEPT ![r] = @ \o Frame(event)]
    /\ UNCHANGED <<chat, phase, target, request, abortRef, buffer, finished, server, stored, stopped, overtaken>>

\* The run is stored, then done is sent.
Conclude(r) ==
    /\ server[r] = "running" /\ Listening(r) /\ ~Calling(sent[r])
    /\ stored' = stored \cup {r}
    /\ wire' = [wire EXCEPT ![r] = @ \o Frame([event |-> "done", conversation_id |-> ConversationOf(r),
                                               message |-> <<r, 0>>, tools |-> sent[r].cards])]
    /\ server' = [server EXCEPT ![r] = "ended"]
    /\ UNCHANGED <<chat, phase, target, request, abortRef, buffer, finished, sent, stopped, overtaken>>

Fail(r) ==
    /\ server[r] = "running" /\ Listening(r)
    /\ wire' = [wire EXCEPT ![r] = @ \o Frame([event |-> "error"])]
    /\ server' = [server EXCEPT ![r] = "ended"]
    /\ UNCHANGED <<chat, phase, target, request, abortRef, buffer, finished, sent, stored, stopped, overtaken>>

-----------------------------------------------------------------------------

Init ==
    /\ chat = initialState
    /\ phase = [r \in Runs |-> "unused"]
    /\ target = [r \in Runs |-> None]
    /\ request = [r \in Runs |-> [message |-> None, conversation_id |-> None]]
    /\ abortRef = None
    /\ wire = [r \in Runs |-> <<>>] /\ buffer = [r \in Runs |-> <<>>]
    /\ finished = [r \in Runs |-> FALSE]
    /\ server = [r \in Runs |-> "idle"] /\ sent = [r \in Runs |-> Nothing]
    /\ stored = {} /\ stopped = {}
    /\ overtaken = FALSE

\* What happens of its own accord once a request is under way.
Progress(r) == Receive(r) \/ ResponseOpens(r) \/ Read(r) \/ Closes(r) \/ Emit(r) \/ Conclude(r) \/ Fail(r)

Next ==
    \/ Send \/ Retry \/ Stop \/ Unmount
    \/ \E r \in Runs : Progress(r) \/ Resume(r) \/ FetchFails(r) \/ Breaks(r)

Spec == Init /\ [][Next]_vars

\* The server ends every run (RunEnds of Chat), what it sends arrives, and the
\* event loop hands it over.
FairSpec == Spec /\ \A r \in Runs : WF_vars(Progress(r))

-----------------------------------------------------------------------------
(* Properties                                                              *)

Unconcluded(b) == {r \in Open : target[r] = b /\ ~finished[r]}

\* A bubble shows activity exactly while one request, and no other, is under
\* way for it: no stop, failure or late end of a stream leaves a bubble that
\* waits for nobody (Send would stay disabled) or a request nobody shows.
StreamingHasRequest ==
    /\ TypeOK
    /\ ~overtaken =>
        /\ \A b \in DOMAIN chat.messages :
             chat.messages[b].status = "streaming" <=> Cardinality(Unconcluded(b)) = 1
        /\ Cardinality({r \in Open : ~finished[r]}) <= 1

\* "trust the final text - it's what the backend persisted": a bubble shown as
\* done holds the final text of one run, stored in the conversation that the
\* next message continues, or what had come of a run the user stopped.
ShownIsStored ==
    ~overtaken =>
        \A b \in DOMAIN chat.messages : chat.messages[b].status = "done" =>
            LET parts == chat.messages[b].parts
            IN  \/ \E r \in stored : parts = <<<<r, 0>>>> /\ ConversationOf(r) = chat.conversationId
                \/ \E r \in stopped : parts # <<>> /\ parts = [n \in DOMAIN parts |-> <<r, n>>]

\* However the stream is cut into chunks, once all of it has been read the
\* bubble shows the tokens sent so far and a card per tool call, with its status.
CaughtUp ==
    ~overtaken =>
        \A r \in Runs : phase[r] = "reading" /\ wire[r] = <<>> /\ ~finished[r] =>
            /\ chat.messages[target[r]].parts = sent[r].text
            /\ chat.messages[target[r]].tools = sent[r].cards

\* A request that has been sent is in the end shown as answered, failed or
\* stopped, and the page takes the next message.
BubbleSettles ==
    (\E r \in Runs : phase[r] \in {"fetching", "reading"} /\ ~finished[r]) ~> ~streaming \/ overtaken

\* Every run of a bubble asks the question above it.  (Not kept: Retry takes
\* the last text, also for the bubble of an earlier exchange.)
AnswersItsQuestion ==
    \A r \in Open : request[r].message = chat.messages[target[r]].question

\* A retry never begins while its bubble's older stream is open.  (Not kept:
\* the error event enables Retry before the stream has closed.)
NeverOvertaken == ~overtaken

=============================================================================
