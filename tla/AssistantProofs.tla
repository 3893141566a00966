-------------------------- MODULE AssistantProofs --------------------------
(***************************************************************************)
(* What the page shows, for any number of runs, exchanges, events and      *)
(* frames in flight.                                                       *)
(*                                                                         *)
(* What is under way for an open stream is, however the chunks were cut, a *)
(* sequence of whole frames, and only the last of them can be done or      *)
(* error.  Replayed on what its bubble shows they give what the server has *)
(* sent: the invariant says so with the answers the bubble will show, one  *)
(* after each frame, the first of which it shows now and the last of which *)
(* is all the server has sent.  No two open runs write to one bubble, and  *)
(* a bubble is streaming exactly while its run has not concluded.          *)
(***************************************************************************)
EXTENDS Assistant, FiniteSetTheorems, SequenceTheorems, WellFoundedInduction, TLAPS

Cards == [name : Tools, status : {"running", "completed"}]
Fragments == Runs \X Nat
Bubbles == [question : 1..MaxExchanges, parts : Seq(Fragments), tools : Seq(Cards),
            status : {"streaming", "done", "error"}]
ChatStates == [messages : Seq(Bubbles), conversationId : Runs \cup {None}, lastSent : 0..MaxExchanges]
Answers == [text : Seq(Fragments), cards : Seq(Cards)]
Events == [event : {"token"}, text : Fragments]
          \cup [event : {"tool"}, card : Cards]
          \cup [event : {"done"}, conversation_id : Runs, message : Fragments, tools : Seq(Cards)]
          \cup [event : {"error"}]
Pieces == {LineEnd} \cup {Lines(e) : e \in Events}
Final(e) == e.event \in {"done", "error"}

\* The text is these frames, one after the other.
Framed(text, events) ==
    /\ Len(text) = 3 * Len(events)
    /\ \A k \in 1..Len(events) :
         text[3 * k - 2] = Lines(events[k]) /\ text[3 * k - 1] = LineEnd /\ text[3 * k] = LineEnd

\* An answer run r can have sent: its tokens in order, and only the last call
\* can be running.
AnswerOf(r, answer) ==
    /\ answer \in Answers
    /\ Count(answer) <= MaxEvents
    /\ \A n \in 1..Len(answer.text) : answer.text[n] = <<r, n>>
    /\ \A i \in 1..Len(answer.cards) : i < Len(answer.cards) => answer.cards[i].status = "completed"

\* The answer a bubble of s shows.
AnswerIn(s, b) == [text |-> s.messages[b].parts, cards |-> s.messages[b].tools]

Pending(r) == buffer[r] \o wire[r]

\* The answers a bubble will show as these events arrive.
Leads(r, from, events, shows, to) ==
    /\ shows[0] = from /\ shows[Len(events)] = to
    /\ \A k \in 0..Len(events) : AnswerOf(r, shows[k])
    /\ \A k \in 1..Len(events) :
         IF Final(events[k]) THEN shows[k] = shows[k - 1]
         ELSE /\ events[k] \in NextEvents(r, shows[k - 1])
              /\ shows[k] = Extend(shows[k - 1], events[k])

\* Only the last event concludes, and then the server has ended.
Concludes(r, events) ==
    /\ \A k \in 1..Len(events) : Final(events[k]) => k = Len(events) /\ server[r] = "ended"
    /\ \A k \in 1..Len(events) : events[k].event = "done" =>
         /\ r \in stored
         /\ events[k].conversation_id = ConversationOf(r)
         /\ events[k].message = <<r, 0>>
         /\ events[k].tools = sent[r].cards
    /\ finished[r] => events = <<>> /\ server[r] = "ended"

StreamInv(r) ==
    \E events \in Seq(Events) :
        /\ Framed(Pending(r), events)
        /\ Concludes(r, events)
        /\ r \in Open /\ ~finished[r] /\ ~overtaken =>
             \E shows :
                 Leads(r, AnswerIn(chat, target[r]), events, shows, sent[r])

TypeInv ==
    /\ chat \in ChatStates
    /\ Len(chat.messages) <= MaxExchanges
    /\ phase \in [Runs -> {"unused", "paused", "fetching", "reading", "closed"}]
    /\ target \in [Runs -> 0..MaxExchanges]
    /\ request \in [Runs -> [message : 0..MaxExchanges, conversation_id : Runs \cup {None}]]
    /\ abortRef \in Runs \cup {None}
    /\ wire \in [Runs -> Seq(Pieces)]
    /\ buffer \in [Runs -> Seq(Pieces)]
    /\ \A r \in Runs : Len(wire[r]) <= 3 * MaxInFlight /\ Len(buffer[r]) <= 2
    /\ finished \in [Runs -> BOOLEAN]
    /\ server \in [Runs -> {"idle", "running", "ended"}]
    /\ sent \in [Runs -> Answers]
    /\ stored \subseteq Runs /\ stopped \subseteq Runs
    /\ overtaken \in BOOLEAN

RunInv(r) ==
    /\ AnswerOf(r, sent[r])
    /\ r \in Open => target[r] \in 1..Len(chat.messages)
    /\ phase[r] # "reading" => buffer[r] = <<>> /\ ~finished[r]
    /\ r \notin Open => wire[r] = <<>> /\ sent[r] = Nothing
    /\ r \in stored => phase[r] # "unused"

Streaming(s) == {b \in 1..Len(s.messages) : s.messages[b].status = "streaming"}

\* A streaming bubble has its run, and every open run has a bubble of its own,
\* which is streaming until the run has concluded.
OneRunEach ==
    /\ \A b, c \in Streaming(chat) : b = c
    /\ \A b \in Streaming(chat) : \E r \in Open : target[r] = b
    /\ \A r, q \in Open : target[r] = target[q] => r = q
    /\ \A r \in Open : target[r] \in Streaming(chat) <=> ~finished[r]

\* While a run has not concluded its conversation is that of the page.
SameConversation ==
    \A r \in Open : ~finished[r] => request[r].conversation_id = chat.conversationId

TrailsFit ==
    \A b \in 1..Len(chat.messages) : Len(chat.messages[b].tools) <= (MaxEvents + 1) \div 2

StoredOne(parts) ==
    \E r \in stored : parts = <<<<r, 0>>>> /\ ConversationOf(r) = chat.conversationId
StoppedOne(parts) ==
    \E r \in stopped : parts # <<>> /\ \A n \in 1..Len(parts) : parts[n] = <<r, n>>

DoneIsStored ==
    \A b \in 1..Len(chat.messages) : chat.messages[b].status = "done" =>
        StoredOne(chat.messages[b].parts) \/ StoppedOne(chat.messages[b].parts)

SerialInv == OneRunEach /\ SameConversation /\ TrailsFit /\ DoneIsStored

IInv ==
    /\ TypeInv
    /\ \A r \in Runs : RunInv(r) /\ StreamInv(r)
    /\ ~overtaken => SerialInv

-----------------------------------------------------------------------------
(* Numbers and sequences                                                   *)

\* A non-empty bounded set of naturals has a least element.
LEMMA LeastExists ==
  ASSUME NEW n \in Nat, NEW S, S \subseteq 0..n, S # {}
  PROVE  \E m \in S : \A j \in S : m <= j
<1> DEFINE R == OpToRel(<, Nat)
<1>1. IsWellFoundedOn(R, Nat)
  BY NatLessThanWellFounded
<1>2. \A e, d \in Nat : e < d => <<e, d>> \in R
  BY DEF OpToRel
<1> HIDE DEF R
<1>3. S \subseteq Nat
  OBVIOUS
<1>4. PICK m \in S : \A j \in S : ~(<<j, m>> \in R)
  BY <1>1, <1>3, WFMin
<1>5. \A j \in S : ~(j < m)
  BY <1>2, <1>3, <1>4
<1> QED BY <1>3, <1>5

\* Induction up to n over a set.
LEMMA UpTo ==
  ASSUME NEW n \in Nat, NEW S, 0 \in S,
         \A k \in 0..n : k \in S /\ k < n => k + 1 \in S
  PROVE  \A k \in 0..n : k \in S
<1> DEFINE B == {k \in 0..n : k \notin S}
<1> SUFFICES ASSUME B # {} PROVE FALSE
  OBVIOUS
<1>1. B \subseteq 0..n
  OBVIOUS
<1>2. PICK m \in B : \A j \in B : m <= j
  <2> HIDE DEF B
  <2> QED BY <1>1, LeastExists
<1>3. m \in 0..n /\ m # 0 /\ m \notin S
  BY <1>2
<1>4. m - 1 \in 0..n /\ m - 1 < n /\ m - 1 \notin B
  BY <1>2, <1>3
<1>5. (m - 1) + 1 \in S
  BY <1>4
<1> QED BY <1>3, <1>5

\* The greatest element of a bounded set.
LEMMA MaxIs ==
  ASSUME NEW n \in Nat, NEW S, S \subseteq 0..n, S # {}
  PROVE  Max(S) \in S /\ \A j \in S : j <= Max(S)
<1> DEFINE T == {n - j : j \in S}
<1>1. T \subseteq 0..n /\ T # {}
  <2>1. PICK x \in S : TRUE
    OBVIOUS
  <2>2. n - x \in T
    OBVIOUS
  <2>3. \A j \in S : n - j \in 0..n
    OBVIOUS
  <2> QED BY <2>2, <2>3
<1>2. PICK m \in T : \A j \in T : m <= j
  <2> HIDE DEF T
  <2> QED BY <1>1, LeastExists
<1>3. PICK x \in S : m = n - x
  BY <1>2
<1>4. \A j \in S : j <= x
  <2> SUFFICES ASSUME NEW j \in S PROVE j <= x
    OBVIOUS
  <2>1. m <= n - j
    BY <1>2
  <2> QED BY <1>3, <2>1
<1>5. \E y \in S : \A j \in S : y >= j
  BY <1>4
<1>6. Max(S) = CHOOSE y \in S : \A j \in S : y >= j
  BY DEF Max
<1>7. Max(S) \in S /\ \A j \in S : Max(S) >= j
  BY <1>5, <1>6
<1> QED BY <1>7

-----------------------------------------------------------------------------
(* Frames                                                                  *)

\* The lines of a frame are not a line end, and tell their event.
LEMMA LinesAre ==
  \A e : Lines(e) # LineEnd /\ Lines(e)[2] = e
BY DEF Lines, LineEnd

Chunk(text, L) == SubSeq(text, 1, L)
FramesOf(text, m) == SubSeq(text, 1, 3 * m)

\* What the reader holds back is less than a frame, whatever the chunk.
LEMMA Drained ==
  ASSUME NEW events \in Seq(Events), NEW text \in Seq(Pieces), Framed(text, events),
         NEW L \in 0..Len(text)
  PROVE  \E m \in 0..Len(events) :
           /\ 3 * m <= L /\ L <= 3 * m + 2
           /\ drainFrames(Chunk(text, L)).frames = FramesOf(text, m)
           /\ drainFrames(Chunk(text, L)).rest = SubSeq(text, 3 * m + 1, L)
<1> DEFINE N == Len(events)
           head == Chunk(text, L)
<1>1. N \in Nat /\ Len(text) = 3 * N /\ L \in Nat /\ L <= 3 * N
  BY DEF Framed
<1>2. PICK m \in 0..N : 3 * m <= L /\ L <= 3 * m + 2
  <2>1. L \div 3 \in 0..N /\ 3 * (L \div 3) <= L /\ L <= 3 * (L \div 3) + 2
    BY <1>1
  <2> QED BY <2>1
<1>3. /\ Len(head) = L
      /\ \A i \in 1..L : head[i] = text[i]
  BY <1>1 DEF Chunk
<1> HIDE DEF head
<1> DEFINE S == {i + 1 : i \in Boundaries(head)} \cup {0}
<1>4. S \subseteq 0..L
  BY <1>1, <1>3 DEF Boundaries
<1>5. 3 * m \in S
  <2>1. CASE m = 0
    BY <2>1
  <2>2. CASE m # 0
    <3>1. m \in 1..N /\ 3 * m - 1 \in 1..L /\ 3 * m \in 1..L /\ 3 * m - 1 \in 1..L - 1
      BY <1>1, <1>2, <2>2
    <3>2. text[3 * m - 1] = LineEnd /\ text[3 * m] = LineEnd
      BY <3>1 DEF Framed
    <3>3. head[3 * m - 1] = LineEnd /\ head[(3 * m - 1) + 1] = LineEnd
      <4>1. (3 * m - 1) + 1 = 3 * m
        BY <1>2
      <4>2. head[3 * m - 1] = LineEnd /\ head[3 * m] = LineEnd
        BY <1>3, <3>1, <3>2, Zenon
      <4> QED BY <4>1, <4>2
    <3>4. 3 * m - 1 \in Boundaries(head)
      <4>1. PICK i : i = 3 * m - 1
        OBVIOUS
      <4>2. i \in 1..Len(head) - 1 /\ head[i] = LineEnd /\ head[i + 1] = LineEnd
        BY <1>3, <3>1, <3>3, <4>1
      <4> QED BY <4>1, <4>2 DEF Boundaries
    <3>5. (3 * m - 1) + 1 \in S
      BY <3>4
    <3> QED BY <1>2, <3>5
  <2> QED BY <2>1, <2>2
<1>6. ASSUME NEW j \in S PROVE j <= 3 * m
  <2>0. j \in 0..L /\ L \in Nat /\ m \in Nat
    <3> HIDE DEF S
    <3> QED BY <1>1, <1>4
  <2> SUFFICES ASSUME j > 3 * m PROVE FALSE
    BY <2>0
  <2>1. PICK i \in Boundaries(head) : j = i + 1
    BY <1>2
  <2>2. i \in 1..L - 1 /\ text[i] = LineEnd /\ text[i + 1] = LineEnd
    BY <1>1, <1>3, <2>1 DEF Boundaries
  <2>3. m + 1 \in 1..N /\ 3 * (m + 1) - 2 = 3 * m + 1
    BY <1>1, <1>2, <2>1, <2>2
  <2>4. text[3 * m + 1] # LineEnd
    <3>1. text[3 * (m + 1) - 2] = Lines(events[m + 1])
      BY <2>3 DEF Framed
    <3> QED BY <2>3, <3>1, LinesAre
  <2>5. i = 3 * m + 1 \/ i + 1 = 3 * m + 1
    BY <1>2, <2>1, <2>2
  <2> QED BY <2>2, <2>4, <2>5
<1>7. Max(S) = 3 * m
  <2>1. Max(S) \in S /\ \A j \in S : j <= Max(S)
    <3> HIDE DEF S
    <3> QED BY <1>1, <1>4, <1>5, MaxIs
  <2> HIDE DEF S
  <2>2. Max(S) <= 3 * m
    BY <1>6, <2>1
  <2>3. 3 * m <= Max(S)
    BY <1>5, <2>1
  <2>4. Max(S) \in 0..L
    BY <1>4, <2>1
  <2> QED BY <1>1, <1>2, <2>2, <2>3, <2>4
<1>8. /\ drainFrames(head).frames = SubSeq(head, 1, 3 * m)
      /\ drainFrames(head).rest = SubSeq(head, 3 * m + 1, L)
  BY <1>3, <1>7 DEF drainFrames
<1>9. SubSeq(head, 1, 3 * m) = SubSeq(text, 1, 3 * m)
  BY <1>1, <1>2, <1>3
<1>10. SubSeq(head, 3 * m + 1, L) = SubSeq(text, 3 * m + 1, L)
  BY <1>1, <1>2, <1>3
<1> QED BY <1>2, <1>8, <1>9, <1>10 DEF head, FramesOf

\* Taking the first frames leaves the others.
LEMMA FramedRest ==
  ASSUME NEW events \in Seq(Events), NEW text \in Seq(Pieces), Framed(text, events),
         NEW m \in 0..Len(events)
  PROVE  /\ SubSeq(events, m + 1, Len(events)) \in Seq(Events)
         /\ Len(SubSeq(events, m + 1, Len(events))) = Len(events) - m
         /\ \A k \in 1..Len(events) - m : SubSeq(events, m + 1, Len(events))[k] = events[m + k]
         /\ Framed(SubSeq(text, 3 * m + 1, Len(text)), SubSeq(events, m + 1, Len(events)))
<1> DEFINE N == Len(events)
           late == SubSeq(events, m + 1, N)
           rest == SubSeq(text, 3 * m + 1, Len(text))
<1>1. N \in Nat /\ Len(text) = 3 * N /\ m \in Nat /\ m <= N
  BY DEF Framed
<1>2. late \in Seq(Events) /\ Len(late) = N - m
  BY <1>1
<1>3. \A k \in 1..N - m : late[k] = events[m + k]
  BY <1>1
<1>4. Len(rest) = 3 * (N - m)
  BY <1>1
<1>5. \A i \in 1..3 * (N - m) : rest[i] = text[3 * m + i]
  BY <1>1
<1>6. ASSUME NEW k \in 1..N - m
      PROVE  rest[3 * k - 2] = Lines(late[k]) /\ rest[3 * k - 1] = LineEnd /\ rest[3 * k] = LineEnd
  <2>1. m + k \in 1..N
    BY <1>1
  <2>2. /\ text[3 * (m + k) - 2] = Lines(events[m + k])
        /\ text[3 * (m + k) - 1] = LineEnd
        /\ text[3 * (m + k)] = LineEnd
    BY <2>1 DEF Framed
  <2>3. /\ 3 * (m + k) - 2 = 3 * m + (3 * k - 2) /\ 3 * k - 2 \in 1..3 * (N - m)
        /\ 3 * (m + k) - 1 = 3 * m + (3 * k - 1) /\ 3 * k - 1 \in 1..3 * (N - m)
        /\ 3 * (m + k) = 3 * m + 3 * k /\ 3 * k \in 1..3 * (N - m)
    BY <1>1
  <2> HIDE DEF rest, late
  <2> QED BY <1>3, <1>5, <2>2, <2>3
<1> HIDE DEF rest, late
<1>7. Framed(rest, late)
  BY <1>2, <1>4, <1>6 DEF Framed
<1> QED BY <1>2, <1>3, <1>7 DEF rest, late

\* A frame more.
LEMMA FramedMore ==
  ASSUME NEW events \in Seq(Events), NEW text \in Seq(Pieces), Framed(text, events),
         NEW e \in Events
  PROVE  /\ text \o Frame(e) \in Seq(Pieces)
         /\ Append(events, e) \in Seq(Events)
         /\ Framed(text \o Frame(e), Append(events, e))
<1> DEFINE N == Len(events)
           longer == text \o Frame(e)
           more == Append(events, e)
<1>1. N \in Nat /\ Len(text) = 3 * N
  BY DEF Framed
<1>2. Frame(e) \in Seq(Pieces) /\ Len(Frame(e)) = 3
  BY DEF Frame, Pieces
<1>3. Frame(e)[1] = Lines(e) /\ Frame(e)[2] = LineEnd /\ Frame(e)[3] = LineEnd
  BY DEF Frame
<1>4. /\ longer \in Seq(Pieces) /\ Len(longer) = 3 * N + 3
      /\ \A i \in 1..3 * N + 3 : longer[i] = IF i <= 3 * N THEN text[i] ELSE Frame(e)[i - 3 * N]
  <2> DEFINE f == Frame(e)
  <2>1. f \in Seq(Pieces) /\ Len(f) = 3
    BY <1>2
  <2> HIDE DEF f
  <2>2. /\ text \o f \in Seq(Pieces) /\ Len(text \o f) = Len(text) + Len(f)
        /\ \A i \in 1..Len(text) + Len(f) : (text \o f)[i] = IF i <= Len(text) THEN text[i] ELSE f[i - Len(text)]
    BY <2>1, ConcatProperties
  <2>3. Len(text) + Len(f) = 3 * N + 3
    BY <1>1, <2>1
  <2> QED BY <1>1, <2>2, <2>3 DEF f
<1>5. /\ \A i \in 1..3 * N : longer[i] = text[i]
      /\ longer[3 * N + 1] = Lines(e) /\ longer[3 * N + 2] = LineEnd /\ longer[3 * N + 3] = LineEnd
  <2> HIDE DEF longer
  <2>2. \A i \in 1..3 * N : longer[i] = text[i]
    BY <1>1, <1>4
  <2>3. /\ longer[3 * N + 1] = Frame(e)[1] /\ longer[3 * N + 2] = Frame(e)[2]
        /\ longer[3 * N + 3] = Frame(e)[3]
    <3>1. \A j \in 1..3 : /\ 3 * N + j \in 1..3 * N + 3 /\ ~(3 * N + j <= 3 * N)
                          /\ (3 * N + j) - 3 * N = j
      BY <1>1
    <3>2. \A j \in 1..3 : longer[3 * N + j] = Frame(e)[j]
      <4> SUFFICES ASSUME NEW j \in 1..3 PROVE longer[3 * N + j] = Frame(e)[j]
        OBVIOUS
      <4> QED BY <1>4, <3>1, Zenon
    <3> QED BY <3>2
  <2> QED BY <1>3, <2>2, <2>3
<1>6. /\ more \in Seq(Events) /\ Len(more) = N + 1
      /\ more[N + 1] = e /\ \A k \in 1..N : more[k] = events[k]
  BY <1>1
<1>7. ASSUME NEW k \in 1..N + 1
      PROVE  longer[3 * k - 2] = Lines(more[k]) /\ longer[3 * k - 1] = LineEnd /\ longer[3 * k] = LineEnd
  <2> HIDE DEF longer, more
  <2>1. CASE k = N + 1
    <3>1. 3 * k - 2 = 3 * N + 1 /\ 3 * k - 1 = 3 * N + 2 /\ 3 * k = 3 * N + 3
      BY <1>1, <2>1
    <3> QED BY <1>5, <1>6, <2>1, <3>1
  <2>2. CASE k # N + 1
    <3>1. k \in 1..N /\ 3 * k - 2 \in 1..3 * N /\ 3 * k - 1 \in 1..3 * N /\ 3 * k \in 1..3 * N
      BY <1>1, <2>2
    <3>2. text[3 * k - 2] = Lines(events[k]) /\ text[3 * k - 1] = LineEnd /\ text[3 * k] = LineEnd
      BY <3>1 DEF Framed
    <3> QED BY <1>5, <1>6, <3>1, <3>2
  <2> QED BY <2>1, <2>2
<1> HIDE DEF longer, more
<1>8. Framed(longer, more)
  <2>1. 3 * Len(more) = 3 * N + 3
    BY <1>1, <1>6
  <2>2. Len(longer) = 3 * Len(more) /\ Len(more) = N + 1
    BY <1>4, <1>6, <2>1
  <2> QED BY <1>4, <1>6, <1>7, <2>2 DEF Framed
<1> QED BY <1>4, <1>6, <1>8 DEF longer, more

-----------------------------------------------------------------------------
(* The frames of a chunk are handled in order.                             *)

LEMMA HandledEach ==
  ASSUME NEW s, NEW b, NEW frames, Len(frames) \in Nat
  PROVE  \E after :
           /\ after[0] = s
           /\ \A i \in 1..Len(frames) :
                after[i] = IF frames[i] = LineEnd THEN after[i - 1]
                           ELSE handle(after[i - 1], b, frames[i][2])
           /\ handleEach(s, b, frames) = after[Len(frames)]
<1> DEFINE n == Len(frames)
           Step(x, i) == IF frames[i] = LineEnd THEN x ELSE handle(x, b, frames[i][2])
           Is(f, m) == f = [i \in 0..m |-> IF i = 0 THEN s ELSE Step(f[i - 1], i)]
           S == {m \in 0..n : \E f : Is(f, m)}
<1>1. 0 \in S
  <2>1. Is([i \in 0..0 |-> s], 0)
    OBVIOUS
  <2>2. \E f : Is(f, 0)
    <3> HIDE DEF Is
    <3> QED BY <2>1
  <2> HIDE DEF Is
  <2> QED BY <2>2
<1>2. ASSUME NEW m \in 0..n, m \in S, m < n PROVE m + 1 \in S
  <2>1. PICK f : Is(f, m)
    BY <1>2
  <2> DEFINE h == [i \in 0..m + 1 |-> IF i <= m THEN f[i] ELSE Step(f[m], m + 1)]
  <2> HIDE DEF Step
  <2>2. ASSUME NEW i \in 0..m + 1
        PROVE  h[i] = IF i = 0 THEN s ELSE Step(h[i - 1], i)
    <3>1. CASE i = 0
      <4>1. h[i] = f[0]
        BY <3>1
      <4> QED BY <2>1, <3>1, <4>1
    <3>2. CASE i # 0 /\ i <= m
      <4>1. h[i] = f[i] /\ h[i - 1] = f[i - 1]
        BY <3>2
      <4>2. f[i] = Step(f[i - 1], i)
        BY <2>1, <3>2
      <4> QED BY <3>2, <4>1, <4>2
    <3>3. CASE i = m + 1
      <4>1. h[i] = Step(f[m], m + 1) /\ h[i - 1] = f[m]
        BY <3>3
      <4> QED BY <3>3, <4>1
    <3> QED BY <3>1, <3>2, <3>3
  <2>3. h = [i \in 0..m + 1 |-> h[i]]
    OBVIOUS
  <2> HIDE DEF h
  <2>4. Is(h, m + 1)
    BY <2>2, <2>3
  <2>5. m + 1 \in 0..n
    BY <1>2
  <2> QED BY <2>4, <2>5
<1>3. n \in S
  <2>1. \A m \in 0..n : m \in S
    <3> HIDE DEF S
    <3> QED BY <1>1, <1>2, UpTo
  <2> HIDE DEF S
  <2> QED BY <2>1
<1>4. \E f : Is(f, n)
  BY <1>3
<1> DEFINE after == CHOOSE f : Is(f, n)
<1>5. Is(after, n)
  BY <1>4
<1>6. handleEach(s, b, frames) = after[n]
  BY DEF handleEach
<1> HIDE DEF after, Step
<1>7. \A i \in 0..n : after[i] = IF i = 0 THEN s ELSE Step(after[i - 1], i)
  BY <1>5
<1>8. after[0] = s /\ \A i \in 1..n : after[i] = Step(after[i - 1], i)
  BY <1>7
<1> QED BY <1>6, <1>8 DEF Step

-----------------------------------------------------------------------------
(* What an event does to the bubbles.                                      *)

Put(s, b, m, c) ==
    [messages |-> [s.messages EXCEPT ![b] = m], conversationId |-> c, lastSent |-> s.lastSent]

LEMMA Replaced ==
  ASSUME NEW s \in ChatStates, NEW b \in 1..Len(s.messages), NEW m \in Bubbles,
         NEW c \in Runs \cup {None}, NEW t, t = Put(s, b, m, c)
  PROVE  /\ t \in ChatStates
         /\ Len(t.messages) = Len(s.messages)
         /\ t.messages[b] = m
         /\ \A x \in 1..Len(s.messages) : x # b => t.messages[x] = s.messages[x]
         /\ t.conversationId = c
<1>1. s.messages \in Seq(Bubbles)
  BY DEF ChatStates
<1>2. /\ [s.messages EXCEPT ![b] = m] \in Seq(Bubbles)
      /\ Len([s.messages EXCEPT ![b] = m]) = Len(s.messages)
      /\ \A x \in 1..Len(s.messages) : [s.messages EXCEPT ![b] = m][x] = IF x = b THEN m ELSE s.messages[x]
  BY <1>1, ExceptSeq
<1>3. /\ t.messages = [s.messages EXCEPT ![b] = m] /\ t.conversationId = c
      /\ t = [messages |-> t.messages, conversationId |-> t.conversationId, lastSent |-> s.lastSent]
  BY DEF Put
<1>4. t \in ChatStates
  BY <1>2, <1>3, SMTT(20) DEF ChatStates
<1> QED BY <1>2, <1>3, <1>4

\* A bubble's last running card of that name.
LEMMA NamedCard ==
  ASSUME NEW cards \in Seq(Cards), NEW name,
         NEW named, named = {i \in DOMAIN cards : cards[i].name = name}, named # {}
  PROVE  Max(named) \in 1..Len(cards) /\ cards[Max(named)].name = name /\ \A i \in named : i <= Max(named)
<1>1. Len(cards) \in Nat /\ named \subseteq 0..Len(cards)
  BY LenProperties
<1>2. Max(named) \in named /\ \A i \in named : i <= Max(named)
  BY <1>1, MaxIs
<1> QED BY <1>2

LEMMA ToolTyped ==
  ASSUME NEW s \in ChatStates, NEW b \in 1..Len(s.messages), NEW card \in Cards
  PROVE  \E m \in Bubbles : /\ m.status = s.messages[b].status
                            /\ tool(s, b, card) = Put(s, b, m, s.conversationId)
<1> DEFINE cards == s.messages[b].tools
           named == {i \in DOMAIN cards : cards[i].name = card.name}
           now == IF named # {} /\ cards[Max(named)].status = "running"
                  THEN [cards EXCEPT ![Max(named)] = card] ELSE Append(cards, card)
<1>1. s.messages \in Seq(Bubbles) /\ s.messages[b] \in Bubbles
  BY ElementOfSeq DEF ChatStates
<1>2. cards \in Seq(Cards)
  BY <1>1 DEF Bubbles
<1>3. now \in Seq(Cards)
  <2>1. CASE named # {} /\ cards[Max(named)].status = "running"
    <3>1. Max(named) \in 1..Len(cards)
      <4> HIDE DEF cards
      <4>1. named = {i \in DOMAIN cards : cards[i].name = card.name}
        OBVIOUS
      <4> HIDE DEF named
      <4> QED BY <1>2, <2>1, <4>1, NamedCard
    <3> HIDE DEF cards, named
    <3>2. [cards EXCEPT ![Max(named)] = card] \in Seq(Cards)
      BY <1>2, <3>1, ExceptSeq
    <3> QED BY <2>1, <3>2
  <2>2. CASE ~(named # {} /\ cards[Max(named)].status = "running")
    <3> HIDE DEF cards, named
    <3> QED BY <1>2, <2>2
  <2> QED BY <2>1, <2>2
<1> DEFINE m == [s.messages[b] EXCEPT !.tools = now]
<1>4. tool(s, b, card) = [s EXCEPT !.messages[b].tools = now]
  BY DEF tool
<1> HIDE DEF now
<1>5. m \in Bubbles /\ m.status = s.messages[b].status
  BY <1>1, <1>3 DEF Bubbles
<1>6. tool(s, b, card) = Put(s, b, m, s.conversationId)
  BY <1>4 DEF ChatStates, Put
<1> QED BY <1>5, <1>6

LEMMA HandleTyped ==
  ASSUME NEW s \in ChatStates, NEW b \in 1..Len(s.messages), NEW e \in Events
  PROVE  /\ handle(s, b, e) \in ChatStates
         /\ Len(handle(s, b, e).messages) = Len(s.messages)
         /\ \A x \in 1..Len(s.messages) : x # b => handle(s, b, e).messages[x] = s.messages[x]
         /\ e.event # "done" => handle(s, b, e).conversationId = s.conversationId
         /\ ~Final(e) => handle(s, b, e).messages[b].status = s.messages[b].status
         /\ e.event = "error" =>
              /\ handle(s, b, e).messages[b].status = "error"
              /\ AnswerIn(handle(s, b, e), b) = AnswerIn(s, b)
         /\ e.event = "done" =>
              /\ handle(s, b, e).messages[b].status = "done"
              /\ AnswerIn(handle(s, b, e), b) = [text |-> <<e.message>>, cards |-> e.tools]
              /\ handle(s, b, e).conversationId = e.conversation_id
<1> DEFINE t == handle(s, b, e)
<1>1. s.messages \in Seq(Bubbles) /\ s.messages[b] \in Bubbles
  BY ElementOfSeq DEF ChatStates
<1>2. s.conversationId \in Runs \cup {None}
  BY DEF ChatStates
<1>3. CASE e.event = "token"
  <2>1. e.text \in Fragments
    BY <1>3 DEF Events
  <2> DEFINE m == [s.messages[b] EXCEPT !.parts = Append(@, e.text)]
  <2>2. m \in Bubbles /\ m.status = s.messages[b].status
    <3> DEFINE longer == Append(s.messages[b].parts, e.text)
    <3>1. longer \in Seq(Fragments)
      <4>1. s.messages[b].parts \in Seq(Fragments)
        BY <1>1 DEF Bubbles
      <4> QED BY <2>1, <4>1
    <3>2. m = [s.messages[b] EXCEPT !.parts = longer]
      OBVIOUS
    <3> HIDE DEF longer, m
    <3> QED BY <1>1, <3>1, <3>2 DEF Bubbles
  <2>3. t = Put(s, b, m, s.conversationId)
    <3>1. t = [s EXCEPT !.messages[b].parts = Append(@, e.text)]
      BY <1>3 DEF handle, token, appendText
    <3> QED BY <3>1 DEF ChatStates, Put
  <2> HIDE DEF m
  <2>4. /\ t \in ChatStates
        /\ Len(t.messages) = Len(s.messages)
        /\ t.messages[b] = m
        /\ \A x \in 1..Len(s.messages) : x # b => t.messages[x] = s.messages[x]
        /\ t.conversationId = s.conversationId
    BY <1>2, <2>2, <2>3, Replaced
  <2> QED BY <1>3, <2>2, <2>4 DEF Final, t
<1>4. CASE e.event = "tool"
  <2>1. e.card \in Cards
    BY <1>4 DEF Events
  <2>2. \E m \in Bubbles : /\ m.status = s.messages[b].status
                           /\ tool(s, b, e.card) = Put(s, b, m, s.conversationId)
    BY <2>1, ToolTyped
  <2>3. PICK m \in Bubbles : /\ m.status = s.messages[b].status
                             /\ tool(s, b, e.card) = Put(s, b, m, s.conversationId)
    BY <2>2
  <2>4. t = Put(s, b, m, s.conversationId)
    BY <1>4, <2>3 DEF handle
  <2>5. /\ t \in ChatStates
        /\ Len(t.messages) = Len(s.messages)
        /\ t.messages[b] = m
        /\ \A x \in 1..Len(s.messages) : x # b => t.messages[x] = s.messages[x]
        /\ t.conversationId = s.conversationId
    BY <1>2, <2>4, Replaced
  <2> QED BY <1>4, <2>3, <2>5 DEF Final, t
<1>5. CASE e.event = "done"
  <2>1. e.conversation_id \in Runs /\ e.message \in Fragments /\ e.tools \in Seq(Cards)
    BY <1>5 DEF Events
  <2> DEFINE m == [s.messages[b] EXCEPT !.parts = <<e.message>>, !.tools = e.tools, !.status = "done"]
  <2>2. /\ m \in Bubbles /\ m.status = "done"
        /\ m.parts = <<e.message>> /\ m.tools = e.tools
    <3> DEFINE final == <<e.message>>
    <3>1. final \in Seq(Fragments)
      BY <2>1
    <3>2. m = [s.messages[b] EXCEPT !.parts = final, !.tools = e.tools, !.status = "done"]
      OBVIOUS
    <3> HIDE DEF final, m
    <3>3. m \in Bubbles /\ m.status = "done" /\ m.parts = final /\ m.tools = e.tools
      BY <1>1, <2>1, <3>1, <3>2 DEF Bubbles
    <3> QED BY <3>3 DEF final
  <2>3. t = Put(s, b, m, e.conversation_id)
    <3>1. t = [s EXCEPT !.conversationId = e.conversation_id, !.messages[b] = m]
      BY <1>5 DEF handle, done
    <3> HIDE DEF m
    <3> QED BY <3>1 DEF ChatStates, Put
  <2> HIDE DEF m
  <2>4. /\ t \in ChatStates
        /\ Len(t.messages) = Len(s.messages)
        /\ t.messages[b] = m
        /\ \A x \in 1..Len(s.messages) : x # b => t.messages[x] = s.messages[x]
        /\ t.conversationId = e.conversation_id
    BY <2>1, <2>2, <2>3, Replaced
  <2> QED BY <1>5, <2>2, <2>4 DEF Final, AnswerIn, t
<1>6. CASE e.event = "error"
  <2> DEFINE m == [s.messages[b] EXCEPT !.status = "error"]
  <2>1. /\ m \in Bubbles /\ m.status = "error"
        /\ m.parts = s.messages[b].parts /\ m.tools = s.messages[b].tools
    BY <1>1 DEF Bubbles
  <2>2. t = Put(s, b, m, s.conversationId)
    <3>1. t = [s EXCEPT !.messages[b].status = "error"]
      BY <1>6 DEF handle, error
    <3> QED BY <3>1 DEF ChatStates, Put
  <2> HIDE DEF m
  <2>3. /\ t \in ChatStates
        /\ Len(t.messages) = Len(s.messages)
        /\ t.messages[b] = m
        /\ \A x \in 1..Len(s.messages) : x # b => t.messages[x] = s.messages[x]
        /\ t.conversationId = s.conversationId
    BY <1>2, <2>1, <2>2, Replaced
  <2> QED BY <1>6, <2>1, <2>3 DEF Final, AnswerIn, t
<1>7. e.event \in {"token", "tool", "done", "error"}
  BY DEF Events
<1> QED BY <1>3, <1>4, <1>5, <1>6, <1>7 DEF t

-----------------------------------------------------------------------------
(* The page and the server extend an answer alike.                         *)

\* What the server may send next.
LEMMA NextIs ==
  ASSUME NEW r \in Runs, NEW a, AnswerOf(r, a), NEW e \in NextEvents(r, a)
  PROVE  /\ e \in Events /\ ~Final(e)
         /\ \/ /\ e.event = "tool" /\ Calling(a) /\ e.card \in Cards
               /\ a.cards # <<>> /\ Len(a.cards) \in 1..Len(a.cards)
               /\ e.card.name = a.cards[Len(a.cards)].name /\ e.card.status = "completed"
            \/ /\ e.event = "tool" /\ ~Calling(a) /\ e.card \in Cards /\ e.card.status = "running"
            \/ /\ e.event = "token" /\ ~Calling(a) /\ e.text = <<r, Len(a.text) + 1>> /\ e.text \in Fragments
<1>1. a.text \in Seq(Fragments) /\ a.cards \in Seq(Cards)
  BY DEF AnswerOf, Answers
<1>2. CASE Calling(a)
  <2>1. a.cards # <<>> /\ Len(a.cards) \in 1..Len(a.cards)
    BY <1>1, <1>2, EmptySeq DEF Calling
  <2>2. a.cards[Len(a.cards)] \in Cards
    BY <1>1, <2>1, ElementOfSeq
  <2>3. e = [event |-> "tool", card |-> [name |-> a.cards[Len(a.cards)].name, status |-> "completed"]]
    BY <1>2 DEF NextEvents, Last
  <2>4. e.event = "tool" /\ e.card = [name |-> a.cards[Len(a.cards)].name, status |-> "completed"]
    BY <2>3
  <2>5. e.card \in Cards /\ e.card.name = a.cards[Len(a.cards)].name /\ e.card.status = "completed"
    BY <2>2, <2>4 DEF Cards
  <2>6. e \in Events
    BY <2>3, <2>4, <2>5 DEF Events
  <2> QED BY <1>2, <2>1, <2>4, <2>5, <2>6 DEF Final
<1>3. CASE ~Calling(a)
  <2>1. \/ e = [event |-> "token", text |-> <<r, Len(a.text) + 1>>]
        \/ \E t \in Tools : e = [event |-> "tool", card |-> [name |-> t, status |-> "running"]]
    BY <1>3 DEF NextEvents
  <2>2. CASE e = [event |-> "token", text |-> <<r, Len(a.text) + 1>>]
    <3>1. Len(a.text) + 1 \in Nat
      BY <1>1
    <3>2. e.event = "token" /\ e.text = <<r, Len(a.text) + 1>> /\ e.text \in Fragments
      BY <2>2, <3>1 DEF Fragments
    <3>3. e \in Events
      BY <2>2, <3>2 DEF Events
    <3> QED BY <1>3, <3>2, <3>3 DEF Final
  <2>3. CASE \E t \in Tools : e = [event |-> "tool", card |-> [name |-> t, status |-> "running"]]
    <3>1. PICK t \in Tools : e = [event |-> "tool", card |-> [name |-> t, status |-> "running"]]
      BY <2>3
    <3>2. e.event = "tool" /\ e.card \in Cards /\ e.card.status = "running"
      BY <3>1 DEF Cards
    <3>3. e \in Events
      BY <3>1, <3>2 DEF Events
    <3> QED BY <1>3, <3>2, <3>3 DEF Final
  <2> QED BY <2>1, <2>2, <2>3
<1> QED BY <1>2, <1>3

LEMMA ExtendShown ==
  ASSUME NEW r \in Runs, NEW s \in ChatStates, NEW b \in 1..Len(s.messages),
         NEW a, a = AnswerIn(s, b), AnswerOf(r, a), NEW e \in NextEvents(r, a)
  PROVE  AnswerIn(handle(s, b, e), b) = Extend(a, e)
<1> DEFINE cards == a.cards
           m == s.messages[b]
<1>1. s.messages \in Seq(Bubbles) /\ m \in Bubbles
  BY ElementOfSeq DEF ChatStates
<1>2. a = [text |-> m.parts, cards |-> m.tools] /\ a.text = m.parts /\ cards = m.tools
  BY DEF AnswerIn
<1>3. cards \in Seq(Cards) /\ Len(cards) \in Nat
  BY <1>1, <1>2, LenProperties DEF Bubbles
<1>4. ASSUME NEW c \in Cards, e.event = "tool", e.card = c,
             NEW now, now = IF Calling(a) THEN [cards EXCEPT ![Len(cards)] = c] ELSE Append(cards, c),
             Calling(a) => cards # <<>> /\ Len(cards) \in 1..Len(cards) /\ c.name = cards[Len(cards)].name
      PROVE  tool(s, b, c) = [s EXCEPT !.messages[b].tools = now]
  <2> DEFINE named == {i \in DOMAIN cards : cards[i].name = c.name}
  <2>1. (named # {} /\ cards[Max(named)].status = "running") <=> Calling(a)
    <3>1. ASSUME named # {} /\ cards[Max(named)].status = "running" PROVE Calling(a)
      <4>1. Max(named) \in 1..Len(cards)
        <5>1. named = {i \in DOMAIN cards : cards[i].name = c.name}
          OBVIOUS
        <5> HIDE DEF named, cards
        <5> QED BY <1>3, <3>1, <5>1, NamedCard
      <4> HIDE DEF named
      <4>2. ~(Max(named) < Len(cards))
        BY <3>1, <4>1 DEF AnswerOf
      <4>3. Max(named) = Len(cards)
        BY <1>3, <4>1, <4>2
      <4>4. cards # <<>>
        BY <4>1
      <4> QED BY <3>1, <4>3, <4>4 DEF Calling, Last
    <3>2. ASSUME Calling(a) PROVE named # {} /\ cards[Max(named)].status = "running" /\ Max(named) = Len(cards)
      <4>1. Len(cards) \in named
        BY <1>3, <1>4, <3>2, LenProperties
      <4>2. Max(named) \in 1..Len(cards) /\ Len(cards) <= Max(named)
        <5>1. named = {i \in DOMAIN cards : cards[i].name = c.name}
          OBVIOUS
        <5> HIDE DEF named, cards
        <5> QED BY <1>3, <4>1, <5>1, NamedCard
      <4> HIDE DEF named
      <4>3. Max(named) = Len(cards)
        BY <1>3, <4>2
      <4>4. cards[Len(cards)].status = "running"
        BY <3>2 DEF Calling, Last
      <4> QED BY <4>1, <4>3, <4>4
    <3> QED BY <3>1, <3>2
  <2>2. Calling(a) => Max(named) = Len(cards)
    <3> SUFFICES ASSUME Calling(a) PROVE Max(named) = Len(cards)
      OBVIOUS
    <3>1. Len(cards) \in named
      BY <1>3, <1>4, LenProperties
    <3>2. Max(named) \in 1..Len(cards) /\ Len(cards) <= Max(named)
      <4>1. named = {i \in DOMAIN cards : cards[i].name = c.name}
        OBVIOUS
      <4> HIDE DEF named, cards
      <4> QED BY <1>3, <3>1, <4>1, NamedCard
    <3> HIDE DEF named
    <3> QED BY <1>3, <3>2
  <2>3. tool(s, b, c) = [s EXCEPT !.messages[b].tools =
                           IF named # {} /\ cards[Max(named)].status = "running"
                           THEN [cards EXCEPT ![Max(named)] = c] ELSE Append(cards, c)]
    BY <1>2 DEF tool
  <2> HIDE DEF named, cards
  <2> QED BY <1>4, <2>1, <2>2, <2>3
<1>5. \/ /\ e.event = "tool" /\ Calling(a) /\ e.card \in Cards
         /\ cards # <<>> /\ Len(cards) \in 1..Len(cards)
         /\ e.card.name = cards[Len(cards)].name
      \/ /\ e.event = "tool" /\ ~Calling(a) /\ e.card \in Cards
      \/ /\ e.event = "token" /\ ~Calling(a) /\ e.text = <<r, Len(a.text) + 1>> /\ e.text \in Fragments
  BY NextIs
<1>6. CASE e.event = "tool"
  <2> DEFINE now == IF Calling(a) THEN [cards EXCEPT ![Len(cards)] = e.card] ELSE Append(cards, e.card)
  <2>1. tool(s, b, e.card) = [s EXCEPT !.messages[b].tools = now]
    <3> DEFINE c == e.card
    <3>1. c \in Cards /\ (Calling(a) => cards # <<>> /\ Len(cards) \in 1..Len(cards) /\ c.name = cards[Len(cards)].name)
      BY <1>5, <1>6
    <3>2. now = IF Calling(a) THEN [cards EXCEPT ![Len(cards)] = c] ELSE Append(cards, c)
      OBVIOUS
    <3>3. e.card = c
      OBVIOUS
    <3> HIDE DEF c, now, cards
    <3>4. tool(s, b, c) = [s EXCEPT !.messages[b].tools = now]
      BY <1>4, <1>6, <3>1, <3>2, <3>3
    <3> QED BY <3>3, <3>4
  <2>2. handle(s, b, e) = tool(s, b, e.card)
    BY <1>6 DEF handle
  <2>3. AnswerIn(handle(s, b, e), b) = [text |-> m.parts, cards |-> now]
    <3> HIDE DEF now
    <3> QED BY <1>1, <2>1, <2>2, SMTT(20) DEF AnswerIn, ChatStates, Bubbles
  <2>4. Extend(a, e) = [a EXCEPT !.cards = now]
    BY <1>6 DEF Extend
  <2> HIDE DEF now
  <2> QED BY <1>2, <2>3, <2>4
<1>7. CASE e.event = "token"
  <2> DEFINE now == Append(m.parts, e.text)
  <2>1. handle(s, b, e) = [s EXCEPT !.messages[b].parts = now]
    BY <1>7 DEF handle, token, appendText
  <2>2. Extend(a, e) = [a EXCEPT !.text = now]
    BY <1>2, <1>7 DEF Extend
  <2> HIDE DEF now
  <2>3. AnswerIn(handle(s, b, e), b) = [text |-> now, cards |-> m.tools]
    BY <1>1, <2>1, SMTT(20) DEF AnswerIn, ChatStates, Bubbles
  <2> QED BY <1>2, <2>2, <2>3
<1> QED BY <1>5, <1>6, <1>7

LEMMA CountIs ==
  ASSUME NEW a, Len(a.text) \in Nat, Len(a.cards) \in Nat
  PROVE  /\ Calling(a) => Count(a) = Len(a.text) + 2 * Len(a.cards) - 1
         /\ ~Calling(a) => Count(a) = Len(a.text) + 2 * Len(a.cards)
<1>1. CASE Calling(a)
  BY <1>1 DEF Count
<1>2. CASE ~Calling(a)
  <2> DEFINE x == Len(a.text) + 2 * Len(a.cards)
  <2>1. Count(a) = x - 0
    BY <1>2 DEF Count
  <2>2. x \in Nat
    <3> DEFINE n == Len(a.text)
               k == Len(a.cards)
    <3>1. n \in Nat /\ k \in Nat
      OBVIOUS
    <3> HIDE DEF n, k
    <3>2. n + 2 * k \in Nat
      BY <3>1
    <3> QED BY <3>2 DEF n, k
  <2> HIDE DEF x
  <2>3. Count(a) = x
    BY <2>1, <2>2
  <2> QED BY <1>2, <2>3 DEF x
<1> QED BY <1>1, <1>2

LEMMA ExtendIs ==
  ASSUME NEW r \in Runs, NEW a, AnswerOf(r, a), NEW e \in NextEvents(r, a), Count(a) < MaxEvents
  PROVE  AnswerOf(r, Extend(a, e))
<1> DEFINE n == Len(a.text)
           k == Len(a.cards)
<1>1. a \in Answers /\ a.text \in Seq(Fragments) /\ a.cards \in Seq(Cards) /\ n \in Nat /\ k \in Nat
  BY LenProperties DEF AnswerOf, Answers
<1>2. MaxEvents \in Nat
  BY AssistantAssumption
<1>3. CASE e.event = "token" /\ ~Calling(a)
  <2> DEFINE now == Append(a.text, e.text)
             x == Extend(a, e)
  <2>1. e.text = <<r, n + 1>> /\ e.text \in Fragments
    BY <1>3, NextIs
  <2>2. now \in Seq(Fragments) /\ Len(now) = n + 1 /\ \A i \in 1..n + 1 : now[i] = IF i <= n THEN a.text[i] ELSE e.text
    BY <1>1, <2>1
  <2>3. x = [a EXCEPT !.text = now]
    BY <1>3 DEF Extend
  <2> HIDE DEF now, x
  <2>4. x \in Answers /\ x.text = now /\ x.cards = a.cards
    BY <1>1, <2>2, <2>3 DEF Answers
  <2>5. ~Calling(x)
    BY <1>3, <2>4 DEF Calling
  <2>6. Count(x) <= MaxEvents
    <3>1. Count(a) = n + 2 * k
      BY <1>1, <1>3, CountIs
    <3>2. Count(x) = n + 1 + 2 * k
      <4>1. Len(x.text) = n + 1 /\ Len(x.cards) = k /\ Len(x.text) \in Nat /\ Len(x.cards) \in Nat
        BY <1>1, <2>2, <2>4
      <4> QED BY <2>5, <4>1, CountIs
    <3>3. n + 2 * k < MaxEvents
      BY <3>1
    <3>4. n + 1 + 2 * k <= MaxEvents
      <4>1. n \in Nat /\ k \in Nat
        BY <1>1
      <4> HIDE DEF n, k
      <4> QED BY <1>2, <3>3, <4>1
    <3> QED BY <3>2, <3>4
  <2>7. \A i \in 1..Len(x.text) : x.text[i] = <<r, i>>
    BY <1>1, <2>1, <2>2, <2>4 DEF AnswerOf
  <2>9. AnswerOf(r, x)
    BY <2>4, <2>6, <2>7 DEF AnswerOf
  <2> QED BY <2>9 DEF x
<1>4. CASE e.event = "tool" /\ ~Calling(a)
  <2> DEFINE now == Append(a.cards, e.card)
             x == Extend(a, e)
  <2>1. e.card \in Cards /\ e.card.status = "running"
    BY <1>4, NextIs
  <2>2. now \in Seq(Cards) /\ Len(now) = k + 1 /\ now # <<>>
        /\ \A i \in 1..k + 1 : now[i] = IF i <= k THEN a.cards[i] ELSE e.card
    <3>1. /\ now \in Seq(Cards) /\ Len(now) = k + 1
          /\ \A i \in 1..k + 1 : now[i] = IF i <= k THEN a.cards[i] ELSE e.card
      BY <1>1, <2>1
    <3> HIDE DEF now
    <3>2. now # <<>>
      BY <1>1, <3>1
    <3> QED BY <3>1, <3>2
  <2>3. x = [a EXCEPT !.cards = now]
    BY <1>4 DEF Extend
  <2> HIDE DEF now, x
  <2>4. x \in Answers /\ x.text = a.text /\ x.cards = now
    BY <1>1, <2>2, <2>3 DEF Answers
  <2>5. now[k + 1] = e.card
    BY <1>1, <2>2
  <2>6. Calling(x)
    BY <1>1, <2>1, <2>2, <2>4, <2>5 DEF Calling, Last
  <2>7. Count(x) <= MaxEvents
    <3>1. Count(a) = n + 2 * k
      BY <1>1, <1>4, CountIs
    <3>2. Count(x) = n + 2 * (k + 1) - 1
      <4>1. Len(x.text) = n /\ Len(x.cards) = k + 1 /\ Len(x.text) \in Nat /\ Len(x.cards) \in Nat
        BY <1>1, <2>2, <2>4
      <4> QED BY <2>6, <4>1, CountIs
    <3>3. n + 2 * k < MaxEvents
      BY <3>1
    <3>4. n + 2 * (k + 1) - 1 <= MaxEvents
      <4>1. n \in Nat /\ k \in Nat
        BY <1>1
      <4> HIDE DEF n, k
      <4> QED BY <1>2, <3>3, <4>1
    <3> QED BY <3>2, <3>4
  <2>8. ASSUME NEW i \in 1..Len(x.cards), i < Len(x.cards) PROVE x.cards[i].status = "completed"
    <3>1. i \in 1..k
      BY <1>1, <2>2, <2>4, <2>8
    <3>2. x.cards[i] = a.cards[i]
      BY <1>1, <2>2, <2>4, <3>1
    <3>3. a.cards[i] \in Cards
      BY <1>1, <3>1, ElementOfSeq
    <3>4. CASE i < k
      BY <3>1, <3>2, <3>4 DEF AnswerOf
    <3>5. CASE i = k
      <4>1. a.cards # <<>>
        BY <1>1, <3>1, <3>5
      <4>2. a.cards[k].status # "running"
        BY <1>4, <4>1 DEF Calling, Last
      <4> QED BY <3>2, <3>3, <3>5, <4>2 DEF Cards
    <3> QED BY <1>1, <3>1, <3>4, <3>5
  <2>9. AnswerOf(r, x)
    BY <2>4, <2>7, <2>8 DEF AnswerOf
  <2> QED BY <2>9 DEF x
<1>5. CASE e.event = "tool" /\ Calling(a)
  <2> DEFINE now == [a.cards EXCEPT ![k] = e.card]
             x == Extend(a, e)
  <2>1. e.card \in Cards /\ e.card.status = "completed" /\ k \in 1..k /\ a.cards # <<>>
    BY <1>5, NextIs
  <2>2. now \in Seq(Cards) /\ Len(now) = k
        /\ \A i \in 1..k : now[i] = IF i = k THEN e.card ELSE a.cards[i]
    BY <1>1, <2>1, ExceptSeq
  <2>3. x = [a EXCEPT !.cards = now]
    BY <1>5 DEF Extend
  <2> HIDE DEF now, x
  <2>4. x \in Answers /\ x.text = a.text /\ x.cards = now
    BY <1>1, <2>2, <2>3 DEF Answers
  <2>5. ~Calling(x)
    BY <2>1, <2>2, <2>4 DEF Calling, Last
  <2>6. Count(x) <= MaxEvents
    <3>1. Count(a) = n + 2 * k - 1
      BY <1>1, <1>5, CountIs
    <3>2. Count(x) = n + 2 * k
      <4>1. Len(x.text) = n /\ Len(x.cards) = k /\ Len(x.text) \in Nat /\ Len(x.cards) \in Nat
        BY <1>1, <2>2, <2>4
      <4> QED BY <2>5, <4>1, CountIs
    <3>3. n + 2 * k - 1 < MaxEvents
      BY <3>1
    <3>4. n + 2 * k <= MaxEvents
      <4>1. n \in Nat /\ k \in Nat
        BY <1>1
      <4> HIDE DEF n, k
      <4> QED BY <1>2, <3>3, <4>1
    <3> QED BY <3>2, <3>4
  <2>7. \A i \in 1..Len(x.cards) : i < Len(x.cards) => x.cards[i].status = "completed"
    BY <1>1, <2>1, <2>2, <2>4 DEF AnswerOf
  <2>9. AnswerOf(r, x)
    BY <2>4, <2>6, <2>7 DEF AnswerOf
  <2> QED BY <2>9 DEF x
<1>6. \/ e.event = "token" /\ ~Calling(a)
      \/ e.event = "tool" /\ ~Calling(a)
      \/ e.event = "tool" /\ Calling(a)
  BY NextIs
<1> QED BY <1>3, <1>4, <1>5, <1>6

-----------------------------------------------------------------------------
(* A chunk is as good as its events.                                       *)

LEMMA FirstFrames ==
  ASSUME NEW events \in Seq(Events), NEW text \in Seq(Pieces), Framed(text, events),
         NEW m \in 0..Len(events)
  PROVE  /\ Len(FramesOf(text, m)) = 3 * m /\ DOMAIN FramesOf(text, m) = 1..3 * m /\ m \in Nat
         /\ \A k \in 1..m :
              /\ FramesOf(text, m)[3 * k - 2] # LineEnd /\ FramesOf(text, m)[3 * k - 2][2] = events[k]
              /\ FramesOf(text, m)[3 * k - 1] = LineEnd /\ FramesOf(text, m)[3 * k] = LineEnd
<1> DEFINE frames == FramesOf(text, m)
<1>1. Len(events) \in Nat /\ m \in Nat /\ m <= Len(events) /\ Len(text) = 3 * Len(events)
  BY DEF Framed
<1>2. /\ frames \in Seq(Pieces) /\ Len(frames) = 3 * m
      /\ \A i \in 1..3 * m : frames[i] = text[i]
  BY <1>1 DEF FramesOf
<1> HIDE DEF frames
<1>3. DOMAIN frames = 1..3 * m
  BY <1>2, LenProperties
<1>4. ASSUME NEW k \in 1..m
      PROVE  /\ frames[3 * k - 2] # LineEnd /\ frames[3 * k - 2][2] = events[k]
             /\ frames[3 * k - 1] = LineEnd /\ frames[3 * k] = LineEnd
  <2>1. /\ k \in 1..Len(events)
        /\ 3 * k - 2 \in 1..3 * m /\ 3 * k - 1 \in 1..3 * m /\ 3 * k \in 1..3 * m
    BY <1>1
  <2>2. text[3 * k - 2] = Lines(events[k]) /\ text[3 * k - 1] = LineEnd /\ text[3 * k] = LineEnd
    BY <2>1 DEF Framed
  <2>3. frames[3 * k - 2] = Lines(events[k]) /\ frames[3 * k - 1] = LineEnd /\ frames[3 * k] = LineEnd
    BY <1>2, <2>1, <2>2
  <2> QED BY <2>3, LinesAre
<1> QED BY <1>1, <1>2, <1>3, <1>4 DEF frames

LEMMA HandledFrames ==
  ASSUME NEW events \in Seq(Events), NEW text \in Seq(Pieces), Framed(text, events),
         NEW m \in 0..Len(events),
         NEW s, NEW b
  PROVE  \E at : /\ at[0] = s /\ at[m] = handleEach(s, b, FramesOf(text, m))
                 /\ \A k \in 1..m : at[k] = handle(at[k - 1], b, events[k])
<1> DEFINE frames == FramesOf(text, m)
<1>1. /\ Len(frames) = 3 * m /\ m \in Nat
      /\ \A k \in 1..m :
           /\ frames[3 * k - 2] # LineEnd /\ frames[3 * k - 2][2] = events[k]
           /\ frames[3 * k - 1] = LineEnd /\ frames[3 * k] = LineEnd
  BY FirstFrames
<1> HIDE DEF frames
<1>2. PICK after :
        /\ after[0] = s
        /\ \A i \in 1..3 * m :
             after[i] = IF frames[i] = LineEnd THEN after[i - 1] ELSE handle(after[i - 1], b, frames[i][2])
        /\ handleEach(s, b, frames) = after[3 * m]
  <2>1. Len(frames) \in Nat
    BY <1>1
  <2>2. \E after :
           /\ after[0] = s
           /\ \A i \in 1..Len(frames) :
                after[i] = IF frames[i] = LineEnd THEN after[i - 1]
                           ELSE handle(after[i - 1], b, frames[i][2])
           /\ handleEach(s, b, frames) = after[Len(frames)]
    BY <2>1, HandledEach
  <2> QED BY <1>1, <2>2
<1> DEFINE at == [k \in 0..m |-> after[3 * k]]
<1>3. at[0] = s /\ at[m] = handleEach(s, b, frames)
  BY <1>1, <1>2
<1>4. ASSUME NEW k \in 1..m PROVE at[k] = handle(at[k - 1], b, events[k])
  <2>1. at[k] = after[3 * k] /\ at[k - 1] = after[3 * (k - 1)]
    BY <1>1
  <2>2. /\ 3 * k \in 1..3 * m /\ 3 * k - 1 \in 1..3 * m /\ 3 * k - 2 \in 1..3 * m
        /\ (3 * k - 1) - 1 = 3 * k - 2 /\ (3 * k - 2) - 1 = 3 * (k - 1)
    BY <1>1
  <2>3. after[3 * k] = after[3 * k - 1]
    <3>1. frames[3 * k] = LineEnd
      BY <1>1
    <3> QED BY <1>2, <2>2, <3>1
  <2>4. after[3 * k - 1] = after[3 * k - 2]
    <3>1. frames[3 * k - 1] = LineEnd
      BY <1>1
    <3>2. PICK i : i = 3 * k - 1 /\ i \in 1..3 * m /\ i - 1 = 3 * k - 2
      BY <2>2
    <3>3. after[i] = after[i - 1]
      BY <1>2, <3>1, <3>2
    <3> QED BY <3>2, <3>3
  <2>5. after[3 * k - 2] = handle(after[3 * (k - 1)], b, events[k])
    <3>1. frames[3 * k - 2] # LineEnd /\ frames[3 * k - 2][2] = events[k]
      BY <1>1
    <3>2. PICK i : i = 3 * k - 2 /\ i \in 1..3 * m /\ i - 1 = 3 * (k - 1)
      BY <2>2
    <3>3. after[i] = handle(after[i - 1], b, events[k])
      BY <1>2, <3>1, <3>2
    <3> QED BY <3>2, <3>3
  <2> HIDE DEF at
  <2> QED BY <2>1, <2>3, <2>4, <2>5
<1> HIDE DEF at
<1> QED BY <1>3, <1>4 DEF frames

\* at[k] is the state after the first k events.
Handles(at, s, b, events, m) ==
    at[0] = s /\ \A k \in 1..m : at[k] = handle(at[k - 1], b, events[k])

\* No other bubble changes.
Touches(s, b, t) ==
    /\ t \in ChatStates /\ Len(t.messages) = Len(s.messages)
    /\ \A x \in 1..Len(s.messages) : x # b => t.messages[x] = s.messages[x]

\* The bubble shows what it was led to after k events.
ShowsAt(s, b, events, t, k) ==
    \A r \in Runs : \A shows, to :
        Leads(r, AnswerIn(s, b), events, shows, to) => AnswerIn(t, b) = shows[k]

\* Events that do not conclude leave the status and the conversation alone
\* and show what the server meant; no event touches another bubble.
LEMMA HandledInOrder ==
  ASSUME NEW events \in Seq(Events), NEW m \in 0..Len(events),
         NEW s \in ChatStates, NEW b \in 1..Len(s.messages),
         NEW at, Handles(at, s, b, events, m)
  PROVE  \A k \in 0..m :
           /\ Touches(s, b, at[k])
           /\ (\A j \in 1..k : ~Final(events[j])) =>
                /\ at[k].conversationId = s.conversationId
                /\ at[k].messages[b].status = s.messages[b].status
                /\ ShowsAt(s, b, events, at[k], k)
<1> DEFINE Typed(k) == at[k] \in ChatStates /\ Len(at[k].messages) = Len(s.messages)
           Others(k) == \A x \in 1..Len(s.messages) : x # b => at[k].messages[x] = s.messages[x]
           Same(k) == /\ at[k].conversationId = s.conversationId
                      /\ at[k].messages[b].status = s.messages[b].status
           Shows(k) == \A r \in Runs : \A shows, to :
                         Leads(r, AnswerIn(s, b), events, shows, to) => AnswerIn(at[k], b) = shows[k]
           Quiet(k) == \A j \in 1..k : ~Final(events[j])
           Good == {k \in 0..m : Typed(k) /\ Others(k) /\ (Quiet(k) => Same(k) /\ Shows(k))}
<1>1. m \in Nat /\ Len(events) \in Nat /\ m <= Len(events)
  BY LenProperties
<1> USE DEF Handles
<1>2. 0 \in Good
  <2>1. Typed(0) /\ Others(0) /\ Same(0)
    OBVIOUS
  <2>2. Shows(0)
    BY DEF Leads
  <2> HIDE DEF Typed, Others, Same, Shows, Quiet
  <2> QED BY <1>1, <2>1, <2>2
<1>3. ASSUME NEW k \in 0..m, k \in Good, k < m PROVE k + 1 \in Good
  <2>1. k + 1 \in 1..m /\ (k + 1) - 1 = k /\ k + 1 \in 0..m /\ k + 1 \in 1..Len(events) /\ k \in Nat
    BY <1>1, <1>3
  <2>2. Typed(k) /\ Others(k) /\ (Quiet(k) => Same(k) /\ Shows(k))
    <3> HIDE DEF Typed, Others, Same, Shows, Quiet
    <3> QED BY <1>3
  <2> DEFINE e == events[k + 1]
  <2>3. e \in Events
    BY <2>1, ElementOfSeq
  <2>4. at[k + 1] = handle(at[k], b, e)
    BY <2>1
  <2>5. at[k] \in ChatStates /\ b \in 1..Len(at[k].messages)
    BY <2>2
  <2> HIDE DEF e
  <2>6. /\ at[k + 1] \in ChatStates
        /\ Len(at[k + 1].messages) = Len(at[k].messages)
        /\ \A x \in 1..Len(at[k].messages) : x # b => at[k + 1].messages[x] = at[k].messages[x]
        /\ e.event # "done" => at[k + 1].conversationId = at[k].conversationId
        /\ ~Final(e) => at[k + 1].messages[b].status = at[k].messages[b].status
    <3> DEFINE y == at[k]
               z == at[k + 1]
    <3>1. y \in ChatStates /\ b \in 1..Len(y.messages) /\ z = handle(y, b, e)
      BY <2>4, <2>5
    <3> HIDE DEF y, z
    <3>2. /\ handle(y, b, e) \in ChatStates
          /\ Len(handle(y, b, e).messages) = Len(y.messages)
          /\ \A x \in 1..Len(y.messages) : x # b => handle(y, b, e).messages[x] = y.messages[x]
          /\ e.event # "done" => handle(y, b, e).conversationId = y.conversationId
          /\ ~Final(e) => handle(y, b, e).messages[b].status = y.messages[b].status
      BY <2>3, <3>1, HandleTyped
    <3>3. /\ z \in ChatStates
          /\ Len(z.messages) = Len(y.messages)
          /\ \A x \in 1..Len(y.messages) : x # b => z.messages[x] = y.messages[x]
          /\ e.event # "done" => z.conversationId = y.conversationId
          /\ ~Final(e) => z.messages[b].status = y.messages[b].status
      BY <3>1, <3>2
    <3> QED BY <3>3 DEF y, z
  <2>7. Typed(k + 1)
    BY <2>2, <2>6
  <2>8. Others(k + 1)
    BY <2>2, <2>6
  <2>9. ASSUME Quiet(k + 1) PROVE Same(k + 1) /\ Shows(k + 1)
    <3>1. ~Final(e) /\ Quiet(k)
      <4>1. k + 1 \in 1..k + 1 /\ \A j \in 1..k : j \in 1..k + 1
        BY <2>1
      <4> QED BY <2>9, <4>1 DEF e
    <3>2. Same(k) /\ Shows(k)
      <4> HIDE DEF Same, Shows, Quiet
      <4> QED BY <2>2, <3>1
    <3>3. e.event # "done"
      BY <3>1 DEF Final
    <3>4. Same(k + 1)
      BY <2>6, <3>1, <3>2, <3>3
    <3>5. ASSUME NEW r \in Runs, NEW shows, NEW to, Leads(r, AnswerIn(s, b), events, shows, to)
          PROVE  AnswerIn(at[k + 1], b) = shows[k + 1]
      <4>1. AnswerIn(at[k], b) = shows[k]
        BY <3>2, <3>5
      <4>2. AnswerOf(r, shows[k])
        BY <1>1, <2>1, <3>5 DEF Leads
      <4>3. e \in NextEvents(r, shows[k]) /\ shows[k + 1] = Extend(shows[k], e)
        <5>1. IF Final(e) THEN shows[k + 1] = shows[(k + 1) - 1]
              ELSE /\ e \in NextEvents(r, shows[(k + 1) - 1])
                   /\ shows[k + 1] = Extend(shows[(k + 1) - 1], e)
          BY <2>1, <3>5 DEF Leads, e
        <5> QED BY <2>1, <3>1, <5>1
      <4>4. AnswerIn(handle(at[k], b, e), b) = Extend(shows[k], e)
        BY <2>5, <4>1, <4>2, <4>3, ExtendShown
      <4> QED BY <2>4, <4>3, <4>4
    <3> HIDE DEF Same
    <3> QED BY <3>4, <3>5
  <2> HIDE DEF Typed, Others, Same, Shows, Quiet
  <2> QED BY <2>1, <2>7, <2>8, <2>9
<1>4. \A k \in 0..m : k \in Good
  <2> HIDE DEF Good
  <2> QED BY <1>1, <1>2, <1>3, UpTo
<1>5. \A k \in 0..m : Typed(k) /\ Others(k) /\ (Quiet(k) => Same(k) /\ Shows(k))
  <2> HIDE DEF Typed, Others, Same, Shows, Quiet
  <2> QED BY <1>4
<1>6. \A k \in 0..m : Touches(s, b, at[k])
  BY <1>5 DEF Touches
<1>7. \A k \in 0..m : Quiet(k) => Same(k) /\ ShowsAt(s, b, events, at[k], k)
  <2>1. \A k \in 0..m : Shows(k) => ShowsAt(s, b, events, at[k], k)
    BY Zenon DEF ShowsAt
  <2> HIDE DEF Typed, Others, Same, Shows, Quiet
  <2> QED BY <1>5, <2>1
<1> QED BY <1>6, <1>7

LastOnly(events) == \A k \in 1..Len(events) : Final(events[k]) => k = Len(events)
Concluded(events, m) == m > 0 /\ Final(events[m])

LEMMA ChunkHandled ==
  ASSUME NEW events \in Seq(Events), NEW text \in Seq(Pieces), Framed(text, events),
         NEW m \in 0..Len(events), LastOnly(events),
         NEW s \in ChatStates, NEW b \in 1..Len(s.messages),
         NEW c, handleEach(s, b, FramesOf(text, m)) = c
  PROVE  /\ Touches(s, b, c)
         /\ ~Concluded(events, m) => c.messages[b].status = s.messages[b].status
         /\ ~(m > 0 /\ events[m].event = "done") =>
              /\ c.conversationId = s.conversationId
              /\ ShowsAt(s, b, events, c, m)
         /\ m > 0 /\ events[m].event = "error" => c.messages[b].status = "error"
         /\ m > 0 /\ events[m].event = "done" =>
              /\ c.messages[b].status = "done"
              /\ AnswerIn(c, b) = [text |-> <<events[m].message>>, cards |-> events[m].tools]
              /\ c.conversationId = events[m].conversation_id
<1>1. m \in Nat /\ Len(events) \in Nat /\ m <= Len(events)
  BY LenProperties
<1>2. PICK at : at[m] = c /\ Handles(at, s, b, events, m)
  <2>1. \E at : /\ at[0] = s /\ at[m] = handleEach(s, b, FramesOf(text, m))
                /\ \A k \in 1..m : at[k] = handle(at[k - 1], b, events[k])
    BY HandledFrames
  <2> QED BY <2>1 DEF Handles
<1> DEFINE Quiet(k) == \A j \in 1..k : ~Final(events[j])
<1>3. \A k \in 0..m :
        /\ Touches(s, b, at[k])
        /\ Quiet(k) =>
             /\ at[k].conversationId = s.conversationId
             /\ at[k].messages[b].status = s.messages[b].status
             /\ ShowsAt(s, b, events, at[k], k)
  BY <1>2, HandledInOrder
<1>4. Touches(s, b, c)
  <2>1. m \in 0..m
    BY <1>1
  <2> QED BY <1>2, <1>3, <2>1
<1>5. ASSUME NEW j \in 1..m, Final(events[j]) PROVE j = m
  BY <1>1, <1>5 DEF LastOnly
<1>6. CASE ~Concluded(events, m)
  <2>1. Quiet(m)
    <3> SUFFICES ASSUME NEW j \in 1..m, Final(events[j]) PROVE FALSE
      OBVIOUS
    <3>1. j = m /\ m > 0
      BY <1>1, <1>5
    <3> QED BY <1>6, <3>1 DEF Concluded
  <2>2. /\ c.conversationId = s.conversationId
        /\ c.messages[b].status = s.messages[b].status
        /\ ShowsAt(s, b, events, c, m)
    <3>1. m \in 0..m
      BY <1>1
    <3> HIDE DEF Quiet
    <3> QED BY <1>2, <1>3, <2>1, <3>1
  <2>3. ~(m > 0 /\ events[m].event = "done") /\ ~(m > 0 /\ events[m].event = "error")
    BY <1>6 DEF Concluded, Final
  <2> QED BY <1>4, <1>6, <2>2, <2>3
<1>7. CASE Concluded(events, m)
  <2>1. m \in 1..m /\ m - 1 \in 0..m /\ m \in 1..Len(events) /\ m > 0
    BY <1>1, <1>7 DEF Concluded
  <2>2. Quiet(m - 1)
    <3> SUFFICES ASSUME NEW j \in 1..m - 1, Final(events[j]) PROVE FALSE
      OBVIOUS
    <3>1. j \in 1..m /\ j # m
      BY <1>1
    <3> QED BY <1>5, <3>1
  <2> DEFINE y == at[m - 1]
             e == events[m]
  <2>3. /\ y \in ChatStates /\ Len(y.messages) = Len(s.messages) /\ b \in 1..Len(y.messages)
        /\ y.conversationId = s.conversationId
        /\ ShowsAt(s, b, events, y, m - 1)
    <3>1. /\ Touches(s, b, y) /\ y.conversationId = s.conversationId
          /\ ShowsAt(s, b, events, y, m - 1)
      <4> HIDE DEF Quiet
      <4> QED BY <1>3, <2>1, <2>2
    <3> HIDE DEF y
    <3> QED BY <3>1 DEF Touches
  <2>4. e \in Events /\ c = handle(y, b, e)
    <3>1. e \in Events
      BY <2>1, ElementOfSeq
    <3>2. at[m] = handle(at[m - 1], b, events[m])
      BY <1>2, <2>1 DEF Handles
    <3> QED BY <1>2, <3>1, <3>2
  <2>5. e.event = "error" \/ e.event = "done"
    BY <1>7 DEF Concluded, Final
  <2> HIDE DEF y
  <2>6. /\ e.event # "done" => c.conversationId = y.conversationId
        /\ e.event = "error" => c.messages[b].status = "error" /\ AnswerIn(c, b) = AnswerIn(y, b)
        /\ e.event = "done" =>
             /\ c.messages[b].status = "done"
             /\ AnswerIn(c, b) = [text |-> <<e.message>>, cards |-> e.tools]
             /\ c.conversationId = e.conversation_id
    <3> HIDE DEF e
    <3>1. /\ e.event # "done" => handle(y, b, e).conversationId = y.conversationId
          /\ e.event = "error" =>
               /\ handle(y, b, e).messages[b].status = "error"
               /\ AnswerIn(handle(y, b, e), b) = AnswerIn(y, b)
          /\ e.event = "done" =>
               /\ handle(y, b, e).messages[b].status = "done"
               /\ AnswerIn(handle(y, b, e), b) = [text |-> <<e.message>>, cards |-> e.tools]
               /\ handle(y, b, e).conversationId = e.conversation_id
      BY <2>3, <2>4, HandleTyped
    <3> QED BY <2>4, <3>1
  <2>7. ASSUME e.event # "done", NEW r \in Runs, NEW shows, NEW to,
               Leads(r, AnswerIn(s, b), events, shows, to)
        PROVE  AnswerIn(c, b) = shows[m]
    <3>1. AnswerIn(c, b) = shows[m - 1]
      BY <2>3, <2>5, <2>6, <2>7 DEF ShowsAt
    <3>2. shows[m] = shows[m - 1]
      BY <1>7, <2>1, <2>7 DEF Leads, Concluded
    <3> QED BY <3>1, <3>2
  <2>8. e.event # "done" => c.conversationId = s.conversationId /\ ShowsAt(s, b, events, c, m)
    BY <2>3, <2>6, <2>7 DEF ShowsAt
  <2> QED BY <1>4, <1>7, <2>1, <2>6, <2>8
<1> QED BY <1>6, <1>7

\* The reader has concluded when the last event has.
LEMMA FinishedBy ==
  ASSUME NEW events \in Seq(Events), NEW text \in Seq(Pieces), Framed(text, events),
         NEW m \in 0..Len(events), LastOnly(events)
  PROVE  (\E i \in DOMAIN FramesOf(text, m) :
            /\ FramesOf(text, m)[i] # LineEnd
            /\ FramesOf(text, m)[i][2].event \in {"done", "error"}) <=> Concluded(events, m)
<1> DEFINE frames == FramesOf(text, m)
<1>1. /\ Len(frames) = 3 * m /\ DOMAIN frames = 1..3 * m /\ m \in Nat
      /\ \A k \in 1..m :
           /\ frames[3 * k - 2] # LineEnd /\ frames[3 * k - 2][2] = events[k]
           /\ frames[3 * k - 1] = LineEnd /\ frames[3 * k] = LineEnd
  BY FirstFrames
<1> HIDE DEF frames
<1>2. Len(events) \in Nat /\ m <= Len(events)
  BY LenProperties
<1>3. ASSUME NEW i \in DOMAIN frames, frames[i] # LineEnd, frames[i][2].event \in {"done", "error"}
      PROVE  Concluded(events, m)
  <2>1. i \in 1..3 * m
    BY <1>1
  <2> DEFINE q == (i + 2) \div 3
  <2>2. q \in Nat /\ 3 * q <= i + 2 /\ i < 3 * q + 1
    BY <1>1, <2>1
  <2>3. PICK k \in 1..m : i \in {3 * k - 2, 3 * k - 1, 3 * k}
    <3> HIDE DEF q
    <3>1. m \in Nat /\ i \in Nat /\ 1 <= i /\ i <= 3 * m
      BY <1>1, <2>1
    <3>2. q \in 1..m
      BY <2>2, <3>1
    <3>3. i = 3 * q - 2 \/ i = 3 * q - 1 \/ i = 3 * q
      <4>1. \A n, k \in Nat : 3 * k <= n + 2 /\ n < 3 * k + 1 => n = 3 * k - 2 \/ n = 3 * k - 1 \/ n = 3 * k
        OBVIOUS
      <4> QED BY <2>2, <3>1, <4>1
    <3> QED BY <3>2, <3>3
  <2>4. i = 3 * k - 2
    BY <1>1, <1>3, <2>3
  <2>5. Final(events[k])
    BY <1>1, <1>3, <2>4 DEF Final
  <2>6. k = Len(events)
    BY <1>1, <1>2, <2>5 DEF LastOnly
  <2>7. k = m /\ m > 0
    BY <1>1, <1>2, <2>6
  <2> QED BY <2>5, <2>7 DEF Concluded
<1>4. ASSUME Concluded(events, m)
      PROVE  \E i \in DOMAIN frames : frames[i] # LineEnd /\ frames[i][2].event \in {"done", "error"}
  <2>1. m \in 1..m /\ 3 * m - 2 \in DOMAIN frames
    BY <1>1, <1>4 DEF Concluded
  <2>2. frames[3 * m - 2] # LineEnd /\ frames[3 * m - 2][2] = events[m]
    BY <1>1, <2>1
  <2>3. frames[3 * m - 2][2].event \in {"done", "error"}
    BY <1>4, <2>2 DEF Concluded, Final
  <2> QED BY <2>1, <2>2, <2>3
<1> QED BY <1>3, <1>4 DEF frames

-----------------------------------------------------------------------------
(* Errors and the settling of a bubble.                                    *)

LEMMA ErrorIs ==
  ASSUME NEW s \in ChatStates, NEW b \in 1..Len(s.messages)
  PROVE  /\ Touches(s, b, error(s, b))
         /\ error(s, b).conversationId = s.conversationId
         /\ error(s, b).messages[b].status = "error"
         /\ AnswerIn(error(s, b), b) = AnswerIn(s, b)
<1> DEFINE e == [event |-> "error"]
<1>1. e \in Events /\ e.event = "error" /\ e.event # "done"
  BY DEF Events
<1>2. handle(s, b, e) = error(s, b)
  BY DEF handle
<1> HIDE DEF e
<1>3. /\ handle(s, b, e) \in ChatStates
      /\ Len(handle(s, b, e).messages) = Len(s.messages)
      /\ \A x \in 1..Len(s.messages) : x # b => handle(s, b, e).messages[x] = s.messages[x]
      /\ handle(s, b, e).conversationId = s.conversationId
      /\ handle(s, b, e).messages[b].status = "error"
      /\ AnswerIn(handle(s, b, e), b) = AnswerIn(s, b)
  BY <1>1, HandleTyped
<1> QED BY <1>2, <1>3 DEF Touches

LEMMA SettledIs ==
  ASSUME NEW s \in ChatStates, NEW b \in 1..Len(s.messages)
  PROVE  /\ Touches(s, b, settled(s, b))
         /\ settled(s, b).conversationId = s.conversationId
         /\ AnswerIn(settled(s, b), b) = AnswerIn(s, b)
         /\ s.messages[b].status # "streaming" => settled(s, b) = s
         /\ s.messages[b].status = "streaming" =>
              settled(s, b).messages[b].status = IF s.messages[b].parts # <<>> THEN "done" ELSE "error"
<1>1. s.messages \in Seq(Bubbles) /\ s.messages[b] \in Bubbles
  BY ElementOfSeq DEF ChatStates
<1>2. CASE s.messages[b].status # "streaming"
  <2>1. settled(s, b) = s
    BY <1>2 DEF settled
  <2> QED BY <1>2, <2>1 DEF Touches
<1>3. CASE s.messages[b].status = "streaming"
  <2> DEFINE status == IF s.messages[b].parts # <<>> THEN "done" ELSE "error"
             m == [s.messages[b] EXCEPT !.status = status]
             c == s.conversationId
  <2>1. m \in Bubbles /\ m.status = status /\ m.parts = s.messages[b].parts /\ m.tools = s.messages[b].tools
    BY <1>1 DEF Bubbles
  <2>2. settled(s, b) = Put(s, b, m, c)
    <3>1. settled(s, b) = [s EXCEPT !.messages[b].status = status]
      BY <1>3 DEF settled
    <3> HIDE DEF status
    <3> QED BY <3>1 DEF ChatStates, Put
  <2>3. c \in Runs \cup {None}
    BY DEF ChatStates
  <2> HIDE DEF m, c, status
  <2> DEFINE t == Put(s, b, m, c)
  <2>4. /\ t \in ChatStates
        /\ Len(t.messages) = Len(s.messages)
        /\ t.messages[b] = m
        /\ \A x \in 1..Len(s.messages) : x # b => t.messages[x] = s.messages[x]
        /\ t.conversationId = c
    BY <2>1, <2>3, Replaced
  <2>5. t = settled(s, b)
    BY <2>2
  <2> HIDE DEF t
  <2>6. Touches(s, b, t) /\ t.conversationId = s.conversationId /\ AnswerIn(t, b) = AnswerIn(s, b)
    BY <2>1, <2>4 DEF Touches, AnswerIn, c
  <2>7. t.messages[b].status = IF s.messages[b].parts # <<>> THEN "done" ELSE "error"
    BY <2>1, <2>4 DEF status
  <2> QED BY <1>3, <2>5, <2>6, <2>7
<1> QED BY <1>2, <1>3

-----------------------------------------------------------------------------
(* The invariant                                                           *)

LEMMA NothingIs ==
  /\ Nothing \in Answers /\ Nothing.text = <<>> /\ Nothing.cards = <<>>
  /\ \A r \in Runs : AnswerOf(r, Nothing)
<1>1. Nothing \in Answers /\ Nothing.text = <<>> /\ Nothing.cards = <<>>
  BY DEF Nothing, Answers
<1>2. Len(<<>>) = 0 /\ MaxEvents \in Nat
  BY AssistantAssumption
<1>3. ~Calling(Nothing)
  BY <1>1 DEF Calling
<1>4. Count(Nothing) = 0
  <2>1. /\ Len(Nothing.text) = 0 /\ Len(Nothing.cards) = 0
        /\ Len(Nothing.text) \in Nat /\ Len(Nothing.cards) \in Nat
    BY <1>1, <1>2
  <2>2. Count(Nothing) = Len(Nothing.text) + 2 * Len(Nothing.cards)
    BY <1>3, <2>1, CountIs, Zenon
  <2> QED BY <2>1, <2>2
<1> QED BY <1>1, <1>2, <1>4 DEF AnswerOf

\* No frame is under way.
LEMMA NoFrames ==
  /\ <<>> \in Seq(Events) /\ Len(<<>>) = 0
  /\ <<>> \o <<>> = <<>>
  /\ Framed(<<>>, <<>>)
  /\ \A r, a : AnswerOf(r, a) => Leads(r, a, <<>>, [k \in {0} |-> a], a)
<1>1. <<>> \in Seq(Events) /\ Len(<<>>) = 0
  OBVIOUS
<1>2. <<>> \o <<>> = <<>>
  OBVIOUS
<1>3. Framed(<<>>, <<>>)
  BY DEF Framed
<1>4. ASSUME NEW r, NEW a, AnswerOf(r, a) PROVE Leads(r, a, <<>>, [k \in {0} |-> a], a)
  BY <1>4 DEF Leads
<1> QED BY <1>1, <1>2, <1>3, <1>4

LEMMA InitIInv ==
  Init => IInv
<1> SUFFICES ASSUME Init PROVE IInv
  OBVIOUS
<1> USE DEF Init, None
<1>1. TypeInv
  <2>1. MaxExchanges \in Nat /\ MaxInFlight \in Nat
    BY AssistantAssumption
  <2>2. chat \in ChatStates /\ Len(chat.messages) <= MaxExchanges
    BY <2>1 DEF ChatStates, initialState
  <2>3. /\ phase \in [Runs -> {"unused", "paused", "fetching", "reading", "closed"}]
        /\ target \in [Runs -> 0..MaxExchanges]
        /\ request \in [Runs -> [message : 0..MaxExchanges, conversation_id : Runs \cup {None}]]
        /\ abortRef \in Runs \cup {None}
    BY <2>1
  <2>4. wire \in [Runs -> Seq(Pieces)] /\ buffer \in [Runs -> Seq(Pieces)]
    OBVIOUS
  <2>5. \A r \in Runs : Len(wire[r]) <= 3 * MaxInFlight /\ Len(buffer[r]) <= 2
    BY <2>1
  <2>6. /\ finished \in [Runs -> BOOLEAN]
        /\ server \in [Runs -> {"idle", "running", "ended"}]
        /\ sent \in [Runs -> Answers]
        /\ stored \subseteq Runs /\ stopped \subseteq Runs /\ overtaken \in BOOLEAN
    BY NothingIs
  <2> HIDE DEF Init
  <2> QED BY <2>2, <2>3, <2>4, <2>5, <2>6 DEF TypeInv
<1>2. ASSUME NEW r \in Runs PROVE RunInv(r) /\ StreamInv(r)
  <2>1. r \notin Open /\ sent[r] = Nothing /\ wire[r] = <<>> /\ buffer[r] = <<>>
    BY DEF Open
  <2>2. RunInv(r)
    BY <2>1, NothingIs DEF RunInv
  <2>3. Framed(Pending(r), <<>>)
    BY <2>1, NoFrames DEF Pending
  <2>4. Concludes(r, <<>>)
    BY NoFrames DEF Concludes
  <2> QED BY <2>1, <2>2, <2>3, <2>4, NoFrames DEF StreamInv
<1>3. SerialInv
  <2>1. Len(chat.messages) = 0 /\ Streaming(chat) = {} /\ Open = {}
    BY DEF initialState, Streaming, Open
  <2> QED BY <2>1 DEF SerialInv, OneRunEach, SameConversation, TrailsFit, DoneIsStored
<1> QED BY <1>1, <1>2, <1>3 DEF IInv

\* A run that a step leaves alone.
SameRun(r) ==
    /\ phase'[r] = phase[r] /\ target'[r] = target[r] /\ request'[r] = request[r]
    /\ wire'[r] = wire[r] /\ buffer'[r] = buffer[r] /\ finished'[r] = finished[r]
    /\ server'[r] = server[r] /\ sent'[r] = sent[r]
    /\ r \in stored' <=> r \in stored

LEMMA RunKept ==
  ASSUME NEW r \in Runs, RunInv(r), StreamInv(r), SameRun(r), overtaken => overtaken',
         Len(chat.messages) \in Nat, Len(chat'.messages) \in Nat,
         Len(chat.messages) <= Len(chat'.messages),
         r \in Open /\ ~finished[r] /\ ~overtaken' =>
           AnswerIn(chat', target[r]) = AnswerIn(chat, target[r])
  PROVE  RunInv(r)' /\ StreamInv(r)'
<1>1. (r \in Open)' <=> r \in Open
  BY DEF SameRun, Open
<1>2. RunInv(r)'
  BY <1>1 DEF RunInv, SameRun
<1>3. StreamInv(r)'
  <2>1. PICK events \in Seq(Events) :
          /\ Framed(Pending(r), events)
          /\ Concludes(r, events)
          /\ r \in Open /\ ~finished[r] /\ ~overtaken =>
               \E shows : Leads(r, AnswerIn(chat, target[r]), events, shows, sent[r])
    BY DEF StreamInv
  <2>2. Framed(Pending(r)', events)
    BY <2>1 DEF Pending, SameRun
  <2>3. Concludes(r, events)'
    BY <2>1 DEF Concludes, SameRun, ConversationOf
  <2>4. (r \in Open)' /\ ~finished'[r] /\ ~overtaken' =>
          \E shows : Leads(r, AnswerIn(chat', target'[r]), events, shows, sent'[r])
    <3> SUFFICES ASSUME (r \in Open)', ~finished'[r], ~overtaken'
                 PROVE  \E shows : Leads(r, AnswerIn(chat', target'[r]), events, shows, sent'[r])
      OBVIOUS
    <3>1. r \in Open /\ ~finished[r] /\ ~overtaken /\ target'[r] = target[r] /\ sent'[r] = sent[r]
      BY <1>1 DEF SameRun
    <3> QED BY <2>1, <3>1
  <2> QED BY <2>2, <2>3, <2>4 DEF StreamInv
<1> QED BY <1>2, <1>3

\* What the bubbles have to do with runs is as before.
LEMMA SerialKept ==
  ASSUME SerialInv, UNCHANGED <<chat, target, finished, request>>, Open' = Open,
         stored \subseteq stored', stopped \subseteq stopped'
  PROVE  SerialInv'
<1>1. OneRunEach'
  BY DEF SerialInv, OneRunEach
<1>2. SameConversation'
  BY DEF SerialInv, SameConversation
<1>3. TrailsFit'
  BY DEF SerialInv, TrailsFit
<1>4. ASSUME NEW parts, StoredOne(parts) PROVE StoredOne(parts)'
  BY <1>4 DEF StoredOne, ConversationOf
<1>5. ASSUME NEW parts, StoppedOne(parts) PROVE StoppedOne(parts)'
  BY <1>5 DEF StoppedOne
<1>6. DoneIsStored'
  <2> SUFFICES ASSUME NEW b \in 1..Len(chat.messages), chat.messages[b].status = "done"
               PROVE  StoredOne(chat.messages[b].parts)' \/ StoppedOne(chat.messages[b].parts)'
    BY DEF DoneIsStored
  <2> DEFINE parts == chat.messages[b].parts
  <2>1. StoredOne(parts) \/ StoppedOne(parts)
    BY DEF SerialInv, DoneIsStored
  <2>2. parts' = parts
    OBVIOUS
  <2> QED BY <1>4, <1>5, <2>1, <2>2 DEF StoredOne, StoppedOne
<1> QED BY <1>1, <1>2, <1>3, <1>6 DEF SerialInv

LEMMA ResumeKeeps ==
  ASSUME IInv, NEW r \in Runs, Resume(r)
  PROVE  IInv'
<1> USE DEF Resume, streamVars, serverVars
<1>1. TypeInv'
  BY DEF IInv, TypeInv
<1>2. Open' = Open
  BY DEF IInv, TypeInv, Open
<1>3. Len(chat.messages) \in Nat
  BY DEF IInv, TypeInv, ChatStates
<1>4. ASSUME NEW q \in Runs PROVE RunInv(q)' /\ StreamInv(q)'
  <2>1. RunInv(q) /\ StreamInv(q)
    BY DEF IInv
  <2>2. CASE q = r
    <3>1. RunInv(q)'
      BY <1>2, <2>1, <2>2 DEF RunInv, IInv, TypeInv
    <3>2. StreamInv(q)'
      BY <1>2, <2>1, <2>2 DEF StreamInv, Pending, Concludes, ConversationOf
    <3> QED BY <3>1, <3>2
  <2>3. CASE q # r
    <3>1. SameRun(q)
      BY <2>3 DEF SameRun, IInv, TypeInv
    <3> QED BY <1>3, <2>1, <3>1, RunKept
  <2> QED BY <2>2, <2>3
<1>5. ~overtaken => SerialInv'
  BY <1>2, SerialKept DEF IInv
<1> QED BY <1>1, <1>4, <1>5 DEF IInv

LEMMA ResponseOpensKeeps ==
  ASSUME IInv, NEW r \in Runs, ResponseOpens(r)
  PROVE  IInv'
<1> USE DEF ResponseOpens, streamVars, serverVars
<1>1. TypeInv'
  BY DEF IInv, TypeInv
<1>2. Open' = Open
  BY DEF IInv, TypeInv, Open
<1>3. Len(chat.messages) \in Nat
  BY DEF IInv, TypeInv, ChatStates
<1>4. ASSUME NEW q \in Runs PROVE RunInv(q)' /\ StreamInv(q)'
  <2>1. RunInv(q) /\ StreamInv(q)
    BY DEF IInv
  <2>2. CASE q = r
    <3>1. RunInv(q)'
      BY <1>2, <2>1, <2>2 DEF RunInv, IInv, TypeInv
    <3>2. StreamInv(q)'
      BY <1>2, <2>1, <2>2 DEF StreamInv, Pending, Concludes, ConversationOf
    <3> QED BY <3>1, <3>2
  <2>3. CASE q # r
    <3>1. SameRun(q)
      BY <2>3 DEF SameRun, IInv, TypeInv
    <3> QED BY <1>3, <2>1, <3>1, RunKept
  <2> QED BY <2>2, <2>3
<1>5. ~overtaken => SerialInv'
  BY <1>2, SerialKept DEF IInv
<1> QED BY <1>1, <1>4, <1>5 DEF IInv

LEMMA ReceiveKeeps ==
  ASSUME IInv, NEW r \in Runs, Receive(r)
  PROVE  IInv'
<1> USE DEF Receive, streamVars
<1>1. TypeInv'
  BY DEF IInv, TypeInv
<1>2. Open' = Open
  BY DEF Open
<1>3. Len(chat.messages) \in Nat
  BY DEF IInv, TypeInv, ChatStates
<1>4. ASSUME NEW q \in Runs PROVE RunInv(q)' /\ StreamInv(q)'
  <2>1. RunInv(q) /\ StreamInv(q)
    BY DEF IInv
  <2>2. CASE q = r
    <3>1. RunInv(q)'
      BY <1>2, <2>1, <2>2 DEF RunInv
    <3>2. PICK events \in Seq(Events) :
            /\ Framed(Pending(q), events)
            /\ Concludes(q, events)
            /\ q \in Open /\ ~finished[q] /\ ~overtaken =>
                 \E shows : Leads(q, AnswerIn(chat, target[q]), events, shows, sent[q])
      BY <2>1 DEF StreamInv
    <3>3. Concludes(q, events)'
      BY <2>2, <3>2 DEF Concludes, ConversationOf
    <3>4. Framed(Pending(q)', events)
      BY <3>2 DEF Pending
    <3>5. StreamInv(q)'
      BY <1>2, <3>2, <3>3, <3>4 DEF StreamInv
    <3> QED BY <3>1, <3>5
  <2>3. CASE q # r
    <3>1. SameRun(q)
      BY <2>3 DEF SameRun, IInv, TypeInv
    <3> QED BY <1>3, <2>1, <3>1, RunKept
  <2> QED BY <2>2, <2>3
<1>5. ~overtaken => SerialInv'
  BY <1>2, SerialKept DEF IInv
<1> QED BY <1>1, <1>4, <1>5 DEF IInv

-----------------------------------------------------------------------------
(* The server sends.                                                       *)

\* What an event the server sends means for its run.
Means(r, e) ==
    /\ e \in Events
    /\ Final(e) => server'[r] = "ended" /\ sent'[r] = sent[r]
    /\ ~Final(e) => /\ server'[r] = server[r] /\ Count(sent[r]) < MaxEvents
                    /\ e \in NextEvents(r, sent[r]) /\ sent'[r] = Extend(sent[r], e)
    /\ e.event = "done" => /\ r \in stored' /\ e.conversation_id = ConversationOf(r)
                           /\ e.message = <<r, 0>> /\ e.tools = sent[r].cards

\* An answer more for the bubble to show.
LEMMA LeadsMore ==
  ASSUME NEW r \in Runs, NEW events \in Seq(Events), NEW e \in Events, NEW from, NEW shows, NEW to, NEW next,
         Leads(r, from, events, shows, to),
         AnswerOf(r, next),
         Final(e) => next = to,
         ~Final(e) => e \in NextEvents(r, to) /\ next = Extend(to, e)
  PROVE  \E longer : Leads(r, from, Append(events, e), longer, next)
<1> DEFINE N == Len(events)
           more == Append(events, e)
           longer == [k \in 0..N + 1 |-> IF k = N + 1 THEN next ELSE shows[k]]
<1>1. N \in Nat /\ Len(more) = N + 1 /\ more[N + 1] = e /\ \A k \in 1..N : more[k] = events[k]
  BY LenProperties
<1>2. shows[0] = from /\ shows[N] = to /\ \A k \in 0..N : AnswerOf(r, shows[k])
  BY DEF Leads
<1>3. /\ longer[0] = from /\ longer[N + 1] = next /\ longer[N] = to
      /\ \A k \in 0..N : longer[k] = shows[k]
  BY <1>1, <1>2
<1> HIDE DEF longer
<1>4. \A k \in 0..N + 1 : AnswerOf(r, longer[k])
  <2> SUFFICES ASSUME NEW k \in 0..N + 1 PROVE AnswerOf(r, longer[k])
    OBVIOUS
  <2>1. k = N + 1 \/ k \in 0..N
    BY <1>1
  <2> QED BY <1>2, <1>3, <2>1
<1>5. ASSUME NEW k \in 1..N + 1
      PROVE  IF Final(more[k]) THEN longer[k] = longer[k - 1]
             ELSE more[k] \in NextEvents(r, longer[k - 1]) /\ longer[k] = Extend(longer[k - 1], more[k])
  <2>1. CASE k = N + 1
    <3>1. more[k] = e /\ longer[k] = next /\ longer[k - 1] = to
      BY <1>1, <1>3, <2>1
    <3> HIDE DEF more
    <3> QED BY <3>1
  <2>2. CASE k # N + 1
    <3>1. k \in 1..N /\ k \in 0..N /\ k - 1 \in 0..N
      BY <1>1, <2>2
    <3>2. more[k] = events[k] /\ longer[k] = shows[k] /\ longer[k - 1] = shows[k - 1]
      BY <1>1, <1>3, <3>1
    <3>3. IF Final(events[k]) THEN shows[k] = shows[k - 1]
          ELSE events[k] \in NextEvents(r, shows[k - 1]) /\ shows[k] = Extend(shows[k - 1], events[k])
      BY <3>1 DEF Leads
    <3> HIDE DEF more
    <3> QED BY <3>2, <3>3
  <2> QED BY <2>1, <2>2
<1> HIDE DEF more
<1>6. Leads(r, from, more, longer, next)
  BY <1>1, <1>3, <1>4, <1>5 DEF Leads
<1> QED BY <1>6 DEF more

LEMMA FrameIs ==
  ASSUME NEW e \in Events
  PROVE  Frame(e) \in Seq(Pieces) /\ Len(Frame(e)) = 3
BY DEF Frame, Pieces

LEMMA Associative ==
  ASSUME NEW a \in Seq(Pieces), NEW b \in Seq(Pieces), NEW c \in Seq(Pieces)
  PROVE  a \o (b \o c) = (a \o b) \o c
<1> DEFINE ab == a \o b
           bc == b \o c
<1>0. Len(a) \in Nat /\ Len(b) \in Nat /\ Len(c) \in Nat
  BY LenProperties
<1>1. /\ ab \in Seq(Pieces) /\ Len(ab) = Len(a) + Len(b)
      /\ \A i \in 1..Len(a) + Len(b) : ab[i] = IF i <= Len(a) THEN a[i] ELSE b[i - Len(a)]
  BY ConcatProperties
<1>2. /\ bc \in Seq(Pieces) /\ Len(bc) = Len(b) + Len(c)
      /\ \A i \in 1..Len(b) + Len(c) : bc[i] = IF i <= Len(b) THEN b[i] ELSE c[i - Len(b)]
  BY ConcatProperties
<1>8. ab \in Seq(Pieces) /\ bc \in Seq(Pieces)
  BY <1>1, <1>2
<1> HIDE DEF ab, bc
<1>3. /\ a \o bc \in Seq(Pieces) /\ Len(a \o bc) = Len(a) + Len(bc)
      /\ \A i \in 1..Len(a) + Len(bc) : (a \o bc)[i] = IF i <= Len(a) THEN a[i] ELSE bc[i - Len(a)]
  BY <1>8, ConcatProperties
<1>4. /\ ab \o c \in Seq(Pieces) /\ Len(ab \o c) = Len(ab) + Len(c)
      /\ \A i \in 1..Len(ab) + Len(c) : (ab \o c)[i] = IF i <= Len(ab) THEN ab[i] ELSE c[i - Len(ab)]
  BY <1>8, ConcatProperties
<1> DEFINE x == a \o bc
           y == ab \o c
<1>5. x \in Seq(Pieces) /\ y \in Seq(Pieces) /\ Len(x) = Len(y) /\ Len(x) = Len(a) + Len(b) + Len(c)
  BY <1>0, <1>1, <1>2, <1>3, <1>4
<1>6. ASSUME NEW i \in 1..Len(x) PROVE x[i] = y[i]
  <2>1. i \in 1..Len(a) + Len(bc) /\ i \in 1..Len(ab) + Len(c)
    BY <1>0, <1>1, <1>2, <1>5
  <2>2. /\ x[i] = IF i <= Len(a) THEN a[i] ELSE bc[i - Len(a)]
        /\ y[i] = IF i <= Len(ab) THEN ab[i] ELSE c[i - Len(ab)]
    BY <1>3, <1>4, <2>1
  <2> HIDE DEF x, y
  <2>3. CASE i <= Len(a)
    <3>1. i <= Len(ab) /\ i \in 1..Len(a) + Len(b)
      BY <1>0, <1>1, <2>1, <2>3
    <3> QED BY <1>1, <2>2, <2>3, <3>1
  <2>4. CASE ~(i <= Len(a))
    <3>1. i - Len(a) \in 1..Len(b) + Len(c)
      BY <1>0, <1>2, <2>1, <2>4
    <3>2. bc[i - Len(a)] = IF i - Len(a) <= Len(b) THEN b[i - Len(a)] ELSE c[(i - Len(a)) - Len(b)]
      BY <1>2, <3>1
    <3>3. CASE i - Len(a) <= Len(b)
      <4>1. i \in 1..Len(a) + Len(b) /\ i <= Len(ab)
        BY <1>0, <1>1, <2>1, <3>3
      <4> QED BY <1>1, <2>2, <2>4, <3>2, <3>3, <4>1
    <3>4. CASE ~(i - Len(a) <= Len(b))
      <4>1. ~(i <= Len(ab)) /\ i - Len(ab) = (i - Len(a)) - Len(b)
        BY <1>0, <1>1, <2>1, <3>4
      <4> QED BY <2>2, <2>4, <3>2, <3>4, <4>1
    <3> QED BY <3>3, <3>4
  <2> QED BY <2>3, <2>4
<1>7. x = y
  <2> HIDE DEF x, y
  <2> QED BY <1>5, <1>6, SeqEqual
<1> QED BY <1>7 DEF ab, bc

LEMMA FrameAfter ==
  ASSUME NEW a \in Seq(Pieces), NEW b \in Seq(Pieces), NEW e \in Events
  PROVE  /\ a \o b \in Seq(Pieces) /\ a \o (b \o Frame(e)) = (a \o b) \o Frame(e)
         /\ b \o Frame(e) \in Seq(Pieces) /\ Len(b \o Frame(e)) = Len(b) + 3 /\ Len(b) \in Nat
<1> DEFINE f == Frame(e)
<1>1. f \in Seq(Pieces) /\ Len(f) = 3
  BY FrameIs
<1> HIDE DEF f
<1>2. a \o (b \o f) = (a \o b) \o f
  BY <1>1, Associative
<1>3. b \o f \in Seq(Pieces) /\ Len(b \o f) = Len(b) + Len(f)
  BY <1>1, ConcatProperties
<1>4. a \o b \in Seq(Pieces) /\ Len(b) \in Nat
  BY ConcatProperties, LenProperties
<1> QED BY <1>1, <1>2, <1>3, <1>4 DEF f

LEMMA FrameSent ==
  ASSUME IInv, NEW r \in Runs, server[r] = "running", Listening(r), NEW e, Means(r, e),
         wire' = [wire EXCEPT ![r] = @ \o Frame(e)],
         UNCHANGED <<chat, phase, target, request, buffer, finished, overtaken>>,
         \A q \in Runs : q # r => server'[q] = server[q] /\ sent'[q] = sent[q],
         stored \subseteq stored', stored' \subseteq stored \cup {r}
  PROVE  /\ \A q \in Runs : RunInv(q)' /\ StreamInv(q)'
         /\ wire' \in [Runs -> Seq(Pieces)]
         /\ \A q \in Runs : Len(wire'[q]) <= 3 * MaxInFlight
         /\ AnswerOf(r, sent'[r])
<1>1. wire \in [Runs -> Seq(Pieces)] /\ buffer \in [Runs -> Seq(Pieces)] /\ e \in Events
  BY DEF IInv, TypeInv, Means
<1>2. Open' = Open /\ r \in Open
  BY DEF Open, Listening
<1>3. Len(chat.messages) \in Nat
  BY DEF IInv, TypeInv, ChatStates
<1>4. RunInv(r) /\ StreamInv(r)
  BY DEF IInv
<1>5. AnswerOf(r, sent'[r])
  <2>1. AnswerOf(r, sent[r])
    BY <1>4 DEF RunInv
  <2> QED BY <2>1, ExtendIs DEF Means
<1>6. RunInv(r)'
  BY <1>2, <1>4, <1>5 DEF RunInv, Listening
<1>7. PICK events \in Seq(Events) :
        /\ Framed(Pending(r), events)
        /\ Concludes(r, events)
        /\ r \in Open /\ ~finished[r] /\ ~overtaken =>
             \E shows : Leads(r, AnswerIn(chat, target[r]), events, shows, sent[r])
  BY <1>4 DEF StreamInv
<1> DEFINE more == Append(events, e)
<1>8. /\ wire'[r] = wire[r] \o Frame(e)
      /\ Pending(r)' = Pending(r) \o Frame(e)
      /\ Pending(r) \in Seq(Pieces)
  <2>1. wire[r] \in Seq(Pieces) /\ buffer[r] \in Seq(Pieces) /\ wire'[r] = wire[r] \o Frame(e)
    BY <1>1
  <2> QED BY <1>1, <2>1, FrameAfter DEF Pending
<1>9. more \in Seq(Events) /\ Framed(Pending(r)', more)
  <2>1. more \in Seq(Events) /\ Framed(Pending(r) \o Frame(e), more)
    BY <1>1, <1>7, <1>8, FramedMore
  <2> HIDE DEF more
  <2> QED BY <1>8, <2>1
<1>10. /\ Len(events) \in Nat /\ Len(more) = Len(events) + 1
       /\ more[Len(events) + 1] = e /\ \A k \in 1..Len(events) : more[k] = events[k]
  BY <1>1
<1>11. ~finished[r] /\ \A k \in 1..Len(events) : ~Final(events[k])
  BY <1>7 DEF Concludes
<1>12. Concludes(r, more)'
  <2> HIDE DEF more
  <2>1. ASSUME NEW k \in 1..Len(more), Final(more[k]) PROVE k = Len(more) /\ more[k] = e /\ Final(e)
    <3>1. k \in 1..Len(events) \/ k = Len(events) + 1
      BY <1>10
    <3> QED BY <1>10, <1>11, <2>1, <3>1
  <2>2. \A k \in 1..Len(more) : Final(more[k]) => k = Len(more) /\ server'[r] = "ended"
    BY <2>1 DEF Means
  <2>3. ASSUME NEW k \in 1..Len(more), more[k].event = "done"
        PROVE  /\ r \in stored' /\ more[k].conversation_id = ConversationOf(r)'
               /\ more[k].message = <<r, 0>> /\ more[k].tools = sent'[r].cards
    <3>1. more[k] = e /\ Final(e)
      BY <2>1, <2>3 DEF Final
    <3>2. ConversationOf(r)' = ConversationOf(r)
      BY DEF ConversationOf
    <3> QED BY <2>3, <3>1, <3>2 DEF Means
  <2>4. ~finished'[r]
    BY <1>11
  <2> QED BY <2>2, <2>3, <2>4 DEF Concludes
<1>13. ASSUME ~overtaken PROVE \E shows : Leads(r, AnswerIn(chat, target[r]), more, shows, sent'[r])
  <2>1. PICK shows : Leads(r, AnswerIn(chat, target[r]), events, shows, sent[r])
    BY <1>2, <1>7, <1>11, <1>13
  <2>2. /\ Final(e) => sent'[r] = sent[r]
        /\ ~Final(e) => e \in NextEvents(r, sent[r]) /\ sent'[r] = Extend(sent[r], e)
    BY DEF Means
  <2> QED BY <1>1, <1>5, <2>1, <2>2, LeadsMore
<1>14. StreamInv(r)'
  <2> HIDE DEF more
  <2> QED BY <1>9, <1>12, <1>13 DEF StreamInv
<1>15. ASSUME NEW q \in Runs, q # r PROVE RunInv(q)' /\ StreamInv(q)'
  <2>1. SameRun(q)
    BY <1>1, <1>15 DEF SameRun
  <2>2. RunInv(q) /\ StreamInv(q)
    BY DEF IInv
  <2> QED BY <1>3, <2>1, <2>2, RunKept
<1>16. wire' \in [Runs -> Seq(Pieces)] /\ \A q \in Runs : Len(wire'[q]) <= 3 * MaxInFlight
  <2> DEFINE longer == wire[r] \o Frame(e)
  <2>1. longer \in Seq(Pieces) /\ Len(longer) = Len(wire[r]) + 3 /\ Len(wire[r]) \in Nat
    <3>1. wire[r] \in Seq(Pieces)
      BY <1>1
    <3> QED BY <1>1, <3>1, FrameAfter
  <2>2. wire' = [wire EXCEPT ![r] = longer]
    OBVIOUS
  <2> HIDE DEF longer
  <2>3. Len(longer) <= 3 * MaxInFlight
    BY <2>1 DEF Listening
  <2>4. \A q \in Runs : Len(wire[q]) <= 3 * MaxInFlight
    BY DEF IInv, TypeInv
  <2>5. \A q \in Runs : wire'[q] = IF q = r THEN longer ELSE wire[q]
    BY <1>1, <2>2
  <2>6. \A q \in Runs : Len(wire'[q]) <= 3 * MaxInFlight
    BY <2>3, <2>4, <2>5
  <2>7. wire' \in [Runs -> Seq(Pieces)]
    BY <1>1, <2>1, <2>2
  <2> QED BY <2>6, <2>7
<1> QED BY <1>5, <1>6, <1>14, <1>15, <1>16

\* A step that sends a frame.
LEMMA SentKeeps ==
  ASSUME IInv, NEW r \in Runs, server[r] = "running", Listening(r), NEW e, Means(r, e),
         wire' = [wire EXCEPT ![r] = @ \o Frame(e)],
         UNCHANGED <<chat, phase, target, request, abortRef, buffer, finished, stopped, overtaken>>,
         server' \in [Runs -> {"idle", "running", "ended"}],
         \E a : sent' = [sent EXCEPT ![r] = a],
         \A q \in Runs : q # r => server'[q] = server[q] /\ sent'[q] = sent[q],
         stored \subseteq stored', stored' \subseteq stored \cup {r}
  PROVE  IInv'
<1>1. /\ \A q \in Runs : RunInv(q)' /\ StreamInv(q)'
      /\ wire' \in [Runs -> Seq(Pieces)]
      /\ \A q \in Runs : Len(wire'[q]) <= 3 * MaxInFlight
      /\ AnswerOf(r, sent'[r])
  BY FrameSent
<1>2. sent' \in [Runs -> Answers]
  <2>1. PICK a : sent' = [sent EXCEPT ![r] = a]
    OBVIOUS
  <2>2. sent \in [Runs -> Answers]
    BY DEF IInv, TypeInv
  <2>3. a \in Answers
    BY <1>1, <2>1, <2>2 DEF AnswerOf
  <2> QED BY <2>1, <2>2, <2>3
<1>3. TypeInv'
  BY <1>1, <1>2 DEF IInv, TypeInv
<1>4. Open' = Open
  BY DEF Open
<1>5. ~overtaken => SerialInv'
  BY <1>4, SerialKept DEF IInv
<1> QED BY <1>1, <1>3, <1>5 DEF IInv

LEMMA EmitKeeps ==
  ASSUME IInv, NEW r \in Runs, Emit(r)
  PROVE  IInv'
<1> USE DEF Emit
<1>1. AnswerOf(r, sent[r]) /\ sent \in [Runs -> Answers] /\ server \in [Runs -> {"idle", "running", "ended"}]
  BY DEF IInv, RunInv, TypeInv
<1>2. PICK e \in NextEvents(r, sent[r]) :
        /\ sent' = [sent EXCEPT ![r] = Extend(@, e)]
        /\ wire' = [wire EXCEPT ![r] = @ \o Frame(e)]
  OBVIOUS
<1>3. e \in Events /\ ~Final(e)
  BY <1>1, NextIs
<1>4. sent'[r] = Extend(sent[r], e) /\ \A q \in Runs : q # r => server'[q] = server[q] /\ sent'[q] = sent[q]
  BY <1>1, <1>2
<1>5. Means(r, e)
  BY <1>2, <1>3, <1>4 DEF Means, Final
<1>6. \E a : sent' = [sent EXCEPT ![r] = a]
  BY <1>2
<1> QED BY <1>1, <1>2, <1>4, <1>5, <1>6, SentKeeps

LEMMA ConcludeKeeps ==
  ASSUME IInv, NEW r \in Runs, Conclude(r)
  PROVE  IInv'
<1> USE DEF Conclude
<1>1. /\ AnswerOf(r, sent[r]) /\ sent \in [Runs -> Answers]
      /\ server \in [Runs -> {"idle", "running", "ended"}]
      /\ request[r].conversation_id \in Runs \cup {None}
  BY DEF IInv, RunInv, TypeInv
<1> DEFINE e == [event |-> "done", conversation_id |-> ConversationOf(r),
                 message |-> <<r, 0>>, tools |-> sent[r].cards]
<1>2. e \in Events /\ Final(e)
  <2>1. ConversationOf(r) \in Runs /\ <<r, 0>> \in Fragments /\ sent[r].cards \in Seq(Cards)
    BY <1>1 DEF ConversationOf, Fragments, Answers
  <2> QED BY <2>1 DEF Events, Final
<1>3. server'[r] = "ended" /\ \A q \in Runs : q # r => server'[q] = server[q] /\ sent'[q] = sent[q]
  BY <1>1
<1>4. server' \in [Runs -> {"idle", "running", "ended"}]
  BY <1>1
<1>5. Means(r, e)
  BY <1>2, <1>3 DEF Means
<1>6. sent' = [sent EXCEPT ![r] = sent[r]]
  BY <1>1
<1>7. wire' = [wire EXCEPT ![r] = @ \o Frame(e)]
  OBVIOUS
<1> HIDE DEF e
<1> QED BY <1>3, <1>4, <1>5, <1>6, <1>7, SentKeeps

LEMMA FailKeeps ==
  ASSUME IInv, NEW r \in Runs, Fail(r)
  PROVE  IInv'
<1> USE DEF Fail
<1>1. sent \in [Runs -> Answers] /\ server \in [Runs -> {"idle", "running", "ended"}]
  BY DEF IInv, TypeInv
<1> DEFINE e == [event |-> "error"]
<1>2. e \in Events /\ Final(e)
  BY DEF Events, Final
<1>3. server'[r] = "ended" /\ \A q \in Runs : q # r => server'[q] = server[q] /\ sent'[q] = sent[q]
  BY <1>1
<1>4. server' \in [Runs -> {"idle", "running", "ended"}]
  BY <1>1
<1>5. Means(r, e)
  BY <1>2, <1>3 DEF Means
<1>6. sent' = [sent EXCEPT ![r] = sent[r]]
  BY <1>1
<1>7. wire' = [wire EXCEPT ![r] = @ \o Frame(e)]
  OBVIOUS
<1> HIDE DEF e
<1> QED BY <1>3, <1>4, <1>5, <1>6, <1>7, SentKeeps

-----------------------------------------------------------------------------
(* A step of one open run, in its own bubble.                              *)

Moves(r) ==
    /\ r \in Open /\ target[r] \in 1..Len(chat.messages)
    /\ Touches(chat, target[r], chat')
    /\ \A q \in Runs : q # r => SameRun(q)
    /\ request' = request /\ overtaken' = overtaken /\ stored' = stored
    /\ stopped \subseteq stopped'

\* How the run and its bubble stand after the step.
Fits(r) ==
    /\ (r \in Open)' => target'[r] = target[r] /\ (finished[r] => finished'[r])
    /\ chat'.messages[target[r]].status = "streaming" <=> (r \in Open)' /\ ~finished'[r]
    /\ \/ chat'.conversationId = chat.conversationId
       \/ /\ chat'.conversationId = ConversationOf(r)
          /\ ~finished[r] /\ ((r \in Open)' => finished'[r])
    /\ Len(chat'.messages[target[r]].tools) <= (MaxEvents + 1) \div 2
    /\ chat'.messages[target[r]].status = "done" =>
         \A parts : parts = chat'.messages[target[r]].parts => StoredOne(parts)' \/ StoppedOne(parts)'

LEMMA OthersKept ==
  ASSUME IInv, NEW r \in Runs, Moves(r), NEW q \in Runs, q # r
  PROVE  RunInv(q)' /\ StreamInv(q)'
<1>1. RunInv(q) /\ StreamInv(q) /\ SameRun(q) /\ overtaken' = overtaken
  BY DEF IInv, Moves
<1>2. /\ Len(chat.messages) \in Nat /\ Len(chat'.messages) \in Nat
      /\ Len(chat.messages) <= Len(chat'.messages)
  <2>1. Len(chat'.messages) = Len(chat.messages)
    BY DEF Moves, Touches
  <2>2. chat.messages \in Seq(Bubbles)
    BY DEF IInv, TypeInv, ChatStates
  <2> QED BY <2>1, <2>2
<1>3. ASSUME q \in Open, ~finished[q], ~overtaken'
      PROVE  AnswerIn(chat', target[q]) = AnswerIn(chat, target[q])
  <2>1. target[q] # target[r]
    BY <1>1, <1>3 DEF IInv, SerialInv, OneRunEach, Moves
  <2>2. target[q] \in 1..Len(chat.messages)
    BY <1>1, <1>3 DEF RunInv
  <2>3. chat'.messages[target[q]] = chat.messages[target[q]]
    BY <2>1, <2>2 DEF Moves, Touches
  <2> QED BY <2>3 DEF AnswerIn
<1> QED BY <1>1, <1>2, <1>3, RunKept

LEMMA SerialMoved ==
  ASSUME IInv, ~overtaken, NEW r \in Runs, Moves(r), Fits(r)
  PROVE  SerialInv'
<1> DEFINE b == target[r]
<1>1. /\ Len(chat'.messages) = Len(chat.messages) /\ Len(chat.messages) \in Nat
      /\ b \in 1..Len(chat.messages)
      /\ \A x \in 1..Len(chat.messages) : x # b => chat'.messages[x] = chat.messages[x]
  <2>1. chat.messages \in Seq(Bubbles)
    BY DEF IInv, TypeInv, ChatStates
  <2> QED BY <2>1 DEF Moves, Touches
<1>2. SerialInv
  BY DEF IInv
<1>3. ASSUME NEW q \in Runs, q # r
      PROVE  /\ (q \in Open)' <=> q \in Open
             /\ target'[q] = target[q] /\ finished'[q] = finished[q]
  BY <1>3 DEF Moves, SameRun, Open
<1>4. r \in Open /\ (b \in Streaming(chat) <=> ~finished[r])
  BY <1>2 DEF Moves, SerialInv, OneRunEach
<1>5. \A q \in Open : q # r => target[q] # b
  BY <1>2, <1>4 DEF SerialInv, OneRunEach
<1>6. \A x \in 1..Len(chat.messages) : x # b => (x \in Streaming(chat') <=> x \in Streaming(chat))
  BY <1>1 DEF Streaming
<1>7. b \in Streaming(chat') <=> (r \in Open)' /\ ~finished'[r]
  BY <1>1 DEF Fits, Streaming
<1>8. b \in Streaming(chat') => b \in Streaming(chat)
  BY <1>4, <1>7 DEF Fits
<1>9. Streaming(chat') \subseteq Streaming(chat) /\ Streaming(chat) \subseteq 1..Len(chat.messages)
  BY <1>1, <1>6, <1>8 DEF Streaming
<1>10. \A q \in Open : q \in Runs
  BY DEF Open
<1>11. \A q \in Open' : q \in Runs
  BY DEF Open
<1>12. \A q \in Open' : q \in Open /\ target'[q] = target[q]
  BY <1>3, <1>4, <1>11 DEF Fits
<1> HIDE DEF b
<1>13. OneRunEach'
  <2>1. \A x, y \in Streaming(chat') : x = y
    BY <1>2, <1>9 DEF SerialInv, OneRunEach
  <2>2. ASSUME NEW x \in Streaming(chat') PROVE \E q \in Open' : target'[q] = x
    <3>1. CASE x = b
      BY <1>7, <1>12, <2>2, <3>1 DEF b
    <3>2. CASE x # b
      <4>1. PICK q \in Open : target[q] = x
        BY <1>2, <1>9, <2>2 DEF SerialInv, OneRunEach
      <4>2. q # r
        BY <3>2, <4>1 DEF b
      <4> QED BY <1>3, <1>10, <4>1, <4>2
    <3> QED BY <3>1, <3>2
  <2>3. \A p, q \in Open' : target'[p] = target'[q] => p = q
    BY <1>2, <1>12 DEF SerialInv, OneRunEach
  <2>4. ASSUME NEW q \in Open' PROVE target'[q] \in Streaming(chat') <=> ~finished'[q]
    <3>1. CASE q = r
      BY <1>7, <1>12, <3>1 DEF b
    <3>2. CASE q # r
      <4>1. q \in Open /\ target'[q] = target[q] /\ finished'[q] = finished[q]
        BY <1>3, <1>11, <1>12, <3>2
      <4>2. target[q] # b /\ (target[q] \in Streaming(chat) <=> ~finished[q])
        BY <1>2, <1>5, <3>2, <4>1 DEF SerialInv, OneRunEach
      <4>3. target[q] \in 1..Len(chat.messages)
        BY <1>10, <4>1 DEF IInv, RunInv
      <4> QED BY <1>6, <4>1, <4>2, <4>3
    <3> QED BY <3>1, <3>2
  <2> QED BY <2>1, <2>2, <2>3, <2>4 DEF OneRunEach
<1>14. \/ chat'.conversationId = chat.conversationId
       \/ /\ chat'.conversationId = ConversationOf(r)
          /\ ~finished[r] /\ ((r \in Open)' => finished'[r])
  BY DEF Fits
<1>15. SameConversation'
  <2> SUFFICES ASSUME NEW q \in Open', ~finished'[q]
               PROVE  request'[q].conversation_id = chat'.conversationId
    BY DEF SameConversation
  <2>1. q \in Open /\ request' = request
    BY <1>12 DEF Moves
  <2>2. ~finished[q]
    BY <1>3, <1>11, <2>1 DEF Fits
  <2>3. request[q].conversation_id = chat.conversationId
    BY <1>2, <2>1, <2>2 DEF SerialInv, SameConversation
  <2>4. chat'.conversationId = chat.conversationId
    <3> SUFFICES ASSUME ~finished[r], (r \in Open)' => finished'[r] PROVE FALSE
      BY <1>14
    <3>1. q # r
      OBVIOUS
    <3>2. target[q] \in Streaming(chat) /\ b \in Streaming(chat)
      BY <1>2, <1>4, <2>1, <2>2 DEF SerialInv, OneRunEach
    <3>3. target[q] = b
      BY <1>2, <3>2 DEF SerialInv, OneRunEach
    <3> QED BY <1>5, <2>1, <3>1, <3>3
  <2> QED BY <2>1, <2>3, <2>4
<1>16. TrailsFit'
  <2> SUFFICES ASSUME NEW x \in 1..Len(chat'.messages)
               PROVE  Len(chat'.messages[x].tools) <= (MaxEvents + 1) \div 2
    BY DEF TrailsFit
  <2>1. CASE x = b
    BY <2>1 DEF Fits, b
  <2>2. CASE x # b
    <3>1. x \in 1..Len(chat.messages) /\ chat'.messages[x] = chat.messages[x]
      BY <1>1, <2>2
    <3>2. Len(chat.messages[x].tools) <= (MaxEvents + 1) \div 2
      BY <1>2, <3>1 DEF SerialInv, TrailsFit
    <3> QED BY <3>1, <3>2
  <2> QED BY <2>1, <2>2
<1>17. ASSUME NEW parts, StoredOne(parts) PROVE StoredOne(parts)'
  <2>1. PICK q \in stored : parts = <<<<q, 0>>>> /\ ConversationOf(q) = chat.conversationId
    BY <1>17 DEF StoredOne
  <2>2. q \in Runs /\ request[q].conversation_id \in Runs \cup {None}
    BY DEF IInv, TypeInv
  <2>3. ConversationOf(q) \in Runs /\ ConversationOf(q) # None
    BY <2>2 DEF ConversationOf, Runs, None
  <2>4. chat'.conversationId = chat.conversationId
    <3> SUFFICES ASSUME chat'.conversationId = ConversationOf(r), ~finished[r]
                 PROVE  chat'.conversationId = chat.conversationId
      BY <1>14
    <3>1. request[r].conversation_id = chat.conversationId
      BY <1>2, <1>4 DEF SerialInv, SameConversation
    <3> QED BY <2>1, <2>3, <3>1 DEF ConversationOf
  <2>5. ConversationOf(q)' = ConversationOf(q) /\ q \in stored'
    BY DEF ConversationOf, Moves
  <2> QED BY <2>1, <2>4, <2>5 DEF StoredOne
<1>18. ASSUME NEW parts, StoppedOne(parts) PROVE StoppedOne(parts)'
  BY <1>18 DEF StoppedOne, Moves
<1>19. DoneIsStored'
  <2>1. ASSUME NEW x \in 1..Len(chat'.messages), chat'.messages[x].status = "done",
               NEW parts, parts = chat'.messages[x].parts
        PROVE  StoredOne(parts)' \/ StoppedOne(parts)'
    <3>1. CASE x = b
      BY <2>1, <3>1 DEF Fits, b
    <3>2. CASE x # b
      <4>1. x \in 1..Len(chat.messages) /\ chat'.messages[x] = chat.messages[x]
        BY <1>1, <2>1, <3>2
      <4>2. StoredOne(parts) \/ StoppedOne(parts)
        BY <1>2, <2>1, <4>1 DEF SerialInv, DoneIsStored
      <4> QED BY <1>17, <1>18, <4>2
    <3> QED BY <3>1, <3>2
  <2> QED BY <2>1 DEF DoneIsStored, StoredOne, StoppedOne
<1> QED BY <1>13, <1>15, <1>16, <1>19 DEF SerialInv

-----------------------------------------------------------------------------
(* The reader takes a chunk.                                               *)

LEMMA SubSeqIs ==
  ASSUME NEW s \in Seq(Pieces), NEW n \in 0..Len(s), NEW m \in 1..n + 1
  PROVE  /\ SubSeq(s, m, n) \in Seq(Pieces) /\ Len(SubSeq(s, m, n)) = n + 1 - m /\ n + 1 - m \in Nat
         /\ \A i \in 1..n + 1 - m : SubSeq(s, m, n)[i] = s[m + i - 1]
<1>1. Len(s) \in Nat /\ m \in Int /\ n \in Int /\ \A i \in m..n : s[i] \in Pieces
  <2>1. Len(s) \in Nat
    BY LenProperties
  <2>2. ASSUME NEW i \in m..n PROVE s[i] \in Pieces
    <3>1. i \in 1..Len(s)
      BY <2>1
    <3> QED BY <3>1, ElementOfSeq
  <2> QED BY <2>1, <2>2
<1>2. /\ SubSeq(s, m, n) \in Seq(Pieces)
      /\ Len(SubSeq(s, m, n)) = IF m <= n THEN n - m + 1 ELSE 0
      /\ \A i \in 1..n - m + 1 : SubSeq(s, m, n)[i] = s[m + i - 1]
  BY <1>1, SubSeqProperties
<1>3. n - m + 1 = n + 1 - m /\ n + 1 - m \in Nat /\ (~(m <= n) => n + 1 - m = 0)
  BY <1>1
<1>4. Len(SubSeq(s, m, n)) = n + 1 - m
  BY <1>2, <1>3
<1> QED BY <1>2, <1>3, <1>4

\* The chunk and what stays on the wire, as parts of what was under way.
LEMMA ChunkTaken ==
  ASSUME NEW a \in Seq(Pieces), NEW b \in Seq(Pieces), NEW n \in 1..Len(b)
  PROVE  /\ Len(a) + n \in 0..Len(a \o b) /\ a \o b \in Seq(Pieces)
         /\ a \o SubSeq(b, 1, n) = Chunk(a \o b, Len(a) + n)
         /\ \A j \in 1..Len(a) + n + 1 :
              SubSeq(a \o b, j, Len(a) + n) \o SubSeq(b, n + 1, Len(b)) = SubSeq(a \o b, j, Len(a \o b))
<1> DEFINE t == a \o b
           L == Len(a) + n
<1>1. Len(a) \in Nat /\ Len(b) \in Nat /\ n \in Nat /\ n <= Len(b)
  BY LenProperties
<1>2. /\ t \in Seq(Pieces) /\ Len(t) = Len(a) + Len(b)
      /\ \A i \in 1..Len(a) + Len(b) : t[i] = IF i <= Len(a) THEN a[i] ELSE b[i - Len(a)]
  BY ConcatProperties
<1>3. L \in 0..Len(t) /\ L \in Nat
  BY <1>1, <1>2
<1> HIDE DEF t
<1>4. a \o SubSeq(b, 1, n) = Chunk(t, L)
  <2> DEFINE h == SubSeq(b, 1, n)
             x == a \o h
             y == Chunk(t, L)
  <2>1. h \in Seq(Pieces) /\ Len(h) = n /\ \A i \in 1..n : h[i] = b[i]
    BY <1>1
  <2>2. h \in Seq(Pieces)
    BY <2>1
  <2> HIDE DEF h
  <2>3. /\ x \in Seq(Pieces) /\ Len(x) = Len(a) + Len(h)
        /\ \A i \in 1..Len(a) + Len(h) : x[i] = IF i <= Len(a) THEN a[i] ELSE h[i - Len(a)]
    BY <2>2, ConcatProperties
  <2>4. y \in Seq(Pieces) /\ Len(y) = L /\ \A i \in 1..L : y[i] = t[i]
    BY <1>2, <1>3 DEF Chunk
  <2> HIDE DEF x, y
  <2>5. ASSUME NEW i \in 1..L PROVE x[i] = y[i]
    <3>1. i \in 1..Len(a) + Len(h) /\ i \in 1..Len(a) + Len(b)
      BY <1>1, <2>1
    <3>2. x[i] = IF i <= Len(a) THEN a[i] ELSE h[i - Len(a)]
      BY <2>3, <3>1
    <3>3. y[i] = IF i <= Len(a) THEN a[i] ELSE b[i - Len(a)]
      BY <1>2, <2>4, <3>1
    <3>4. CASE i <= Len(a)
      BY <3>2, <3>3, <3>4
    <3>5. CASE ~(i <= Len(a))
      <4>1. i - Len(a) \in 1..n
        BY <1>1, <3>5
      <4> QED BY <2>1, <3>2, <3>3, <3>5, <4>1
    <3> QED BY <3>4, <3>5
  <2>6. Len(x) = L /\ Len(y) = L
    BY <2>1, <2>3, <2>4
  <2> HIDE DEF L
  <2>7. x = y
    BY <2>3, <2>4, <2>5, <2>6, SeqEqual
  <2> QED BY <2>7 DEF x, y, h
<1>5. ASSUME NEW j \in 1..L + 1
      PROVE  SubSeq(t, j, L) \o SubSeq(b, n + 1, Len(b)) = SubSeq(t, j, Len(t))
  <2> DEFINE g == SubSeq(t, j, L)
             h == SubSeq(b, n + 1, Len(b))
             x == g \o h
             y == SubSeq(t, j, Len(t))
  <2>1. /\ g \in Seq(Pieces) /\ Len(g) = L + 1 - j /\ \A i \in 1..L + 1 - j : g[i] = t[j + i - 1]
        /\ L + 1 - j \in Nat
    <3> HIDE DEF L
    <3> QED BY <1>2, <1>3, SubSeqIs
  <2>2. /\ h \in Seq(Pieces) /\ Len(h) = Len(b) - n /\ \A i \in 1..Len(b) - n : h[i] = b[n + i]
        /\ Len(b) - n \in Nat
    BY <1>1
  <2>3. g \in Seq(Pieces) /\ h \in Seq(Pieces)
    BY <2>1, <2>2
  <2> HIDE DEF g, h
  <2>4. /\ x \in Seq(Pieces) /\ Len(x) = Len(g) + Len(h)
        /\ \A i \in 1..Len(g) + Len(h) : x[i] = IF i <= Len(g) THEN g[i] ELSE h[i - Len(g)]
    BY <2>3, ConcatProperties
  <2>5. /\ y \in Seq(Pieces) /\ Len(y) = Len(t) + 1 - j
        /\ \A i \in 1..Len(t) + 1 - j : y[i] = t[j + i - 1]
    <3>1. Len(t) \in 0..Len(t) /\ j \in 1..Len(t) + 1
      BY <1>1, <1>2
    <3> QED BY <1>2, <3>1, SubSeqIs
  <2> HIDE DEF x, y
  <2>6. Len(x) = Len(y)
    BY <1>1, <1>2, <2>1, <2>2, <2>4, <2>5
  <2>7. ASSUME NEW i \in 1..Len(x) PROVE x[i] = y[i]
    <3>1. i \in 1..Len(g) + Len(h) /\ i \in 1..Len(t) + 1 - j
      BY <2>4, <2>5, <2>6
    <3>2. x[i] = IF i <= Len(g) THEN g[i] ELSE h[i - Len(g)]
      BY <2>4, <3>1
    <3>3. y[i] = t[j + i - 1]
      BY <2>5, <3>1
    <3>4. CASE i <= Len(g)
      <4>1. i \in 1..L + 1 - j
        BY <2>1, <3>1, <3>4
      <4> QED BY <2>1, <3>2, <3>3, <3>4, <4>1
    <3>5. CASE ~(i <= Len(g))
      <4>1. i - Len(g) \in 1..Len(b) - n
        BY <2>1, <2>2, <3>1, <3>5, SMTT(20)
      <4>2. x[i] = b[n + (i - Len(g))]
        BY <2>2, <3>2, <3>5, <4>1
      <4>3. j + i - 1 \in 1..Len(a) + Len(b) /\ ~(j + i - 1 <= Len(a)) /\ (j + i - 1) - Len(a) = n + (i - Len(g))
        BY <1>1, <2>1, <2>2, <3>1, <3>5, SMTT(20)
      <4>4. t[j + i - 1] = b[(j + i - 1) - Len(a)]
        BY <1>2, <4>3
      <4> QED BY <3>3, <4>2, <4>3, <4>4
    <3> QED BY <3>4, <3>5
  <2>8. x = y
    BY <2>4, <2>5, <2>6, <2>7, SeqEqual
  <2> QED BY <2>8 DEF x, y, g, h
<1> QED BY <1>2, <1>3, <1>4, <1>5 DEF t

LEMMA LeadsLater ==
  ASSUME NEW r \in Runs, NEW events \in Seq(Events), NEW from, NEW shows, NEW to,
         Leads(r, from, events, shows, to), NEW m \in 0..Len(events)
  PROVE  \E later : Leads(r, shows[m], SubSeq(events, m + 1, Len(events)), later, to)
<1> DEFINE N == Len(events)
           late == SubSeq(events, m + 1, N)
           later == [k \in 0..N - m |-> shows[m + k]]
<1>1. N \in Nat /\ m \in Nat /\ m <= N
  BY LenProperties
<1>2. Len(late) = N - m /\ \A k \in 1..N - m : late[k] = events[m + k]
  BY <1>1
<1>3. \A k \in 0..N - m : later[k] = shows[m + k]
  OBVIOUS
<1> HIDE DEF late, later
<1>4. later[0] = shows[m] /\ later[N - m] = to
  <2>1. 0 \in 0..N - m /\ N - m \in 0..N - m /\ m + 0 = m /\ m + (N - m) = N
    BY <1>1
  <2>2. shows[N] = to
    BY DEF Leads
  <2> HIDE DEF N
  <2> QED BY <1>3, <2>1, <2>2
<1>5. ASSUME NEW k \in 0..N - m PROVE AnswerOf(r, later[k])
  <2>1. m + k \in 0..N
    BY <1>1
  <2> QED BY <1>3, <2>1 DEF Leads
<1>6. ASSUME NEW k \in 1..N - m
      PROVE  IF Final(late[k]) THEN later[k] = later[k - 1]
             ELSE late[k] \in NextEvents(r, later[k - 1]) /\ later[k] = Extend(later[k - 1], late[k])
  <2>1. m + k \in 1..N /\ k \in 0..N - m /\ k - 1 \in 0..N - m /\ m + (k - 1) = (m + k) - 1
    BY <1>1
  <2>2. late[k] = events[m + k] /\ later[k] = shows[m + k] /\ later[k - 1] = shows[(m + k) - 1]
    BY <1>2, <1>3, <2>1
  <2>3. IF Final(events[m + k]) THEN shows[m + k] = shows[(m + k) - 1]
        ELSE /\ events[m + k] \in NextEvents(r, shows[(m + k) - 1])
             /\ shows[m + k] = Extend(shows[(m + k) - 1], events[m + k])
    BY <2>1 DEF Leads
  <2> QED BY <2>2, <2>3
<1>7. Leads(r, shows[m], late, later, to)
  BY <1>2, <1>4, <1>5, <1>6 DEF Leads
<1> QED BY <1>7 DEF late

LEMMA CardsFit ==
  ASSUME NEW r \in Runs, NEW a, AnswerOf(r, a)
  PROVE  Len(a.cards) <= (MaxEvents + 1) \div 2
<1> DEFINE n == Len(a.text)
           k == Len(a.cards)
<1>1. n \in Nat /\ k \in Nat /\ MaxEvents \in Nat /\ Count(a) <= MaxEvents
  BY AssistantAssumption, LenProperties DEF AnswerOf, Answers
<1>2. Count(a) = n + 2 * k - 1 \/ Count(a) = n + 2 * k
  BY <1>1, CountIs
<1> HIDE DEF n, k
<1>3. 2 * k <= MaxEvents + 1
  BY <1>1, <1>2
<1> QED BY <1>1, <1>3 DEF k

LEMMA NothingHandled ==
  ASSUME NEW events \in Seq(Events), NEW text \in Seq(Pieces), Framed(text, events), NEW s, NEW b
  PROVE  handleEach(s, b, FramesOf(text, 0)) = s
<1>1. 0 \in 0..Len(events)
  BY LenProperties
<1>2. \E at : /\ at[0] = s /\ at[0] = handleEach(s, b, FramesOf(text, 0))
              /\ \A k \in 1..0 : at[k] = handle(at[k - 1], b, events[k])
  BY <1>1, HandledFrames
<1> QED BY <1>2

\* What a chunk of run r does, in events.
ReadsEvents(r, events, m) ==
    /\ Framed(Pending(r), events)
    /\ Concludes(r, events)
    /\ r \in Open /\ ~finished[r] /\ ~overtaken =>
         \E shows : Leads(r, AnswerIn(chat, target[r]), events, shows, sent[r])
    /\ Framed(Pending(r)', SubSeq(events, m + 1, Len(events)))
    /\ handleEach(chat, target[r], FramesOf(Pending(r), m)) = chat'
    /\ finished'[r] <=> finished[r] \/ Concluded(events, m)

LEMMA ReadIs ==
  ASSUME IInv, NEW r \in Runs, Read(r)
  PROVE  /\ \E events \in Seq(Events) : \E m \in 0..Len(events) : ReadsEvents(r, events, m)
         /\ wire' \in [Runs -> Seq(Pieces)] /\ buffer' \in [Runs -> Seq(Pieces)]
         /\ finished' \in [Runs -> BOOLEAN]
         /\ \A q \in Runs : Len(wire'[q]) <= 3 * MaxInFlight /\ Len(buffer'[q]) <= 2
<1> DEFINE a == buffer[r]
           b == wire[r]
           text == a \o b
<1>1. /\ wire \in [Runs -> Seq(Pieces)] /\ buffer \in [Runs -> Seq(Pieces)]
      /\ finished \in [Runs -> BOOLEAN] /\ a \in Seq(Pieces) /\ b \in Seq(Pieces)
      /\ \A q \in Runs : Len(wire[q]) <= 3 * MaxInFlight /\ Len(buffer[q]) <= 2
  BY DEF IInv, TypeInv
<1>2. PICK n \in 1..Len(b) :
        LET drained == drainFrames(a \o SubSeq(b, 1, n))
        IN  /\ wire' = [wire EXCEPT ![r] = SubSeq(@, n + 1, Len(@))]
            /\ buffer' = [buffer EXCEPT ![r] = drained.rest]
            /\ finished' = [finished EXCEPT ![r] = @ \/ \E i \in DOMAIN drained.frames :
                              /\ drained.frames[i] # LineEnd
                              /\ drained.frames[i][2].event \in {"done", "error"}]
            /\ chat' = handleEach(chat, target[r], drained.frames)
  BY DEF Read
<1> DEFINE L == Len(a) + n
<1>3. /\ L \in 0..Len(text) /\ text \in Seq(Pieces)
      /\ a \o SubSeq(b, 1, n) = Chunk(text, L)
      /\ \A j \in 1..L + 1 : SubSeq(text, j, L) \o SubSeq(b, n + 1, Len(b)) = SubSeq(text, j, Len(text))
  BY <1>1, ChunkTaken
<1>4. PICK events \in Seq(Events) :
        /\ Framed(text, events)
        /\ Concludes(r, events)
        /\ r \in Open /\ ~finished[r] /\ ~overtaken =>
             \E shows : Leads(r, AnswerIn(chat, target[r]), events, shows, sent[r])
  BY DEF IInv, StreamInv, Pending
<1> HIDE DEF text, L
<1>5. PICK m \in 0..Len(events) :
        /\ 3 * m <= L /\ L <= 3 * m + 2
        /\ drainFrames(Chunk(text, L)).frames = FramesOf(text, m)
        /\ drainFrames(Chunk(text, L)).rest = SubSeq(text, 3 * m + 1, L)
  BY <1>3, <1>4, Drained
<1>6. m \in Nat /\ L \in Nat /\ Len(text) \in Nat /\ L <= Len(text)
  BY <1>3, LenProperties
<1> DEFINE left == SubSeq(b, n + 1, Len(b))
           rest == SubSeq(text, 3 * m + 1, L)
           frames == FramesOf(text, m)
           ends == \E i \in DOMAIN frames :
                     frames[i] # LineEnd /\ frames[i][2].event \in {"done", "error"}
<1>7. /\ wire' = [wire EXCEPT ![r] = left]
      /\ buffer' = [buffer EXCEPT ![r] = rest]
      /\ finished' = [finished EXCEPT ![r] = @ \/ ends]
      /\ chat' = handleEach(chat, target[r], frames)
  BY <1>2, <1>3, <1>5
<1>8. left \in Seq(Pieces) /\ Len(left) <= Len(b)
  <2>1. Len(b) \in 0..Len(b) /\ n + 1 \in 1..Len(b) + 1
    BY <1>1, LenProperties
  <2>2. left \in Seq(Pieces) /\ Len(left) = Len(b) + 1 - (n + 1)
    BY <1>1, <2>1, SubSeqIs
  <2>3. n \in Nat /\ Len(b) \in Nat
    BY <1>1, LenProperties
  <2> HIDE DEF left, b
  <2>4. Len(left) <= Len(b)
    BY <2>2, <2>3
  <2> QED BY <2>2, <2>4
<1>9. rest \in Seq(Pieces) /\ Len(rest) <= 2
  <2>1. 3 * m + 1 \in 1..L + 1
    BY <1>5, <1>6
  <2>2. rest \in Seq(Pieces) /\ Len(rest) = L + 1 - (3 * m + 1)
    BY <1>3, <2>1, SubSeqIs
  <2> HIDE DEF rest
  <2> QED BY <1>5, <1>6, <2>2
<1>10. LastOnly(events)
  BY <1>4 DEF Concludes, LastOnly
<1>11. ends <=> Concluded(events, m)
  BY <1>3, <1>4, <1>10, FinishedBy
<1> HIDE DEF left, rest, frames, ends
<1>12. /\ wire'[r] = left /\ buffer'[r] = rest
       /\ finished'[r] <=> finished[r] \/ Concluded(events, m)
  BY <1>1, <1>7, <1>11
<1>13. Framed(Pending(r)', SubSeq(events, m + 1, Len(events)))
  <2>1. rest \o left = SubSeq(text, 3 * m + 1, Len(text))
    <3>1. 3 * m + 1 \in 1..L + 1
      BY <1>5, <1>6
    <3> QED BY <1>3, <3>1 DEF rest, left
  <2>2. Framed(SubSeq(text, 3 * m + 1, Len(text)), SubSeq(events, m + 1, Len(events)))
    BY <1>3, <1>4, FramedRest
  <2>3. Pending(r)' = rest \o left
    BY <1>12 DEF Pending
  <2> QED BY <2>1, <2>2, <2>3
<1>14. Pending(r) = text
  BY DEF Pending, text
<1>15. ReadsEvents(r, events, m)
  BY <1>4, <1>7, <1>12, <1>13, <1>14 DEF ReadsEvents, frames
<1>16. wire' \in [Runs -> Seq(Pieces)] /\ buffer' \in [Runs -> Seq(Pieces)]
  BY <1>1, <1>7, <1>8, <1>9
<1>17. finished' \in [Runs -> BOOLEAN]
  BY <1>1, <1>7
<1>18. ASSUME NEW q \in Runs PROVE Len(wire'[q]) <= 3 * MaxInFlight /\ Len(buffer'[q]) <= 2
  <2>1. CASE q = r
    <3>1. Len(b) \in Nat /\ Len(left) \in Nat /\ MaxInFlight \in Nat
      BY <1>1, <1>8, AssistantAssumption, LenProperties
    <3>2. Len(b) <= 3 * MaxInFlight
      BY <1>1
    <3>3. Len(left) <= 3 * MaxInFlight
      <4> HIDE DEF b
      <4> QED BY <1>8, <3>1, <3>2
    <3> QED BY <1>9, <1>12, <2>1, <3>3
  <2>2. CASE q # r
    BY <1>1, <1>7, <2>2
  <2> QED BY <2>1, <2>2
<1> QED BY <1>15, <1>16, <1>17, <1>18

LEMMA ReadKeeps ==
  ASSUME IInv, NEW r \in Runs, Read(r)
  PROVE  IInv'
<1> DEFINE b == target[r]
<1>1. /\ \E events \in Seq(Events) : \E m \in 0..Len(events) : ReadsEvents(r, events, m)
      /\ wire' \in [Runs -> Seq(Pieces)] /\ buffer' \in [Runs -> Seq(Pieces)]
      /\ finished' \in [Runs -> BOOLEAN]
      /\ \A q \in Runs : Len(wire'[q]) <= 3 * MaxInFlight /\ Len(buffer'[q]) <= 2
  BY ReadIs
<1>0. PICK events \in Seq(Events) : \E m \in 0..Len(events) : ReadsEvents(r, events, m)
  BY <1>1
<1>2. PICK m \in 0..Len(events) : ReadsEvents(r, events, m)
  BY <1>0
<1>3. /\ r \in Open /\ phase[r] = "reading" /\ phase' = phase /\ target' = target /\ request' = request
      /\ server' = server /\ sent' = sent /\ stored' = stored /\ stopped' = stopped
      /\ overtaken' = overtaken /\ abortRef' = abortRef /\ Open' = Open
  BY DEF Read, Open, serverVars
<1>4. RunInv(r) /\ b \in 1..Len(chat.messages) /\ chat \in ChatStates
  BY <1>3 DEF IInv, RunInv, TypeInv
<1>5. LastOnly(events)
  BY <1>2 DEF ReadsEvents, Concludes, LastOnly
<1>6. Pending(r) \in Seq(Pieces)
  <2>1. wire[r] \in Seq(Pieces) /\ buffer[r] \in Seq(Pieces)
    BY DEF IInv, TypeInv
  <2> QED BY <2>1, ConcatProperties DEF Pending
<1>7. m \in Nat /\ Len(events) \in Nat /\ m <= Len(events)
  BY LenProperties
<1> DEFINE ended == Concluded(events, m)
           isDone == m > 0 /\ events[m].event = "done"
<1>8. /\ Touches(chat, b, chat')
      /\ ~ended => chat'.messages[b].status = chat.messages[b].status
      /\ ~isDone => chat'.conversationId = chat.conversationId /\ ShowsAt(chat, b, events, chat', m)
      /\ m > 0 /\ events[m].event = "error" => chat'.messages[b].status = "error"
      /\ isDone =>
           /\ chat'.messages[b].status = "done"
           /\ AnswerIn(chat', b) = [text |-> <<events[m].message>>, cards |-> events[m].tools]
           /\ chat'.conversationId = events[m].conversation_id
  <2>1. handleEach(chat, b, FramesOf(Pending(r), m)) = chat' /\ Framed(Pending(r), events)
    BY <1>2 DEF ReadsEvents
  <2> HIDE DEF b
  <2> QED BY <1>4, <1>5, <1>6, <2>1, ChunkHandled
<1>9. m = 0 => chat' = chat
  <2>1. handleEach(chat, b, FramesOf(Pending(r), 0)) = chat
    <3>1. Framed(Pending(r), events)
      BY <1>2 DEF ReadsEvents
    <3> QED BY <1>6, <3>1, NothingHandled
  <2> QED BY <1>2, <2>1 DEF ReadsEvents
<1>10. m > 0 => ~finished[r]
  BY <1>2, <1>7 DEF ReadsEvents, Concludes
<1>11. /\ finished'[r] <=> finished[r] \/ ended
       /\ ended <=> isDone \/ (m > 0 /\ events[m].event = "error")
  BY <1>2 DEF ReadsEvents, Concluded, Final
<1>12. Moves(r)
  <2>1. \A q \in Runs : q # r => SameRun(q)
    <3>1. \A q \in Runs : q # r => wire'[q] = wire[q] /\ buffer'[q] = buffer[q] /\ finished'[q] = finished[q]
      BY DEF Read, IInv, TypeInv
    <3> QED BY <1>3, <3>1 DEF SameRun
  <2> QED BY <1>3, <1>4, <1>8, <2>1 DEF Moves
<1>13. ASSUME ~overtaken, ~finished[r], ~isDone PROVE AnswerOf(r, AnswerIn(chat', b))
  <2>1. PICK shows : Leads(r, AnswerIn(chat, b), events, shows, sent[r])
    BY <1>2, <1>3, <1>13 DEF ReadsEvents
  <2>2. AnswerIn(chat', b) = shows[m]
    BY <1>8, <1>13, <2>1 DEF ShowsAt
  <2>3. m \in 0..Len(events)
    OBVIOUS
  <2> QED BY <2>1, <2>2, <2>3 DEF Leads
<1>14. RunInv(r)'
  BY <1>3, <1>4, <1>8 DEF RunInv, Touches
<1> DEFINE late == SubSeq(events, m + 1, Len(events))
<1>15. StreamInv(r)'
  <2>1. Framed(Pending(r)', late)
    BY <1>2 DEF ReadsEvents
  <2>2. late \in Seq(Events) /\ Len(late) = Len(events) - m /\ \A k \in 1..Len(events) - m : late[k] = events[m + k]
    BY <1>2, <1>6, FramedRest DEF ReadsEvents
  <2>3. Concludes(r, events)
    BY <1>2 DEF ReadsEvents
  <2>4. Concludes(r, late)'
    <3> HIDE DEF late
    <3>1. ASSUME NEW k \in 1..Len(late), Final(late[k]) PROVE k = Len(late) /\ server'[r] = "ended"
      <4>1. m + k \in 1..Len(events) /\ k \in 1..Len(events) - m
        BY <1>7, <2>2
      <4>2. late[k] = events[m + k]
        BY <2>2, <4>1
      <4>3. m + k = Len(events) /\ server[r] = "ended"
        BY <2>3, <3>1, <4>1, <4>2 DEF Concludes
      <4>4. \A j, l, n \in Nat : j + l = n => l = n - j
        OBVIOUS
      <4>5. k = Len(events) - m
        <5>1. k \in Nat /\ m \in Nat /\ Len(events) \in Nat
          BY <1>7, <4>1
        <5> QED BY <4>3, <4>4, <5>1
      <4> QED BY <1>3, <2>2, <4>3, <4>5
    <3>2. ASSUME NEW k \in 1..Len(late), late[k].event = "done"
          PROVE  /\ r \in stored' /\ late[k].conversation_id = ConversationOf(r)'
                 /\ late[k].message = <<r, 0>> /\ late[k].tools = sent'[r].cards
      <4>1. m + k \in 1..Len(events) /\ k \in 1..Len(events) - m
        BY <1>7, <2>2
      <4>2. late[k] = events[m + k]
        BY <2>2, <4>1
      <4>3. ConversationOf(r)' = ConversationOf(r)
        BY <1>3 DEF ConversationOf
      <4> QED BY <1>3, <2>3, <3>2, <4>1, <4>2, <4>3 DEF Concludes
    <3>3. ASSUME finished'[r] PROVE late = <<>> /\ server'[r] = "ended"
      <4>1. Len(events) = m /\ server[r] = "ended"
        <5>1. CASE finished[r]
          BY <1>7, <2>3, <5>1 DEF Concludes
        <5>2. CASE ended
          <6>1. m \in 1..Len(events) /\ Final(events[m])
            BY <1>7, <5>2 DEF Concluded
          <6> QED BY <2>3, <6>1 DEF Concludes
        <5> QED BY <1>11, <3>3, <5>1, <5>2
      <4>2. Len(late) = 0
        BY <1>7, <2>2, <4>1
      <4> QED BY <1>3, <2>2, <4>1, <4>2, EmptySeq
    <3> QED BY <3>1, <3>2, <3>3 DEF Concludes
  <2>5. ASSUME ~finished'[r], ~overtaken'
        PROVE  \E shows : Leads(r, AnswerIn(chat', b), late, shows, sent'[r])
    <3>1. ~finished[r] /\ ~isDone /\ ~overtaken
      BY <1>3, <1>11, <2>5
    <3>2. PICK shows : Leads(r, AnswerIn(chat, b), events, shows, sent[r])
      BY <1>2, <1>3, <3>1 DEF ReadsEvents
    <3>3. AnswerIn(chat', b) = shows[m]
      BY <1>8, <3>1, <3>2 DEF ShowsAt
    <3>4. \E later : Leads(r, shows[m], late, later, sent[r])
      BY <3>2, LeadsLater
    <3> QED BY <1>3, <3>3, <3>4
  <2> HIDE DEF late
  <2> QED BY <1>3, <2>1, <2>2, <2>4, <2>5 DEF StreamInv
<1>16. ASSUME ~overtaken PROVE SerialInv'
  <2>1. SerialInv /\ (b \in Streaming(chat) <=> ~finished[r])
    BY <1>3, <1>16 DEF IInv, SerialInv, OneRunEach
  <2>2. chat.messages[b].status = "streaming" <=> ~finished[r]
    BY <1>4, <2>1 DEF Streaming
  <2>3. chat'.messages[b].status = "streaming" <=> ~finished'[r]
    <3>1. CASE m = 0
      BY <1>9, <1>11, <2>2, <3>1
    <3>2. CASE m > 0
      <4>1. CASE ended
        BY <1>8, <1>11, <4>1
      <4>2. CASE ~ended
        BY <1>8, <1>10, <1>11, <2>2, <3>2, <4>2
      <4> QED BY <4>1, <4>2
    <3> QED BY <1>7, <3>1, <3>2
  <2>4. ASSUME isDone
        PROVE  /\ r \in stored /\ chat'.conversationId = ConversationOf(r) /\ ~finished[r] /\ finished'[r]
               /\ chat'.messages[b].parts = <<<<r, 0>>>> /\ chat'.messages[b].tools = sent[r].cards
    <3>1. m \in 1..Len(events) /\ events[m].event = "done" /\ m > 0
      BY <1>7, <2>4
    <3>2. /\ r \in stored /\ events[m].conversation_id = ConversationOf(r)
          /\ events[m].message = <<r, 0>> /\ events[m].tools = sent[r].cards
      BY <1>2, <3>1 DEF ReadsEvents, Concludes
    <3> QED BY <1>8, <1>10, <1>11, <2>4, <3>1, <3>2 DEF AnswerIn
  <2>5. \/ chat'.conversationId = chat.conversationId
        \/ /\ chat'.conversationId = ConversationOf(r)
           /\ ~finished[r] /\ ((r \in Open)' => finished'[r])
    BY <1>8, <2>4
  <2>6. Len(chat'.messages[b].tools) <= (MaxEvents + 1) \div 2
    <3>1. CASE m = 0
      BY <1>4, <1>9, <2>1, <3>1 DEF SerialInv, TrailsFit
    <3>2. CASE isDone
      BY <1>4, <2>4, <3>2, CardsFit DEF RunInv
    <3>3. CASE m > 0 /\ ~isDone
      <4>1. AnswerOf(r, AnswerIn(chat', b))
        BY <1>10, <1>13, <1>16, <3>3
      <4>2. Len(AnswerIn(chat', b).cards) <= (MaxEvents + 1) \div 2
        BY <4>1, CardsFit
      <4> QED BY <4>2 DEF AnswerIn
    <3> QED BY <1>7, <3>1, <3>2, <3>3
  <2>7. ASSUME chat'.messages[b].status = "done", NEW parts, parts = chat'.messages[b].parts
        PROVE  StoredOne(parts)' \/ StoppedOne(parts)'
    <3>1. CASE m = 0
      <4>1. StoredOne(parts) \/ StoppedOne(parts)
        BY <1>4, <1>9, <2>1, <2>7, <3>1 DEF SerialInv, DoneIsStored
      <4>2. StoredOne(parts)' <=> StoredOne(parts)
        BY <1>3, <1>9, <3>1 DEF StoredOne, ConversationOf
      <4>3. StoppedOne(parts)' <=> StoppedOne(parts)
        BY <1>3 DEF StoppedOne
      <4> QED BY <4>1, <4>2, <4>3
    <3>2. CASE m > 0
      <4>1. isDone
        <5>1. ended
          BY <1>8, <1>10, <2>2, <2>7, <3>2
        <5> QED BY <1>8, <1>11, <2>7, <5>1
      <4>2. parts = <<<<r, 0>>>> /\ r \in stored' /\ chat'.conversationId = ConversationOf(r)
        BY <1>3, <2>4, <2>7, <4>1
      <4>3. ConversationOf(r)' = ConversationOf(r)
        BY <1>3 DEF ConversationOf
      <4> QED BY <4>2, <4>3 DEF StoredOne
    <3> QED BY <1>7, <3>1, <3>2
  <2>8. Fits(r)
    BY <1>3, <1>11, <2>3, <2>5, <2>6, <2>7 DEF Fits
  <2> QED BY <1>12, <1>16, <2>8, SerialMoved
<1>17. TypeInv'
  <2>1. chat' \in ChatStates /\ Len(chat'.messages) = Len(chat.messages)
    BY <1>8 DEF Touches
  <2> QED BY <1>1, <1>3, <2>1 DEF IInv, TypeInv
<1>18. \A q \in Runs : RunInv(q)' /\ StreamInv(q)'
  BY <1>12, <1>14, <1>15, OthersKept
<1> QED BY <1>3, <1>16, <1>17, <1>18 DEF IInv

-----------------------------------------------------------------------------
(* A run is over.                                                          *)

\* What its bubble shows just before it is settled.
Leaves(r, s) ==
    /\ Touches(chat, target[r], s)
    /\ s.conversationId = chat.conversationId
    /\ AnswerIn(s, target[r]) = AnswerIn(chat, target[r])
    /\ s.messages[target[r]].status \in {chat.messages[target[r]].status, "error"}
    /\ ~overtaken /\ s.messages[target[r]].status = "streaming" => r \in stopped'

LEMMA ReturnsKeep ==
  ASSUME IInv, NEW r \in Runs, r \in Open, NEW s, Leaves(r, s), Returns(r, s),
         stopped \subseteq stopped', stopped' \subseteq Runs
  PROVE  IInv'
<1> DEFINE b == target[r]
<1> USE DEF Returns
<1>1. /\ phase \in [Runs -> {"unused", "paused", "fetching", "reading", "closed"}]
      /\ target \in [Runs -> 0..MaxExchanges]
      /\ wire \in [Runs -> Seq(Pieces)] /\ buffer \in [Runs -> Seq(Pieces)]
      /\ finished \in [Runs -> BOOLEAN] /\ sent \in [Runs -> Answers]
      /\ server \in [Runs -> {"idle", "running", "ended"}]
      /\ chat \in ChatStates
  BY DEF IInv, TypeInv
<1>2. b \in 1..Len(chat.messages) /\ RunInv(r)
  BY DEF IInv, RunInv
<1>3. /\ phase'[r] = "closed" /\ wire'[r] = <<>> /\ buffer'[r] = <<>> /\ sent'[r] = Nothing
      /\ server'[r] = "ended" /\ ~finished'[r] /\ (r \in Open)' = FALSE
  BY <1>1 DEF Open
<1>4. \A q \in Runs : q # r => SameRun(q)
  BY <1>1 DEF SameRun
<1>5. s \in ChatStates /\ b \in 1..Len(s.messages)
  BY <1>2 DEF Leaves, Touches
<1>6. /\ Touches(s, b, chat')
      /\ chat'.conversationId = s.conversationId
      /\ AnswerIn(chat', b) = AnswerIn(s, b)
      /\ s.messages[b].status # "streaming" => chat' = s
      /\ s.messages[b].status = "streaming" =>
           chat'.messages[b].status = IF s.messages[b].parts # <<>> THEN "done" ELSE "error"
  <2>1. chat' = settled(s, b)
    OBVIOUS
  <2> HIDE DEF b
  <2> QED BY <1>5, <2>1, SettledIs
<1> HIDE DEF Returns
<1>7. /\ Touches(chat, b, chat') /\ chat'.conversationId = chat.conversationId
      /\ AnswerIn(chat', b) = AnswerIn(chat, b)
  BY <1>6 DEF Leaves, Touches
<1>8. Moves(r)
  BY <1>2, <1>4, <1>7 DEF Moves, Returns
<1>9. RunInv(r)'
  BY <1>2, <1>3, NothingIs DEF RunInv, Returns
<1>10. StreamInv(r)'
  <2>1. Framed(Pending(r)', <<>>)
    BY <1>3, NoFrames DEF Pending
  <2>2. Concludes(r, <<>>)'
    BY <1>3, NoFrames DEF Concludes
  <2> QED BY <1>3, <2>1, <2>2, NoFrames DEF StreamInv
<1>11. ASSUME ~overtaken PROVE SerialInv'
  <2>1. SerialInv
    BY <1>11 DEF IInv
  <2>2. chat'.messages[b].status # "streaming"
    BY <1>6
  <2>3. Len(chat'.messages[b].tools) <= (MaxEvents + 1) \div 2
    <3>1. chat'.messages[b].tools = chat.messages[b].tools
      BY <1>7 DEF AnswerIn
    <3> QED BY <1>2, <2>1, <3>1 DEF SerialInv, TrailsFit
  <2>4. ASSUME chat'.messages[b].status = "done", NEW parts, parts = chat'.messages[b].parts
        PROVE  StoredOne(parts)' \/ StoppedOne(parts)'
    <3>1. parts = chat.messages[b].parts
      BY <1>7, <2>4 DEF AnswerIn
    <3>2. CASE s.messages[b].status # "streaming"
      <4>1. chat.messages[b].status = "done"
        BY <1>6, <2>4, <3>2 DEF Leaves
      <4>2. StoredOne(parts) \/ StoppedOne(parts)
        BY <1>2, <2>1, <3>1, <4>1 DEF SerialInv, DoneIsStored
      <4>3. StoredOne(parts) => StoredOne(parts)'
        BY <1>7 DEF StoredOne, ConversationOf, Returns
      <4>4. StoppedOne(parts) => StoppedOne(parts)'
        BY DEF StoppedOne
      <4> QED BY <4>2, <4>3, <4>4
    <3>3. CASE s.messages[b].status = "streaming"
      <4>1. r \in stopped' /\ chat.messages[b].status = "streaming"
        BY <1>11, <3>3 DEF Leaves
      <4>2. ~finished[r]
        BY <1>2, <2>1, <4>1 DEF SerialInv, OneRunEach, Streaming
      <4>3. PICK events \in Seq(Events) : \E shows : Leads(r, AnswerIn(chat, b), events, shows, sent[r])
        BY <1>11, <4>2 DEF IInv, StreamInv
      <4>4. AnswerOf(r, AnswerIn(chat, b))
        <5>1. 0 \in 0..Len(events)
          BY LenProperties
        <5> QED BY <4>3, <5>1 DEF Leads
      <4>5. \A n \in 1..Len(parts) : parts[n] = <<r, n>>
        BY <3>1, <4>4 DEF AnswerOf, AnswerIn
      <4>6. parts # <<>>
        <5>1. s.messages[b].parts = parts
          BY <1>6, <2>4 DEF AnswerIn
        <5> QED BY <1>6, <2>4, <3>3, <5>1
      <4> QED BY <4>1, <4>5, <4>6 DEF StoppedOne
    <3> QED BY <3>2, <3>3
  <2>5. Fits(r)
    BY <1>3, <1>7, <2>2, <2>3, <2>4 DEF Fits
  <2> QED BY <1>8, <1>11, <2>5, SerialMoved
<1>12. TypeInv'
  <2>1. chat' \in ChatStates /\ Len(chat'.messages) = Len(chat.messages)
    BY <1>7 DEF Touches
  <2>2. /\ phase' \in [Runs -> {"unused", "paused", "fetching", "reading", "closed"}]
        /\ target' \in [Runs -> 0..MaxExchanges]
        /\ finished' \in [Runs -> BOOLEAN]
        /\ server' \in [Runs -> {"idle", "running", "ended"}]
    BY <1>1, AssistantAssumption DEF Returns, None
  <2>3. wire' \in [Runs -> Seq(Pieces)] /\ buffer' \in [Runs -> Seq(Pieces)]
    BY <1>1 DEF Returns
  <2>4. sent' \in [Runs -> Answers]
    BY <1>1, NothingIs DEF Returns
  <2>5. ASSUME NEW q \in Runs PROVE Len(wire'[q]) <= 3 * MaxInFlight /\ Len(buffer'[q]) <= 2
    <3>1. CASE q = r
      BY <1>3, <3>1, NoFrames, AssistantAssumption
    <3>2. CASE q # r
      BY <1>4, <3>2 DEF SameRun, IInv, TypeInv
    <3> QED BY <3>1, <3>2
  <2> QED BY <2>1, <2>2, <2>3, <2>4, <2>5 DEF IInv, TypeInv, Returns
<1>13. \A q \in Runs : RunInv(q)' /\ StreamInv(q)'
  BY <1>8, <1>9, <1>10, OthersKept
<1>14. overtaken' = overtaken
  BY DEF Returns
<1> QED BY <1>11, <1>12, <1>13, <1>14 DEF IInv

LEMMA ErrorLeaves ==
  ASSUME IInv, NEW r \in Runs, r \in Open
  PROVE  Leaves(r, error(chat, target[r]))
<1>1. chat \in ChatStates /\ target[r] \in 1..Len(chat.messages)
  BY DEF IInv, TypeInv, RunInv
<1>2. /\ Touches(chat, target[r], error(chat, target[r]))
      /\ error(chat, target[r]).conversationId = chat.conversationId
      /\ error(chat, target[r]).messages[target[r]].status = "error"
      /\ AnswerIn(error(chat, target[r]), target[r]) = AnswerIn(chat, target[r])
  BY <1>1, ErrorIs
<1> QED BY <1>2 DEF Leaves

\* The bubble as it is, when the run has concluded or the user stops it.
LEMMA SameLeaves ==
  ASSUME IInv, NEW r \in Runs, r \in Open, finished[r] \/ r \in stopped'
  PROVE  Leaves(r, chat)
<1>1. chat \in ChatStates /\ target[r] \in 1..Len(chat.messages)
  BY DEF IInv, TypeInv, RunInv
<1>2. Touches(chat, target[r], chat)
  BY <1>1 DEF Touches
<1>3. ~overtaken /\ chat.messages[target[r]].status = "streaming" => r \in stopped'
  BY <1>1 DEF IInv, SerialInv, OneRunEach, Streaming
<1> QED BY <1>2, <1>3 DEF Leaves

LEMMA FetchFailsKeeps ==
  ASSUME IInv, NEW r \in Runs, FetchFails(r)
  PROVE  IInv'
<1>1. r \in Open /\ stopped \subseteq stopped' /\ stopped' \subseteq Runs
  BY DEF FetchFails, Open, IInv, TypeInv
<1>2. Leaves(r, error(chat, target[r]))
  BY <1>1, ErrorLeaves
<1>3. Returns(r, error(chat, target[r]))
  BY DEF FetchFails
<1> QED BY <1>1, <1>2, <1>3, ReturnsKeep

LEMMA EndKeeps ==
  ASSUME IInv, NEW r \in Runs, phase[r] = "reading", Returns(r, AfterEnd(r)), UNCHANGED stopped
  PROVE  IInv'
<1>1. r \in Open /\ stopped \subseteq stopped' /\ stopped' \subseteq Runs
  BY DEF Open, IInv, TypeInv
<1>2. Leaves(r, AfterEnd(r))
  BY <1>1, ErrorLeaves, SameLeaves DEF AfterEnd
<1> QED BY <1>1, <1>2, ReturnsKeep

LEMMA StopKeeps ==
  ASSUME IInv, Stop
  PROVE  IInv'
<1>1. abortRef \in Runs /\ abortRef \in Open
  BY DEF Stop, IInv, TypeInv, Open
<1>2. stopped \subseteq stopped' /\ stopped' \subseteq Runs /\ abortRef \in stopped'
  BY <1>1 DEF Stop, IInv, TypeInv
<1>3. Leaves(abortRef, chat)
  BY <1>1, <1>2, SameLeaves
<1>4. Returns(abortRef, chat)
  BY DEF Stop
<1> QED BY <1>1, <1>2, <1>3, <1>4, ReturnsKeep

-----------------------------------------------------------------------------
(* A run begins.                                                           *)

Begins(r, b, question) ==
    /\ phase[r] = "unused"
    /\ target' = [target EXCEPT ![r] = b]
    /\ request' = [request EXCEPT ![r] = [message |-> question, conversation_id |-> chat.conversationId]]
    /\ \/ phase' = [phase EXCEPT ![r] = "fetching"] /\ abortRef' = r
       \/ phase' = [phase EXCEPT ![r] = "paused"] /\ UNCHANGED abortRef
    /\ UNCHANGED <<streamVars, serverVars, stopped>>

\* Its bubble is empty and streaming, the others are as before.
Shown(b) ==
    /\ chat' \in ChatStates /\ b \in 1..Len(chat'.messages)
    /\ Len(chat.messages) <= Len(chat'.messages) /\ Len(chat'.messages) <= MaxExchanges
    /\ \A x \in 1..Len(chat'.messages) :
         x # b => x \in 1..Len(chat.messages) /\ chat'.messages[x] = chat.messages[x]
    /\ chat'.messages[b].parts = <<>> /\ chat'.messages[b].tools = <<>>
    /\ chat'.messages[b].status = "streaming"
    /\ chat'.conversationId = chat.conversationId

LEMMA BeginKeeps ==
  ASSUME IInv, NEW r \in Runs, NEW b, NEW question \in 0..MaxExchanges,
         Begins(r, b, question), Shown(b), Streaming(chat) = {},
         overtaken => overtaken', overtaken' \in BOOLEAN,
         ~overtaken' => \A q \in Open : target[q] # b
  PROVE  IInv'
<1>1. /\ phase \in [Runs -> {"unused", "paused", "fetching", "reading", "closed"}]
      /\ target \in [Runs -> 0..MaxExchanges]
      /\ request \in [Runs -> [message : 0..MaxExchanges, conversation_id : Runs \cup {None}]]
      /\ chat \in ChatStates /\ MaxExchanges \in Nat
      /\ Len(chat.messages) \in Nat /\ Len(chat'.messages) \in Nat
  <2>1. chat.messages \in Seq(Bubbles) /\ chat'.messages \in Seq(Bubbles)
    BY DEF IInv, TypeInv, Shown, ChatStates
  <2> QED BY <2>1, LenProperties, AssistantAssumption DEF IInv, TypeInv
<1>2. RunInv(r) /\ r \notin Open /\ ~finished[r] /\ buffer[r] = <<>> /\ wire[r] = <<>> /\ sent[r] = Nothing
      /\ r \notin stored
  BY DEF IInv, RunInv, Begins, Open
<1>3. /\ phase'[r] \in {"fetching", "paused"} /\ target'[r] = b
      /\ request'[r].conversation_id = chat.conversationId
      /\ \A q \in Runs : q # r => SameRun(q)
      /\ wire' = wire /\ buffer' = buffer /\ finished' = finished /\ server' = server /\ sent' = sent
      /\ stored' = stored /\ stopped' = stopped
  BY <1>1 DEF Begins, SameRun, streamVars, serverVars
<1>4. /\ (r \in Open)' /\ (\A q \in Open' : q \in Runs) /\ (\A q \in Open : q \in Runs /\ q # r)
      /\ \A q \in Runs : q # r => ((q \in Open)' <=> q \in Open)
  BY <1>2, <1>3 DEF Open, SameRun
<1>5. AnswerIn(chat', b) = Nothing
  BY DEF AnswerIn, Shown, Nothing
<1>6. RunInv(r)'
  BY <1>2, <1>3, <1>4 DEF RunInv, Shown
<1>7. StreamInv(r)'
  <2>1. Framed(Pending(r)', <<>>)
    BY <1>2, <1>3, NoFrames DEF Pending
  <2>2. Concludes(r, <<>>)'
    BY <1>2, <1>3, NoFrames DEF Concludes
  <2>3. \E shows : Leads(r, AnswerIn(chat', target'[r]), <<>>, shows, sent'[r])
    BY <1>2, <1>3, <1>5, NothingIs, NoFrames
  <2> QED BY <2>1, <2>2, <2>3, NoFrames DEF StreamInv
<1>8. ASSUME NEW q \in Runs, q # r PROVE RunInv(q)' /\ StreamInv(q)'
  <2>1. RunInv(q) /\ StreamInv(q) /\ SameRun(q)
    BY <1>3, <1>8 DEF IInv
  <2>2. ASSUME q \in Open, ~finished[q], ~overtaken'
        PROVE  AnswerIn(chat', target[q]) = AnswerIn(chat, target[q])
    <3>1. target[q] # b /\ target[q] \in 1..Len(chat.messages)
      BY <2>1, <2>2 DEF RunInv
    <3>2. target[q] \in 1..Len(chat'.messages)
      BY <1>1, <3>1 DEF Shown
    <3>3. chat'.messages[target[q]] = chat.messages[target[q]]
      BY <3>1, <3>2 DEF Shown
    <3> QED BY <3>3 DEF AnswerIn
  <2>3. Len(chat.messages) <= Len(chat'.messages)
    BY DEF Shown
  <2> QED BY <1>1, <2>1, <2>2, <2>3, RunKept
<1>9. ASSUME ~overtaken' PROVE SerialInv'
  <2>1. SerialInv /\ \A q \in Open : target[q] # b
    BY <1>9 DEF IInv
  <2>2. Streaming(chat') = {b}
    BY DEF Streaming, Shown
  <2>3. \A q \in Open : finished[q]
    BY <2>1 DEF SerialInv, OneRunEach
  <2>4. ASSUME NEW q \in Open', q # r
        PROVE  q \in Open /\ target'[q] = target[q] /\ target'[q] # b /\ finished'[q]
    <3>1. q \in Runs /\ q \in Open
      BY <1>4, <2>4
    <3>2. target'[q] = target[q] /\ finished'[q] = finished[q]
      BY <1>3, <2>4, <3>1 DEF SameRun
    <3> QED BY <2>1, <2>3, <3>1, <3>2
  <2>5. OneRunEach'
    <3>1. \A p, q \in Open' : target'[p] = target'[q] => p = q
      <4> SUFFICES ASSUME NEW p \in Open', NEW q \in Open', target'[p] = target'[q] PROVE p = q
        OBVIOUS
      <4>1. CASE p = r \/ q = r
        BY <1>3, <2>4, <4>1
      <4>2. CASE p # r /\ q # r
        BY <2>1, <2>4, <4>2 DEF SerialInv, OneRunEach
      <4> QED BY <4>1, <4>2
    <3>2. \A q \in Open' : target'[q] \in Streaming(chat') <=> ~finished'[q]
      BY <1>2, <1>3, <2>2, <2>4
    <3>3. \A x \in Streaming(chat') : \E q \in Open' : target'[q] = x
      BY <1>3, <1>4, <2>2
    <3>4. \A x, y \in Streaming(chat') : x = y
      BY <2>2
    <3> QED BY <3>1, <3>2, <3>3, <3>4 DEF OneRunEach
  <2>6. SameConversation'
    <3>1. chat'.conversationId = chat.conversationId
      BY DEF Shown
    <3>2. ASSUME NEW q \in Open', ~finished'[q] PROVE request'[q].conversation_id = chat'.conversationId
      <4>1. q = r
        BY <2>4, <3>2
      <4> QED BY <1>3, <3>1, <4>1
    <3> QED BY <3>2 DEF SameConversation
  <2>7. TrailsFit'
    <3>1. ASSUME NEW x \in 1..Len(chat'.messages)
          PROVE  Len(chat'.messages[x].tools) <= (MaxEvents + 1) \div 2
      <4>1. CASE x = b
        <5>1. Len(chat'.messages[x].tools) = 0
          BY <4>1, NoFrames DEF Shown
        <5> QED BY <5>1, AssistantAssumption
      <4>2. CASE x # b
        <5>1. x \in 1..Len(chat.messages) /\ chat'.messages[x] = chat.messages[x]
          BY <4>2 DEF Shown
        <5> QED BY <2>1, <5>1 DEF SerialInv, TrailsFit
      <4> QED BY <4>1, <4>2
    <3> QED BY <3>1 DEF TrailsFit
  <2>8. DoneIsStored'
    <3>1. ASSUME NEW x \in 1..Len(chat'.messages), chat'.messages[x].status = "done",
                 NEW parts, parts = chat'.messages[x].parts
          PROVE  StoredOne(parts)' \/ StoppedOne(parts)'
      <4>1. x # b
        BY <3>1 DEF Shown
      <4>2. x \in 1..Len(chat.messages) /\ chat'.messages[x] = chat.messages[x]
        BY <4>1 DEF Shown
      <4>3. StoredOne(parts) \/ StoppedOne(parts)
        BY <2>1, <3>1, <4>2 DEF SerialInv, DoneIsStored
      <4>4. ASSUME StoredOne(parts) PROVE StoredOne(parts)'
        <5>1. PICK q \in stored : parts = <<<<q, 0>>>> /\ ConversationOf(q) = chat.conversationId
          BY <4>4 DEF StoredOne
        <5>2. q \in Runs /\ q # r
          BY <1>2 DEF IInv, TypeInv
        <5>3. request'[q] = request[q] /\ q \in stored' /\ chat'.conversationId = chat.conversationId
          BY <1>3, <5>2 DEF SameRun, Shown
        <5>4. ConversationOf(q)' = ConversationOf(q)
          BY <5>3 DEF ConversationOf
        <5> QED BY <5>1, <5>3, <5>4 DEF StoredOne
      <4>5. StoppedOne(parts) => StoppedOne(parts)'
        BY <1>3 DEF StoppedOne
      <4> QED BY <4>3, <4>4, <4>5
    <3> QED BY <3>1 DEF DoneIsStored, StoredOne, StoppedOne
  <2> QED BY <2>5, <2>6, <2>7, <2>8 DEF SerialInv
<1>10. TypeInv'
  <2>1. b \in 0..MaxExchanges
    BY <1>1 DEF Shown
  <2>2. target' \in [Runs -> 0..MaxExchanges]
    BY <1>1, <2>1 DEF Begins
  <2>3. request' \in [Runs -> [message : 0..MaxExchanges, conversation_id : Runs \cup {None}]]
    <3>1. chat.conversationId \in Runs \cup {None}
      BY <1>1 DEF ChatStates
    <3> QED BY <1>1, <3>1 DEF Begins
  <2>4. phase' \in [Runs -> {"unused", "paused", "fetching", "reading", "closed"}] /\ abortRef' \in Runs \cup {None}
    BY <1>1 DEF Begins, IInv, TypeInv
  <2>5. chat' \in ChatStates /\ Len(chat'.messages) <= MaxExchanges
    BY DEF Shown
  <2> QED BY <1>3, <2>2, <2>3, <2>4, <2>5 DEF IInv, TypeInv
<1> QED BY <1>6, <1>7, <1>8, <1>9, <1>10 DEF IInv

LEMMA MutateBegins ==
  ASSUME NEW b, NEW question, Mutate(b, question)
  PROVE  \E r \in Runs : Begins(r, b, question)
BY DEF Mutate, Begins

LEMMA SendKeeps ==
  ASSUME IInv, Send
  PROVE  IInv'
<1> DEFINE n == Len(chat.messages) + 1
           m == [question |-> n, parts |-> <<>>, tools |-> <<>>, status |-> "streaming"]
<1>1. chat \in ChatStates /\ chat.messages \in Seq(Bubbles) /\ Len(chat.messages) \in Nat /\ MaxExchanges \in Nat
  BY AssistantAssumption, LenProperties DEF IInv, TypeInv, ChatStates
<1>2. n \in 1..MaxExchanges
  BY <1>1 DEF Send
<1>3. m \in Bubbles
  BY <1>2 DEF Bubbles
<1>4. PICK r \in Runs : Begins(r, n, n)
  <2>1. Mutate(n, n)
    BY DEF Send
  <2> HIDE DEF n
  <2> QED BY <2>1, MutateBegins
<1>5. Streaming(chat) = {}
  BY <1>1 DEF Send, streaming, Streaming
<1>6. chat' = [messages |-> Append(chat.messages, m), conversationId |-> chat.conversationId, lastSent |-> n]
  BY <1>1 DEF Send, exchange_started, ChatStates
<1>7. /\ Append(chat.messages, m) \in Seq(Bubbles) /\ Len(Append(chat.messages, m)) = n
      /\ Append(chat.messages, m)[n] = m
      /\ \A x \in 1..Len(chat.messages) : Append(chat.messages, m)[x] = chat.messages[x]
  <2> HIDE DEF m
  <2> QED BY <1>1, <1>3
<1>8. Shown(n)
  <2>1. chat'.messages = Append(chat.messages, m) /\ chat'.conversationId = chat.conversationId /\ chat' \in ChatStates
    BY <1>1, <1>2, <1>6, <1>7 DEF ChatStates
  <2>2. m.parts = <<>> /\ m.tools = <<>> /\ m.status = "streaming"
    OBVIOUS
  <2>3. \A x \in 1..n : x # n => x \in 1..Len(chat.messages)
    BY <1>1
  <2>4. n \in 1..n /\ Len(chat.messages) <= n /\ n <= MaxExchanges
    BY <1>1, <1>2
  <2> HIDE DEF m, n
  <2> QED BY <1>7, <2>1, <2>2, <2>3, <2>4 DEF Shown
<1>9. overtaken' = overtaken /\ overtaken \in BOOLEAN
  BY DEF Send, IInv, TypeInv
<1>10. \A q \in Open : target[q] # n
  <2>1. \A q \in Open : target[q] \in 1..Len(chat.messages)
    BY DEF IInv, RunInv, Open
  <2> QED BY <1>1, <2>1
<1>11. n \in 0..MaxExchanges
  BY <1>2
<1> HIDE DEF n
<1> QED BY <1>4, <1>5, <1>8, <1>9, <1>10, <1>11, BeginKeeps

LEMMA Emptied ==
  ASSUME NEW x \in Bubbles, NEW m, m = [x EXCEPT !.parts = <<>>, !.tools = <<>>, !.status = "streaming"]
  PROVE  m \in Bubbles /\ m.parts = <<>> /\ m.tools = <<>> /\ m.status = "streaming"
<1>1. <<>> \in Seq(Fragments) /\ <<>> \in Seq(Cards)
  OBVIOUS
<1>2. [x EXCEPT !.parts = <<>>] \in Bubbles
  BY <1>1 DEF Bubbles
<1>3. [x EXCEPT !.parts = <<>>, !.tools = <<>>] \in Bubbles
  BY <1>1, <1>2 DEF Bubbles
<1>4. m \in Bubbles
  BY <1>3 DEF Bubbles
<1>5. m.parts = <<>> /\ m.tools = <<>> /\ m.status = "streaming"
  BY DEF Bubbles
<1> QED BY <1>4, <1>5

LEMMA RetryKeeps ==
  ASSUME IInv, Retry
  PROVE  IInv'
<1> DEFINE b == Max(Failed)
<1>1. chat \in ChatStates /\ chat.messages \in Seq(Bubbles) /\ Len(chat.messages) \in Nat
      /\ Len(chat.messages) <= MaxExchanges
  BY LenProperties DEF IInv, TypeInv, ChatStates
<1>2. b \in 1..Len(chat.messages)
  <2>1. Failed \subseteq 0..Len(chat.messages) /\ Failed # {}
    BY <1>1 DEF Failed, Retry
  <2>2. b \in Failed
    BY <1>1, <2>1, MaxIs
  <2> QED BY <1>1, <2>2 DEF Failed
<1>3. PICK r \in Runs : Begins(r, b, chat.lastSent)
  BY MutateBegins DEF Retry
<1>4. Streaming(chat) = {}
  BY <1>1 DEF Retry, streaming, Streaming
<1>5. chat' = retry_started(chat, b)
  BY DEF Retry
<1>6. overtaken' = (overtaken \/ \E r1 \in Open : target[r1] = b)
  BY DEF Retry
<1> HIDE DEF b
<1> DEFINE m == [chat.messages[b] EXCEPT !.parts = <<>>, !.tools = <<>>, !.status = "streaming"]
<1>7. m \in Bubbles /\ m.parts = <<>> /\ m.tools = <<>> /\ m.status = "streaming"
  <2>1. chat.messages[b] \in Bubbles
    BY <1>1, <1>2, ElementOfSeq
  <2> QED BY <2>1, Emptied
<1>8. chat' = Put(chat, b, m, chat.conversationId)
  BY <1>1, <1>5 DEF retry_started, ChatStates, Put
<1>9. chat.conversationId \in Runs \cup {None} /\ chat.lastSent \in 0..MaxExchanges
  BY <1>1 DEF ChatStates
<1> HIDE DEF m
<1>10. /\ chat' \in ChatStates
       /\ Len(chat'.messages) = Len(chat.messages)
       /\ chat'.messages[b] = m
       /\ \A x \in 1..Len(chat.messages) : x # b => chat'.messages[x] = chat.messages[x]
       /\ chat'.conversationId = chat.conversationId
  BY <1>1, <1>2, <1>7, <1>8, <1>9, Replaced
<1>11. Shown(b)
  BY <1>1, <1>2, <1>7, <1>10 DEF Shown
<1>12. overtaken => overtaken'
  BY <1>6
<1> DEFINE question == chat.lastSent
<1>13. question \in 0..MaxExchanges /\ Begins(r, b, question)
  BY <1>3, <1>9
<1> HIDE DEF question
<1>14. overtaken' \in BOOLEAN
  BY <1>6 DEF IInv, TypeInv
<1>15. ~overtaken' => \A q \in Open : target[q] # b
  BY <1>6
<1> QED BY <1>4, <1>11, <1>12, <1>13, <1>14, <1>15, BeginKeeps, Zenon

LEMMA UnmountKeeps ==
  ASSUME IInv, Unmount
  PROVE  IInv'
<1> USE DEF Unmount
<1>1. chat' \in ChatStates /\ Len(chat'.messages) = 0
  BY AssistantAssumption DEF ChatStates, initialState, None
<1>2. TypeInv'
  <2>1. /\ MaxExchanges \in Nat /\ MaxInFlight \in Nat /\ Len(chat'.messages) <= MaxExchanges
    BY <1>1, AssistantAssumption
  <2>2. /\ phase' \in [Runs -> {"unused", "paused", "fetching", "reading", "closed"}]
        /\ target' \in [Runs -> 0..MaxExchanges]
        /\ finished' \in [Runs -> BOOLEAN]
        /\ server' \in [Runs -> {"idle", "running", "ended"}]
        /\ abortRef' \in Runs \cup {None}
    BY <2>1 DEF None
  <2>3. wire' \in [Runs -> Seq(Pieces)] /\ buffer' \in [Runs -> Seq(Pieces)]
    OBVIOUS
  <2>4. \A q \in Runs : Len(wire'[q]) <= 3 * MaxInFlight /\ Len(buffer'[q]) <= 2
    BY <2>1
  <2>5. sent' \in [Runs -> Answers]
    BY NothingIs
  <2> QED BY <1>1, <2>1, <2>2, <2>3, <2>4, <2>5 DEF IInv, TypeInv
<1>3. Open' = {}
  BY DEF Open
<1>4. ASSUME NEW r \in Runs PROVE RunInv(r)' /\ StreamInv(r)'
  <2>1. wire'[r] = <<>> /\ buffer'[r] = <<>> /\ sent'[r] = Nothing /\ ~finished'[r] /\ stored' = stored
    OBVIOUS
  <2>2. phase'[r] = "unused" => phase[r] = "unused"
    OBVIOUS
  <2>3. RunInv(r)'
    BY <1>3, <2>1, <2>2, NothingIs DEF RunInv, IInv
  <2>4. Framed(Pending(r)', <<>>)
    BY <2>1, NoFrames DEF Pending
  <2>5. Concludes(r, <<>>)'
    BY <2>1, NoFrames DEF Concludes
  <2> QED BY <1>3, <2>3, <2>4, <2>5, NoFrames DEF StreamInv
<1>5. SerialInv'
  <2>1. Streaming(chat') = {} /\ 1..Len(chat'.messages) = {}
    BY <1>1 DEF Streaming
  <2> QED BY <1>3, <2>1 DEF SerialInv, OneRunEach, SameConversation, TrailsFit, DoneIsStored
<1> QED BY <1>2, <1>4, <1>5 DEF IInv

LEMMA NextIInv ==
  IInv /\ [Next]_vars => IInv'
<1> SUFFICES ASSUME IInv, [Next]_vars PROVE IInv'
  OBVIOUS
<1>1. CASE Send
  BY <1>1, SendKeeps
<1>2. CASE Retry
  BY <1>2, RetryKeeps
<1>3. CASE Stop
  BY <1>3, StopKeeps
<1>4. CASE Unmount
  BY <1>4, UnmountKeeps
<1>5. ASSUME NEW r \in Runs, Progress(r) \/ Resume(r) \/ FetchFails(r) \/ Breaks(r)
      PROVE  IInv'
  <2>1. CASE Receive(r)
    BY <2>1, ReceiveKeeps
  <2>2. CASE ResponseOpens(r)
    BY <2>2, ResponseOpensKeeps
  <2>3. CASE Read(r)
    BY <2>3, ReadKeeps
  <2>4. CASE Closes(r)
    <3>1. phase[r] = "reading" /\ Returns(r, AfterEnd(r)) /\ UNCHANGED stopped
      BY <2>4 DEF Closes
    <3> QED BY <3>1, EndKeeps
  <2>5. CASE Breaks(r)
    <3>1. phase[r] = "reading" /\ Returns(r, AfterEnd(r)) /\ UNCHANGED stopped
      BY <2>5 DEF Breaks
    <3> QED BY <3>1, EndKeeps
  <2>6. CASE Emit(r)
    BY <2>6, EmitKeeps
  <2>7. CASE Conclude(r)
    BY <2>7, ConcludeKeeps
  <2>8. CASE Fail(r)
    BY <2>8, FailKeeps
  <2>9. CASE Resume(r)
    BY <2>9, ResumeKeeps
  <2>10. CASE FetchFails(r)
    BY <2>10, FetchFailsKeeps
  <2> QED BY <1>5, <2>1, <2>2, <2>3, <2>4, <2>5, <2>6, <2>7, <2>8, <2>9, <2>10 DEF Progress
<1>6. CASE UNCHANGED vars
  <2>1. Len(chat.messages) \in Nat /\ Open' = Open
    BY <1>6 DEF IInv, TypeInv, ChatStates, vars, Open
  <2>2. TypeInv'
    BY <1>6 DEF IInv, TypeInv, vars, streamVars, serverVars
  <2>3. ASSUME NEW r \in Runs PROVE RunInv(r)' /\ StreamInv(r)'
    <3>1. SameRun(r) /\ chat' = chat /\ overtaken' = overtaken
      BY <1>6 DEF SameRun, vars, streamVars, serverVars
    <3>2. RunInv(r) /\ StreamInv(r)
      BY DEF IInv
    <3> QED BY <2>1, <3>1, <3>2, RunKept
  <2>4. ~overtaken' => SerialInv'
    BY <1>6, <2>1, SerialKept DEF IInv, vars, streamVars, serverVars
  <2> QED BY <2>2, <2>3, <2>4 DEF IInv
<1> QED BY <1>1, <1>2, <1>3, <1>4, <1>5, <1>6 DEF Next

-----------------------------------------------------------------------------
(* What follows from it                                                    *)

\* The invariant holds of every behaviour of the page.
THEOREM Invariance ==
  Spec => []IInv
<1>1. Init => IInv
  BY InitIInv
<1>2. IInv /\ [Next]_vars => IInv'
  BY NextIInv
<1> QED BY <1>1, <1>2, PTL DEF Spec

LEMMA TypeInvIsEnough ==
  IInv => TypeOK
<1> SUFFICES ASSUME IInv PROVE TypeOK
  OBVIOUS
<1>1. chat \in ChatStates /\ chat.messages \in Seq(Bubbles)
  BY DEF IInv, TypeInv, ChatStates
<1>2. ASSUME NEW b \in DOMAIN chat.messages
      PROVE  LET m == chat.messages[b]
             IN  /\ m.question \in 1..MaxExchanges
                 /\ m.status \in {"streaming", "done", "error"}
                 /\ ~overtaken => Len(m.tools) <= (MaxEvents + 1) \div 2
  <2>1. b \in 1..Len(chat.messages)
    BY <1>1, LenProperties
  <2>2. chat.messages[b] \in Bubbles
    BY <1>1, <2>1, ElementOfSeq
  <2>3. ~overtaken => Len(chat.messages[b].tools) <= (MaxEvents + 1) \div 2
    BY <2>1 DEF IInv, SerialInv, TrailsFit
  <2> QED BY <2>2, <2>3 DEF Bubbles
<1>3. chat.conversationId \in Runs \cup {None} /\ chat.lastSent \in 0..MaxExchanges
  BY <1>1 DEF ChatStates
<1>4. \A r \in Runs : Count(sent[r]) <= MaxEvents
  BY DEF IInv, RunInv, AnswerOf
<1> QED BY <1>2, <1>3, <1>4 DEF TypeOK, IInv, TypeInv

LEMMA OneOrNone ==
  ASSUME NEW S, \A x, y \in S : x = y
  PROVE  Cardinality(S) <= 1 /\ (S # {} => Cardinality(S) = 1)
<1>1. CASE S = {}
  BY <1>1, FS_EmptySet
<1>2. CASE S # {}
  <2>1. PICK x \in S : S = {x}
    BY <1>2
  <2>2. Cardinality({x}) = 1
    BY FS_Singleton
  <2> QED BY <2>1, <2>2
<1> QED BY <1>1, <1>2

\* Stop, a failed fetch, a broken stream, done and error each leave the bubble
\* they end as ended: a bubble is streaming exactly while the one request that
\* is under way is its own (useAssistantChat.ts, mutationFn and stop).
THEOREM BubbleHasRequest ==
  Spec => []StreamingHasRequest
<1>1. IInv => StreamingHasRequest
  <2> SUFFICES ASSUME IInv PROVE StreamingHasRequest
    OBVIOUS
  <2>1. TypeOK
    BY TypeInvIsEnough
  <2>2. ASSUME ~overtaken, NEW b \in DOMAIN chat.messages
        PROVE  chat.messages[b].status = "streaming" <=> Cardinality(Unconcluded(b)) = 1
    <3>1. b \in 1..Len(chat.messages)
      <4>1. chat.messages \in Seq(Bubbles)
        BY DEF IInv, TypeInv, ChatStates
      <4> QED BY <4>1, LenProperties
    <3>2. OneRunEach
      BY <2>2 DEF IInv, SerialInv
    <3>3. \A r, q \in Unconcluded(b) : r = q
      BY <3>2 DEF OneRunEach, Unconcluded
    <3>4. Unconcluded(b) # {} <=> chat.messages[b].status = "streaming"
      <4>1. b \in Streaming(chat) <=> chat.messages[b].status = "streaming"
        BY <3>1 DEF Streaming
      <4>2. ASSUME b \in Streaming(chat) PROVE Unconcluded(b) # {}
        BY <3>2, <4>2 DEF OneRunEach, Unconcluded
      <4>3. ASSUME Unconcluded(b) # {} PROVE b \in Streaming(chat)
        BY <3>2, <4>3 DEF OneRunEach, Unconcluded
      <4> QED BY <4>1, <4>2, <4>3
    <3>5. Unconcluded(b) = {} => Cardinality(Unconcluded(b)) # 1
      BY FS_EmptySet
    <3>6. Unconcluded(b) # {} => Cardinality(Unconcluded(b)) = 1
      BY <3>3, OneOrNone
    <3> QED BY <3>4, <3>5, <3>6
  <2>3. ASSUME ~overtaken PROVE Cardinality({r \in Open : ~finished[r]}) <= 1
    <3>1. OneRunEach
      BY <2>3 DEF IInv, SerialInv
    <3>2. \A x, y \in {r \in Open : ~finished[r]} : x = y
      BY <3>1 DEF OneRunEach
    <3> QED BY <3>2, OneOrNone
  <2> QED BY <2>1, <2>2, <2>3 DEF StreamingHasRequest
<1> QED BY <1>1, Invariance, PTL

\* What a bubble shown as done may hold.
DoneShows(parts) ==
    \/ \E r \in stored : parts = <<<<r, 0>>>> /\ ConversationOf(r) = chat.conversationId
    \/ \E r \in stopped : parts # <<>> /\ parts = [n \in DOMAIN parts |-> <<r, n>>]

LEMMA DoneIsShown ==
  ASSUME IInv, ~overtaken, NEW b \in DOMAIN chat.messages, chat.messages[b].status = "done"
  PROVE  DoneShows(chat.messages[b].parts)
<1>1. chat.messages \in Seq(Bubbles) /\ b \in 1..Len(chat.messages)
  BY LenProperties DEF IInv, TypeInv, ChatStates
<1>2. PICK parts : parts = chat.messages[b].parts
  OBVIOUS
<1>3. parts \in Seq(Fragments)
  <2>1. chat.messages[b] \in Bubbles
    BY <1>1, ElementOfSeq
  <2> QED BY <1>2, <2>1 DEF Bubbles
<1>4. StoredOne(parts) \/ StoppedOne(parts)
  BY <1>1, <1>2 DEF IInv, SerialInv, DoneIsStored
<1>5. CASE StoppedOne(parts)
  <2>1. PICK r \in stopped : parts # <<>> /\ \A n \in 1..Len(parts) : parts[n] = <<r, n>>
    BY <1>5 DEF StoppedOne
  <2>2. parts = [n \in 1..Len(parts) |-> parts[n]] /\ DOMAIN parts = 1..Len(parts)
    BY <1>3
  <2>3. parts = [n \in DOMAIN parts |-> <<r, n>>]
    BY <2>1, <2>2
  <2>4. DoneShows(parts)
    BY <2>1, <2>3 DEF DoneShows
  <2> QED BY <1>2, <2>4
<1>6. CASE StoredOne(parts)
  <2>1. DoneShows(parts)
    BY <1>6 DEF StoredOne, DoneShows
  <2> QED BY <1>2, <2>1
<1> QED BY <1>4, <1>5, <1>6

\* The text of a bubble shown as done is the final text of a stored run of the
\* conversation that goes on, or the tokens that came before Stop (the reducer's
\* done and settled).
THEOREM ShownTextIsStored ==
  Spec => []ShownIsStored
<1>1. IInv => ShownIsStored
  <2>1. ASSUME IInv, ~overtaken
        PROVE  \A b \in DOMAIN chat.messages :
                 chat.messages[b].status = "done" => DoneShows(chat.messages[b].parts)
    BY <2>1, DoneIsShown
  <2> QED BY <2>1, Zenon DEF ShownIsStored, DoneShows
<1> QED BY <1>1, Invariance, PTL

\* However the network cut the stream into chunks, once all of it has been read
\* the bubble shows exactly the tokens and the tool cards the server has sent
\* (drainFrames and the buffer of streamMessage).
THEOREM ChunkingIsInvisible ==
  Spec => []CaughtUp
<1>1. IInv => CaughtUp
  <2> SUFFICES ASSUME IInv, ~overtaken, NEW r \in Runs, phase[r] = "reading", wire[r] = <<>>, ~finished[r]
               PROVE  /\ chat.messages[target[r]].parts = sent[r].text
                      /\ chat.messages[target[r]].tools = sent[r].cards
    BY DEF CaughtUp
  <2>1. r \in Open
    BY DEF Open
  <2>2. PICK events \in Seq(Events) :
          /\ Framed(Pending(r), events)
          /\ \E shows : Leads(r, AnswerIn(chat, target[r]), events, shows, sent[r])
    BY <2>1 DEF IInv, StreamInv
  <2>3. PICK shows : Leads(r, AnswerIn(chat, target[r]), events, shows, sent[r])
    BY <2>2
  <2>4. Len(events) = 0
    <3>1. buffer[r] \in Seq(Pieces) /\ Len(buffer[r]) <= 2
      BY DEF IInv, TypeInv
    <3>2. buffer[r] \o <<>> = buffer[r]
      BY <3>1
    <3>3. Len(buffer[r]) = 3 * Len(events)
      BY <2>2, <3>2 DEF Framed, Pending
    <3>4. Len(events) \in Nat
      BY LenProperties
    <3> QED BY <3>1, <3>3, <3>4
  <2>5. AnswerIn(chat, target[r]) = sent[r]
    BY <2>3, <2>4 DEF Leads
  <2>6. sent[r].text = chat.messages[target[r]].parts /\ sent[r].cards = chat.messages[target[r]].tools
    BY <2>5 DEF AnswerIn
  <2> QED BY <2>6
<1> QED BY <1>1, Invariance, PTL

=============================================================================
