------------------------------- MODULE MCChat -------------------------------
(* A small instance of Chat for TLC. *)
EXTENDS Chat, TLC

CONSTANTS u1, u2

Search(args) == [id |-> "c1", name |-> <<"search">>, args |-> args]
Unknown == [id |-> "c2", name |-> <<"drop">>, args |-> <<"{">>]

\* A final text, an empty answer, two calls with a text; the arguments of the
\* first call come in three pieces.
SmallAnswers ==
    {[text |-> <<"a">>, calls |-> <<>>, stop |-> "stop"],
     [text |-> <<>>, calls |-> <<>>, stop |-> "content_filter"],
     [text |-> <<"a">>, calls |-> <<Search(<<"{", "ok", "}">>), Unknown>>, stop |-> "tool_calls"]}

OneQuestion == {<<"q">>}

-----------------------------------------------------------------------------
(* Four runs in three stages: a conversation with one exchange, two runs   *)
(* that overlap in it or elsewhere, and a run that follows up on both.     *)

\* u1 opens the conversation: it answers in words and is stored.
Opens == Progress(1) /\ answer'[1] \in {None, 200} /\ calls'[1] = <<>> /\ Visible(JoinedText(Last(new'[1])))

\* u1 returns to it; what counts is what is replayed, the provider then fails.
FollowsUp == Progress(4) /\ pc'[4] \in {"llm", "ended"} /\ answer'[4] \in {None, 429}

Served(r) == IF r = 1 THEN Opens ELSE IF r = 4 THEN FollowsUp ELSE Progress(r)

\* The first of the two that overlap may be u2's, who also opens another
\* conversation or asks for that of u1.
Arrives(r) ==
    /\ Authenticate(r)
    /\ conv'[r] \in IF r = 1 THEN {None} ELSE IF r = 2 /\ user'[r] = u2 THEN {None, 1} ELSE {1}
    /\ r # 2 => user'[r] = u1
    /\ IF r = 4 THEN pc[2] = "ended" /\ pc[3] = "ended" ELSE r # 1 => pc[1] = "ended"

StagedNext == \E r \in Runs : Arrives(r) \/ Served(r) \/ (r \in {2, 3} /\ Disconnect(r))

StagedSpec == Init /\ [][StagedNext]_vars /\ \A r \in Runs : WF_vars(Served(r))

=============================================================================
