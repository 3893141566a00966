-------------------------- MODULE AuthTokensProofs --------------------------
(***************************************************************************)
(* Proofs about AuthTokens: superseded links are dead, addresses are       *)
(* verified by a link of their own only, and rows without a password stay  *)
(* locked out.                                                             *)
(*                                                                         *)
(* The three rest on one invariant.  Whoever is past the first SELECT of a *)
(* request that issues or redeems a link has a row with a password, a link *)
(* being redeemed is one of its user's that reached the mailbox, and from  *)
(* invalidate_active on every link that was there when the request began   *)
(* is used or about to be.                                                 *)
(***************************************************************************)
EXTENDS AuthTokens, FiniteSetTheorems, TLAPS

HasPassword(u) == user[u] # Absent /\ user[u].password

\* Links and sign-ins are of users with a password.
OnlyWithPassword ==
    /\ \A t \in Committed : HasPassword(token[t].user)
    /\ \A u \in signedIn : HasPassword(u)

Working == {"issue", "waiting", "issued", "send", "verify", "reset", "flushed"}

\* The session's user, from its first SELECT on.
UserKnown(s) ==
    /\ pc[s] # "idle" => who[s] \in Users
    /\ pc[s] = "inserted" => user[who[s]] = Absent
    /\ pc[s] \in Working => HasPassword(who[s])

\* The link it redeems reached the mailbox of its user; the link it mails is
\* committed.
LinkKnown(s) ==
    /\ pc[s] \in {"issue", "send"} => op[s] \notin {"verify", "reset"}
    /\ pc[s] \in {"waiting", "issued"} => op[s] # "verify"
    /\ pc[s] = "verify" => op[s] = "verify"
    /\ pc[s] \in {"reset", "flushed"} => op[s] = "reset"
    /\ op[s] \in {"verify", "reset"} =>
         tok[s] \in mailed /\ token[tok[s]].user = who[s]
    /\ pc[s] = "send" => tok[s] \in Committed

\* After invalidate_active, every link of its user and purpose that was there
\* when it began is used, or will be by its commit.
Invalidates(s) ==
    /\ aim[s] \subseteq Committed /\ known[s] \subseteq Committed
    /\ pc[s] \in {"waiting", "issued"} =>
         \A t \in known[s] \cap TokensOf(who[s], Purpose(s)) :
           token[t].used \/ t \in aim[s] \/ (op[s] = "reset" /\ t = tok[s])

Local(s) == UserKnown(s) /\ LinkKnown(s) /\ Invalidates(s)

\* The unique address lets one uncommitted row through.
OneInsert ==
    \A s \in Sessions : \A r \in Sessions \ {s} :
      pc[s] = "inserted" /\ pc[r] = "inserted" => who[s] # who[r]

AuthInv ==
    /\ VerifiedByLink
    /\ SupersededDead
    /\ superseded \subseteq Committed
    /\ OnlyWithPassword
    /\ OneInsert
    /\ \A s \in Sessions : Local(s)

-----------------------------------------------------------------------------

SessionsTyped ==
    /\ pc \in [Sessions -> {"idle", "insert", "inserted", "issue", "waiting", "issued", "send",
                            "verify", "reset", "flushed", "error"}]
    /\ op \in [Sessions -> Ops]
    /\ who \in [Sessions -> Users \cup {Absent}]
    /\ tok \in [Sessions -> Tokens \cup {Absent}]
    /\ aim \in [Sessions -> SUBSET Tokens]
    /\ known \in [Sessions -> SUBSET Tokens]

TablesTyped ==
    /\ user \in [Users -> UserRow \cup {Absent}]
    /\ token \in [Tokens -> TokenRow \cup {Absent}]
    /\ expired \subseteq Tokens
    /\ mailed \subseteq Committed
    /\ signedIn \subseteq {u \in Users : user[u] # Absent}
    /\ superseded \subseteq Tokens
    /\ uses \in [Tokens -> Nat]

LEMMA Typed == TypeOK <=> TablesTyped /\ SessionsTyped
BY DEF TypeOK, TablesTyped, SessionsTyped, Committed

LEMMA AuthTyped == AuthInv => TablesTyped /\ SessionsTyped
BY Typed DEF AuthInv, VerifiedByLink

LEMMA InitInv == Init => AuthInv
<1> SUFFICES ASSUME Init PROVE AuthInv
  OBVIOUS
<1>1. [password |-> FALSE, verified |-> FALSE] \in UserRow
  BY DEF UserRow
<1>2. TablesTyped /\ Committed = {}
  BY <1>1 DEF Init, TablesTyped, Committed
<1>3. SessionsTyped
  BY DEF Init, SessionsTyped, Ops
<1>4. \A u \in Users : user[u] # Absent => ~user[u].verified
  BY DEF Init
<1>5. VerifiedByLink /\ SupersededDead /\ superseded \subseteq Committed
  BY <1>2, <1>3, <1>4, Typed DEF Init, VerifiedByLink, SupersededDead
<1>6. OnlyWithPassword /\ OneInsert
  BY <1>2 DEF Init, OnlyWithPassword, OneInsert
<1>7. ASSUME NEW s \in Sessions PROVE Local(s)
  BY DEF Init, Local, UserKnown, LinkKnown, Invalidates, Working
<1>8. QED
  BY <1>5, <1>6, <1>7 DEF AuthInv

-----------------------------------------------------------------------------
(* What a step of session s does to the tables and to the other sessions.  *)

OthersKeep(s) ==
    \A r \in Sessions \ {s} :
      /\ pc'[r] = pc[r] /\ op'[r] = op[r] /\ who'[r] = who[r]
      /\ tok'[r] = tok[r] /\ aim'[r] = aim[r] /\ known'[r] = known[r]

\* Links and users are never deleted, a link keeps its user and purpose, a
\* used one stays used, and a password is never taken away.
Grows ==
    /\ mailed \subseteq mailed'
    /\ \A t \in Committed :
         /\ t \in Committed'
         /\ token'[t].user = token[t].user /\ token'[t].purpose = token[t].purpose
         /\ token[t].used => token'[t].used
    /\ \A u \in Users : HasPassword(u) => HasPassword(u)'

\* Rows of users appear only by the commit of their registration.
Inserts(s) ==
    \A u \in Users : user[u] = Absent /\ user'[u] # Absent =>
      pc[s] = "inserted" /\ u = who[s]

LEMMA OthersLocal ==
    ASSUME AuthInv, NEW s \in Sessions, OthersKeep(s), Grows, Inserts(s), Local(s)'
    PROVE  \A r \in Sessions : Local(r)'
<1> SUFFICES ASSUME NEW r \in Sessions, r # s PROVE Local(r)'
  OBVIOUS
<1>1. /\ pc'[r] = pc[r] /\ op'[r] = op[r] /\ who'[r] = who[r]
      /\ tok'[r] = tok[r] /\ aim'[r] = aim[r] /\ known'[r] = known[r]
  BY DEF OthersKeep
<1>2. Local(r) /\ TablesTyped
  BY AuthTyped DEF AuthInv
<1>3. UserKnown(r)'
  <2>1. pc[r] = "inserted" => user'[who[r]] = Absent
    <3> SUFFICES ASSUME pc[r] = "inserted", user'[who[r]] # Absent PROVE FALSE
      OBVIOUS
    <3>1. who[r] \in Users /\ user[who[r]] = Absent
      BY <1>2 DEF Local, UserKnown
    <3>2. pc[s] = "inserted" /\ who[r] = who[s]
      BY <3>1 DEF Inserts
    <3>3. QED
      BY <3>2 DEF AuthInv, OneInsert
  <2>2. pc[r] \in Working => HasPassword(who[r])'
    BY <1>1, <1>2 DEF Local, UserKnown, Grows, Working, HasPassword
  <2>3. QED
    BY <1>1, <1>2, <2>1, <2>2 DEF Local, UserKnown, HasPassword
<1>4. LinkKnown(r)'
  BY <1>1, <1>2 DEF Local, LinkKnown, Grows, TablesTyped
<1>5. Invalidates(r)'
  <2>1. aim[r] \subseteq Committed' /\ known[r] \subseteq Committed'
    BY <1>2 DEF Local, Invalidates, Grows
  <2>2. ASSUME pc[r] \in {"waiting", "issued"},
               NEW t \in known[r] \cap TokensOf(who[r], Purpose(r))'
        PROVE  token'[t].used \/ t \in aim[r] \/ (op[r] = "reset" /\ t = tok[r])
    <3>1. t \in Committed /\ t \in known[r]
      BY <1>1, <1>2, <2>2 DEF Local, Invalidates
    <3>2. token'[t].user = who[r] /\ token'[t].purpose = Purpose(r)
      BY <1>1, <2>2 DEF TokensOf, Purpose
    <3>3. t \in TokensOf(who[r], Purpose(r))
      BY <3>1, <3>2 DEF Grows, TokensOf
    <3>4. QED
      BY <1>2, <2>2, <3>1, <3>3 DEF Local, Invalidates, Grows
  <2>3. QED
    BY <1>1, <2>1, <2>2 DEF Invalidates
<1>6. QED
  BY <1>3, <1>4, <1>5 DEF Local

\* A step that writes neither users nor links.
LEMMA Quiet ==
    ASSUME AuthInv, NEW s \in Sessions, OthersKeep(s), SessionsTyped', Local(s)', OneInsert',
           UNCHANGED <<user, token, superseded, uses>>,
           expired' \subseteq Tokens, mailed \subseteq mailed', mailed' \subseteq Committed,
           \A u \in signedIn' : u \in Users /\ HasPassword(u)
    PROVE  AuthInv'
<1>1. TablesTyped /\ SessionsTyped
  BY AuthTyped
<1>2. Committed' = Committed /\ \A u : HasPassword(u)' <=> HasPassword(u)
  BY DEF Committed, HasPassword
<1>3. TablesTyped'
  BY <1>1, <1>2 DEF TablesTyped, HasPassword
<1>4. Grows /\ Inserts(s)
  BY <1>2 DEF Grows, Inserts
<1>5. \A r \in Sessions : Local(r)'
  BY <1>4, OthersLocal
<1>6. VerifiedByLink'
  <2>1. TypeOK'
    BY <1>3, Typed DEF TypeOK, TablesTyped, SessionsTyped, Committed
  <2>2. QED
    BY <2>1 DEF AuthInv, VerifiedByLink
<1>7. SupersededDead' /\ superseded' \subseteq Committed'
  BY <1>2 DEF AuthInv, SupersededDead
<1>8. OnlyWithPassword'
  BY <1>2 DEF AuthInv, OnlyWithPassword
<1>9. QED
  BY <1>5, <1>6, <1>7, <1>8 DEF AuthInv

\* A commit: users, links or both change.
LEMMA Commits ==
    ASSUME AuthInv, NEW s \in Sessions, OthersKeep(s), SessionsTyped', TablesTyped',
           Local(s)', pc'[s] # "inserted", Grows, Inserts(s), OnlyWithPassword',
           UNCHANGED mailed,
           \A t \in superseded' : t \in Committed' /\ token'[t].used,
           \A u \in Users : user'[u] # Absent /\ user'[u].verified =>
             \/ user[u] # Absent /\ user[u].verified
             \/ \E t \in mailed : token'[t].user = u /\ token'[t].used
    PROVE  AuthInv'
<1>1. TablesTyped /\ SessionsTyped
  BY AuthTyped
<1>2. \A r \in Sessions : Local(r)'
  BY OthersLocal
<1>3. VerifiedByLink'
  <2>1. TypeOK'
    BY Typed DEF TypeOK, TablesTyped, SessionsTyped, Committed
  <2>2. ASSUME NEW u \in Users, user'[u] # Absent, user'[u].verified
        PROVE  \E t \in mailed' : token'[t].user = u /\ token'[t].used
    <3>1. CASE user[u] # Absent /\ user[u].verified
      <4>1. PICK t \in mailed : token[t].user = u /\ token[t].used
        BY <3>1 DEF AuthInv, VerifiedByLink
      <4>2. t \in Committed
        BY <1>1 DEF TablesTyped
      <4>3. QED
        BY <4>1, <4>2 DEF Grows
    <3>2. QED
      BY <2>2, <3>1
  <2>3. QED
    BY <2>1, <2>2 DEF VerifiedByLink
<1>4. SupersededDead' /\ superseded' \subseteq Committed'
  BY DEF SupersededDead
<1>5. OneInsert'
  BY DEF AuthInv, OneInsert, OthersKeep
<1>6. QED
  BY <1>2, <1>3, <1>4, <1>5 DEF AuthInv

\* The end of a request.
LEMMA Ends ==
    ASSUME SessionsTyped, NEW s \in Sessions, EndRequest(s)
    PROVE  /\ SessionsTyped' /\ OthersKeep(s) /\ Local(s)'
           /\ pc'[s] = "idle" /\ (OneInsert => OneInsert')
<1>1. SessionsTyped' /\ OthersKeep(s)
  BY DEF SessionsTyped, EndRequest, OthersKeep, Ops
<1>2. pc'[s] = "idle" /\ op'[s] = "none" /\ aim'[s] = {} /\ known'[s] = {}
  BY DEF SessionsTyped, EndRequest
<1>3. Local(s)'
  BY <1>2 DEF Local, UserKnown, LinkKnown, Invalidates, Working
<1>4. OneInsert => OneInsert'
  BY <1>1, <1>2 DEF OneInsert, OthersKeep
<1>5. QED
  BY <1>1, <1>2, <1>3, <1>4

\* A request that ends without a commit.
LEMMA EndsOnly ==
    ASSUME AuthInv, NEW s \in Sessions, EndRequest(s),
           UNCHANGED <<user, token, expired, superseded, uses>>,
           mailed \subseteq mailed', mailed' \subseteq Committed,
           \A u \in signedIn' : u \in Users /\ HasPassword(u)
    PROVE  AuthInv'
BY AuthTyped, Ends, Quiet DEF AuthInv, TablesTyped

LEMMA SignedIn == AuthInv => \A u \in signedIn : u \in Users /\ HasPassword(u)
BY AuthTyped DEF AuthInv, OnlyWithPassword, TablesTyped

-----------------------------------------------------------------------------
(* The steps.                                                              *)

\* A request begins.
LEMMA Begins ==
    ASSUME AuthInv, NEW s \in Sessions, NEW o \in Ops, NEW u \in Users,
           NEW at \in {"insert", "issue", "verify", "reset"}, Begin(s, o, u, at),
           at \in Working => HasPassword(u),
           UNCHANGED <<aim, tables, history>>,
           \/ /\ o \notin {"verify", "reset"} /\ at \in {"insert", "issue"}
              /\ UNCHANGED tok
           \/ /\ o = at /\ o \in {"verify", "reset"}
              /\ \E t \in mailed : token[t].user = u /\ tok' = [tok EXCEPT ![s] = t]
    PROVE  AuthInv'
<1>1. TablesTyped /\ SessionsTyped /\ Local(s)
  BY AuthTyped DEF AuthInv
<1>2. mailed \subseteq Committed /\ Committed \subseteq Tokens
  BY <1>1 DEF TablesTyped, Committed
<1>3. SessionsTyped' /\ OthersKeep(s)
  BY <1>1, <1>2 DEF SessionsTyped, Begin, OthersKeep
<1>4. /\ pc'[s] = at /\ op'[s] = o /\ who'[s] = u /\ known'[s] = Committed
      /\ aim'[s] = aim[s]
  BY <1>1 DEF SessionsTyped, Begin
<1>5. UNCHANGED <<user, token, expired, mailed, signedIn, superseded, uses>>
      /\ Committed' = Committed
  BY DEF tables, history, Committed
<1>6. UserKnown(s)'
  BY <1>4, <1>5 DEF UserKnown, HasPassword
<1>7. LinkKnown(s)'
  <2>1. CASE o \notin {"verify", "reset"}
    BY <1>4, <2>1 DEF LinkKnown
  <2>2. CASE o \in {"verify", "reset"}
    <3>1. PICK t \in mailed : token[t].user = u /\ tok' = [tok EXCEPT ![s] = t]
      BY <2>2
    <3>2. tok'[s] = t
      BY <1>1, <3>1 DEF SessionsTyped
    <3>3. QED
      BY <1>4, <1>5, <2>2, <3>1, <3>2 DEF LinkKnown
  <2>3. QED
    BY <2>1, <2>2
<1>8. Invalidates(s)'
  BY <1>1, <1>4, <1>5 DEF Invalidates, Local
<1>9. OneInsert'
  BY <1>3, <1>4 DEF AuthInv, OneInsert, OthersKeep
<1>10. Local(s)' /\ expired' \subseteq Tokens
  BY <1>1, <1>5, <1>6, <1>7, <1>8 DEF Local, TablesTyped
<1>11. QED
  BY <1>2, <1>3, <1>5, <1>9, <1>10, SignedIn, Quiet

LEMMA BeginSteps ==
    ASSUME AuthInv, NEW s \in Sessions,
           \/ Register(s) \/ RequestEmailVerification(s) \/ RequestPasswordReset(s)
           \/ VerifyEmail(s) \/ ResetPassword(s)
    PROVE  AuthInv'
<1>1. TablesTyped
  BY AuthTyped
<1>2. CASE Register(s)
  <2>1. PICK u \in Users : Begin(s, "register", u, "insert")
    BY <1>2 DEF Register
  <2>2. QED
    BY <1>2, <2>1, Begins DEF Register, Ops, Working
<1>3. CASE RequestEmailVerification(s)
  <2>1. PICK u \in signedIn : Begin(s, "request_verification", u, "issue")
    BY <1>3 DEF RequestEmailVerification
  <2>2. u \in Users /\ HasPassword(u)
    BY SignedIn
  <2>3. QED
    BY <1>3, <2>1, <2>2, Begins DEF RequestEmailVerification, Ops
<1>4. CASE RequestPasswordReset(s)
  <2>1. PICK u \in Users : HasPassword(u) /\ Begin(s, "forgot", u, "issue")
    BY <1>4 DEF RequestPasswordReset, HasPassword
  <2>2. QED
    BY <1>4, <2>1, Begins DEF RequestPasswordReset, Ops
<1>5. CASE VerifyEmail(s)
  <2>1. PICK t \in mailed : /\ Begin(s, "verify", token[t].user, "verify")
                            /\ tok' = [tok EXCEPT ![s] = t]
    BY <1>5 DEF VerifyEmail
  <2>2. token[t].user \in Users /\ HasPassword(token[t].user)
    BY <1>1 DEF TablesTyped, Committed, TokenRow, AuthInv, OnlyWithPassword
  <2>3. QED
    BY <1>5, <2>1, <2>2, Begins DEF VerifyEmail, Ops
<1>6. CASE ResetPassword(s)
  <2>1. PICK t \in mailed : /\ Begin(s, "reset", token[t].user, "reset")
                            /\ tok' = [tok EXCEPT ![s] = t]
    BY <1>6 DEF ResetPassword
  <2>2. token[t].user \in Users /\ HasPassword(token[t].user)
    BY <1>1 DEF TablesTyped, Committed, TokenRow, AuthInv, OnlyWithPassword
  <2>3. QED
    BY <1>6, <2>1, <2>2, Begins DEF ResetPassword, Ops
<1>7. QED
  BY <1>2, <1>3, <1>4, <1>5, <1>6

\* Progress of a request that writes no table.
LEMMA InsertStep ==
    ASSUME AuthInv, NEW s \in Sessions, InsertUser(s)
    PROVE  AuthInv'
<1>1. TablesTyped /\ SessionsTyped /\ Local(s)
  BY AuthTyped DEF AuthInv
<1>2. /\ UNCHANGED <<user, token, expired, mailed, signedIn, superseded, uses>>
      /\ pc[s] = "insert" /\ CanWriteUser(s)
  BY DEF InsertUser, tables, history
<1>3. PICK at \in {"inserted", "error"} :
        Goto(s, at) /\ (at = "inserted" => user[who[s]] = Absent)
  BY DEF InsertUser
<1>4. SessionsTyped' /\ OthersKeep(s) /\ pc'[s] = at
      /\ UNCHANGED <<op, who, tok, aim, known>>
  BY <1>1, <1>3 DEF SessionsTyped, Goto, OthersKeep
<1>5. Local(s)'
  BY <1>1, <1>2, <1>3, <1>4
     DEF Local, UserKnown, LinkKnown, Invalidates, HasPassword, Working, Committed
<1>6. OneInsert'
  <2>1. ASSUME NEW r \in Sessions \ {s}, pc[r] = "inserted" PROVE who[s] # who[r]
    BY <1>2, <2>1 DEF CanWriteUser, UserLocks
  <2>2. QED
    BY <1>4, <2>1 DEF AuthInv, OneInsert, OthersKeep
<1>7. expired' \subseteq Tokens /\ mailed \subseteq Committed
  BY <1>1, <1>2 DEF TablesTyped
<1>8. QED
  BY <1>2, <1>4, <1>5, <1>6, <1>7, SignedIn, Quiet

LEMMA InvalidateStep ==
    ASSUME AuthInv, NEW s \in Sessions, InvalidateActive(s)
    PROVE  AuthInv'
<1> DEFINE want == Outstanding(who[s], Purpose(s)) \ (IF op[s] = "reset" THEN {tok[s]} ELSE {})
<1>1. TablesTyped /\ SessionsTyped /\ Local(s)
  BY AuthTyped DEF AuthInv
<1>2. /\ UNCHANGED <<user, token, expired, mailed, signedIn, superseded, uses>>
      /\ UNCHANGED <<op, who, tok, known>>
      /\ pc[s] \in {"issue", "flushed"}
      /\ aim' = [aim EXCEPT ![s] = want]
      /\ pc' = [pc EXCEPT ![s] = "waiting"]
  BY DEF InvalidateActive, tables, history
<1>3. want \subseteq Committed /\ Committed \subseteq Tokens /\ Committed' = Committed
  BY <1>2 DEF Outstanding, TokensOf, Committed
<1>4. \A t \in TokensOf(who[s], Purpose(s)) :
        token[t].used \/ t \in want \/ (op[s] = "reset" /\ t = tok[s])
  BY DEF Outstanding
<1> HIDE DEF want
<1>5. SessionsTyped' /\ OthersKeep(s) /\ pc'[s] = "waiting" /\ aim'[s] = want
  BY <1>1, <1>2, <1>3 DEF SessionsTyped, OthersKeep
<1>6. UserKnown(s)' /\ LinkKnown(s)'
  BY <1>1, <1>2, <1>5 DEF Local, UserKnown, LinkKnown, HasPassword, Working
<1>7. Invalidates(s)'
  <2>1. TokensOf(who[s], Purpose(s))' = TokensOf(who[s], Purpose(s))
    BY <1>2, <1>3 DEF TokensOf, Purpose
  <2>2. QED
    BY <1>1, <1>2, <1>3, <1>4, <1>5, <2>1 DEF Local, Invalidates
<1>8. OneInsert' /\ expired' \subseteq Tokens /\ mailed \subseteq Committed
  BY <1>1, <1>2, <1>5 DEF AuthInv, OneInsert, OthersKeep, TablesTyped
<1>9. QED
  BY <1>2, <1>5, <1>6, <1>7, <1>8, SignedIn, Quiet DEF Local

LEMMA RowsMarkedStep ==
    ASSUME AuthInv, NEW s \in Sessions, RowsMarked(s)
    PROVE  AuthInv'
<1>1. TablesTyped /\ SessionsTyped /\ Local(s)
  BY AuthTyped DEF AuthInv
<1>2. /\ UNCHANGED <<user, token, expired, mailed, signedIn, superseded, uses>>
      /\ UNCHANGED <<op, who, tok, known>>
      /\ pc[s] = "waiting"
      /\ aim' = [aim EXCEPT ![s] = {t \in @ : ~token[t].used}]
      /\ pc' = [pc EXCEPT ![s] = "issued"]
  BY DEF RowsMarked, tables, history
<1>3. SessionsTyped' /\ OthersKeep(s) /\ pc'[s] = "issued"
      /\ aim'[s] = {t \in aim[s] : ~token[t].used}
  BY <1>1, <1>2 DEF SessionsTyped, OthersKeep
<1>4. UserKnown(s)' /\ LinkKnown(s)'
  BY <1>1, <1>2, <1>3 DEF Local, UserKnown, LinkKnown, HasPassword, Working
<1>5. Invalidates(s)'
  <2>1. TokensOf(who[s], Purpose(s))' = TokensOf(who[s], Purpose(s)) /\ Committed' = Committed
    BY <1>2 DEF TokensOf, Purpose, Committed
  <2>2. QED
    BY <1>1, <1>2, <1>3, <2>1 DEF Local, Invalidates
<1>6. OneInsert' /\ expired' \subseteq Tokens /\ mailed \subseteq Committed
  BY <1>1, <1>2, <1>3 DEF AuthInv, OneInsert, OthersKeep, TablesTyped
<1>7. QED
  BY <1>2, <1>3, <1>4, <1>5, <1>6, SignedIn, Quiet DEF Local

LEMMA FlushStep ==
    ASSUME AuthInv, NEW s \in Sessions, ResetFlush(s)
    PROVE  AuthInv'
<1>1. TablesTyped /\ SessionsTyped /\ Local(s)
  BY AuthTyped DEF AuthInv
<1>2. /\ UNCHANGED <<user, token, expired, mailed, signedIn, superseded, uses>>
      /\ pc[s] = "reset" /\ Goto(s, "flushed")
  BY DEF ResetFlush, tables, history
<1>3. SessionsTyped' /\ OthersKeep(s) /\ pc'[s] = "flushed"
      /\ UNCHANGED <<op, who, tok, aim, known>>
  BY <1>1, <1>2 DEF SessionsTyped, Goto, OthersKeep
<1>4. Local(s)'
  BY <1>1, <1>2, <1>3
     DEF Local, UserKnown, LinkKnown, Invalidates, HasPassword, Working, Committed
<1>5. OneInsert' /\ expired' \subseteq Tokens /\ mailed \subseteq Committed
  BY <1>1, <1>2, <1>3 DEF AuthInv, OneInsert, OthersKeep, TablesTyped
<1>6. QED
  BY <1>2, <1>3, <1>4, <1>5, SignedIn, Quiet

\* The e-mail, with a JWT for a new user, and the ways a request ends.
LEMMA SendStep ==
    ASSUME AuthInv, NEW s \in Sessions, SendLink(s)
    PROVE  AuthInv'
<1>1. TablesTyped /\ SessionsTyped /\ Local(s)
  BY AuthTyped DEF AuthInv
<1>2. /\ UNCHANGED <<user, token, expired, superseded, uses>> /\ pc[s] = "send"
      /\ expired \subseteq Tokens /\ mailed \subseteq Committed
  BY <1>1 DEF SendLink, history, TablesTyped
<1>3. tok[s] \in Committed /\ who[s] \in Users /\ HasPassword(who[s])
  BY <1>1, <1>2 DEF Local, LinkKnown, UserKnown, Working
<1>4. \A u \in signedIn' : u \in Users /\ HasPassword(u)
  BY <1>3, SignedIn DEF SendLink
<1>5. mailed \subseteq mailed' /\ mailed' \subseteq Committed
  BY <1>2, <1>3 DEF SendLink
<1>6. CASE EndRequest(s)
  BY <1>2, <1>4, <1>5, <1>6, EndsOnly
<1>7. CASE Goto(s, "error")
  <2>1. SessionsTyped' /\ OthersKeep(s) /\ pc'[s] = "error"
        /\ UNCHANGED <<op, who, tok, aim, known>>
    BY <1>1, <1>7 DEF SessionsTyped, Goto, OthersKeep
  <2>2. UserKnown(s)' /\ Invalidates(s)'
    BY <1>1, <1>2, <2>1 DEF Local, UserKnown, Invalidates, HasPassword, Working, Committed
  <2>3. LinkKnown(s)'
    BY <1>1, <1>2, <1>5, <2>1 DEF Local, LinkKnown
  <2>4. OneInsert'
    BY <2>1 DEF AuthInv, OneInsert, OthersKeep
  <2>5. QED
    BY <1>2, <1>4, <1>5, <2>1, <2>2, <2>3, <2>4, Quiet DEF Local
<1>8. QED
  BY <1>6, <1>7 DEF SendLink

LEMMA EndSteps ==
    ASSUME AuthInv, NEW s \in Sessions,
           IssueFailsInRegister(s) \/ ServerError(s) \/ Abort(s)
    PROVE  AuthInv'
<1>1. TablesTyped /\ Local(s) /\ mailed \subseteq Committed
  BY AuthTyped DEF AuthInv, TablesTyped
<1>2. EndRequest(s) /\ UNCHANGED <<user, token, expired, mailed, superseded, uses>>
  BY DEF IssueFailsInRegister, ServerError, Abort, tables, history
<1>3. \A u \in signedIn' : u \in Users /\ HasPassword(u)
  <2>1. CASE IssueFailsInRegister(s)
    <3>1. who[s] \in Users /\ HasPassword(who[s])
      BY <1>1, <2>1 DEF IssueFailsInRegister, Local, UserKnown, Working
    <3>2. QED
      BY <2>1, <3>1, SignedIn DEF IssueFailsInRegister
  <2>2. CASE ServerError(s) \/ Abort(s)
    BY <2>2, SignedIn DEF ServerError, Abort, tables
  <2>3. QED
    BY <2>1, <2>2
<1>4. QED
  BY <1>1, <1>2, <1>3, EndsOnly

-----------------------------------------------------------------------------
(* The commits.                                                            *)

\* Marking links used touches nothing else of them.
LEMMA Marks ==
    ASSUME TablesTyped, NEW ts \in SUBSET Committed
    PROVE  /\ MarkUsed(ts) \in [Tokens -> TokenRow \cup {Absent}]
           /\ \A t \in Tokens \ Committed : MarkUsed(ts)[t] = Absent
           /\ \A t \in Committed :
                /\ MarkUsed(ts)[t] # Absent
                /\ MarkUsed(ts)[t].user = token[t].user
                /\ MarkUsed(ts)[t].purpose = token[t].purpose
                /\ MarkUsed(ts)[t].used = (token[t].used \/ t \in ts)
<1>1. \A t \in Committed : t \in Tokens /\ token[t] \in TokenRow
  BY DEF TablesTyped, Committed
<1>2. \A t \in Committed : [token[t] EXCEPT !.used = TRUE] \in TokenRow
  BY <1>1 DEF TokenRow
<1>3. \A t \in Committed :
        /\ [token[t] EXCEPT !.used = TRUE].user = token[t].user
        /\ [token[t] EXCEPT !.used = TRUE].purpose = token[t].purpose
        /\ [token[t] EXCEPT !.used = TRUE].used = TRUE
  BY <1>1 DEF TokenRow
<1>4. Absent \notin TokenRow
  BY AuthAssumption
<1>5. \A t \in Tokens : MarkUsed(ts)[t] =
        IF t \in ts THEN [token[t] EXCEPT !.used = TRUE] ELSE token[t]
  BY DEF MarkUsed
<1>6. MarkUsed(ts) \in [Tokens -> TokenRow \cup {Absent}]
  BY <1>2 DEF MarkUsed, TablesTyped
<1>7. \A t \in Tokens \ Committed : token[t] = Absent
  BY DEF Committed
<1>8. \A t \in Committed : token[t].used \in BOOLEAN
  BY <1>1 DEF TokenRow
<1>9. \A t \in Committed : MarkUsed(ts)[t].used = (token[t].used \/ t \in ts)
  BY <1>1, <1>3, <1>5, <1>8
<1>10. \A t \in Tokens \ Committed : MarkUsed(ts)[t] = Absent
  BY <1>5, <1>7
<1>11. ASSUME NEW t \in Committed
       PROVE  /\ MarkUsed(ts)[t] # Absent
              /\ MarkUsed(ts)[t].user = token[t].user
              /\ MarkUsed(ts)[t].purpose = token[t].purpose
  <2>1. CASE t \in ts
    <3>1. MarkUsed(ts)[t] = [token[t] EXCEPT !.used = TRUE]
      BY <1>1, <1>5, <2>1
    <3>2. MarkUsed(ts)[t] \in TokenRow
      BY <1>2, <3>1
    <3>3. QED
      BY <1>3, <1>4, <3>1, <3>2
  <2>2. CASE t \notin ts
    BY <1>1, <1>4, <1>5, <2>2
  <2>3. QED
    BY <2>1, <2>2
<1>12. QED
  BY <1>6, <1>9, <1>10, <1>11

LEMMA RegisterStep ==
    ASSUME AuthInv, NEW s \in Sessions, RegisterCommit(s)
    PROVE  AuthInv'
<1> DEFINE new == [password |-> TRUE, verified |-> FALSE]
<1>1. TablesTyped /\ SessionsTyped /\ Local(s)
  BY AuthTyped DEF AuthInv
<1>2. /\ pc[s] = "inserted" /\ user' = [user EXCEPT ![who[s]] = new] /\ Goto(s, "issue")
      /\ UNCHANGED <<token, expired, mailed, signedIn, superseded, uses>>
  BY DEF RegisterCommit, history
<1>3. who[s] \in Users /\ user[who[s]] = Absent
  BY <1>1, <1>2 DEF Local, UserKnown
<1>4. new \in UserRow /\ new # Absent
  <2>1. new \in UserRow
    BY DEF UserRow
  <2>2. QED
    BY <2>1, AuthAssumption
<1>5. /\ user' \in [Users -> UserRow \cup {Absent}] /\ user'[who[s]] = new
      /\ \A u \in Users \ {who[s]} : user'[u] = user[u]
  BY <1>1, <1>2, <1>3, <1>4 DEF TablesTyped
<1>6. Committed' = Committed
  BY <1>2 DEF Committed
<1>7. TablesTyped'
  BY <1>1, <1>2, <1>3, <1>4, <1>5, <1>6 DEF TablesTyped
<1>8. SessionsTyped' /\ OthersKeep(s) /\ pc'[s] = "issue"
      /\ UNCHANGED <<op, who, tok, aim, known>>
  BY <1>1, <1>2 DEF SessionsTyped, Goto, OthersKeep
<1>9. \A u \in Users : HasPassword(u) => HasPassword(u)'
  BY <1>3, <1>5 DEF HasPassword
<1>10. Grows /\ Inserts(s)
  BY <1>2, <1>5, <1>6, <1>9 DEF Grows, Inserts
<1>11. OnlyWithPassword'
  <2>1. \A t \in Committed : token[t].user \in Users
    BY <1>1 DEF TablesTyped, Committed, TokenRow
  <2>2. QED
    BY <1>2, <1>6, <1>9, <2>1, SignedIn DEF AuthInv, OnlyWithPassword
<1>12. Local(s)'
  <2>1. HasPassword(who[s])'
    BY <1>4, <1>5, <1>8 DEF HasPassword
  <2>2. UserKnown(s)' /\ Invalidates(s)'
    BY <1>1, <1>3, <1>6, <1>8, <2>1 DEF Local, UserKnown, Invalidates
  <2>3. op[s] \notin {"verify", "reset"}
    <3>1. ASSUME op[s] \in {"verify", "reset"} PROVE FALSE
      <4>1. tok[s] \in Committed /\ token[tok[s]].user = who[s]
        BY <1>1, <3>1 DEF Local, LinkKnown, TablesTyped
      <4>2. HasPassword(who[s])
        BY <4>1 DEF AuthInv, OnlyWithPassword
      <4>3. QED
        BY <1>3, <4>2 DEF HasPassword
    <3>2. QED
      BY <3>1
  <2>4. LinkKnown(s)'
    BY <1>8, <2>3 DEF LinkKnown
  <2>5. QED
    BY <2>2, <2>4 DEF Local
<1>13. \A t \in superseded' : t \in Committed' /\ token'[t].used
  BY <1>2, <1>6 DEF AuthInv, SupersededDead
<1>14. \A u \in Users : user'[u] # Absent /\ user'[u].verified =>
         user[u] # Absent /\ user[u].verified
  BY <1>5
<1>15. QED
  BY <1>2, <1>7, <1>8, <1>10, <1>11, <1>12, <1>13, <1>14, Commits

\* What committing the links of invalidate_active supersedes is used.
LEMMA SupersedesUsed ==
    ASSUME AuthInv, NEW s \in Sessions, pc[s] = "issued",
           NEW t \in known[s] \cap TokensOf(who[s], Purpose(s))
    PROVE  /\ t \in Committed
           /\ token[t].used \/ t \in aim[s] \/ (op[s] = "reset" /\ t = tok[s])
BY DEF AuthInv, Local, Invalidates

LEMMA IssueStep ==
    ASSUME AuthInv, NEW s \in Sessions, IssueCommit(s)
    PROVE  AuthInv'
<1> DEFINE new == [user |-> who[s], purpose |-> Purpose(s), used |-> FALSE]
           marked == MarkUsed(aim[s])
<1>1. TablesTyped /\ SessionsTyped /\ Local(s)
  BY AuthTyped DEF AuthInv
<1>2. PICK t \in Tokens \ Committed :
        /\ token' = [marked EXCEPT ![t] = new]
        /\ tok' = [tok EXCEPT ![s] = t]
  BY DEF IssueCommit
<1>3. /\ pc[s] = "issued" /\ op[s] # "reset"
      /\ superseded' = superseded \cup (known[s] \cap TokensOf(who[s], Purpose(s)))
      /\ pc' = [pc EXCEPT ![s] = "send"]
      /\ UNCHANGED <<user, expired, mailed, signedIn, op, who, aim, known, uses>>
  BY DEF IssueCommit
<1>4. /\ who[s] \in Users /\ HasPassword(who[s]) /\ op[s] \in Ops
      /\ aim[s] \in SUBSET Committed /\ known[s] \subseteq Committed
  BY <1>1, <1>3 DEF Local, UserKnown, Invalidates, Working, SessionsTyped
<1>5. new \in TokenRow /\ new # Absent
  <2>1. Purpose(s) \in TokenPurpose
    BY DEF TokenPurpose, Purpose
  <2>2. new \in TokenRow
    BY <1>4, <2>1 DEF TokenRow
  <2>3. QED
    BY <2>2, AuthAssumption
<1>6. /\ marked \in [Tokens -> TokenRow \cup {Absent}]
      /\ \A q \in Tokens \ Committed : marked[q] = Absent
      /\ \A q \in Committed :
           /\ marked[q] # Absent
           /\ marked[q].user = token[q].user
           /\ marked[q].purpose = token[q].purpose
           /\ marked[q].used = (token[q].used \/ q \in aim[s])
  BY <1>1, <1>4, Marks
<1> HIDE DEF marked
<1>7. /\ token' \in [Tokens -> TokenRow \cup {Absent}] /\ token'[t] = new
      /\ \A q \in Tokens \ {t} : token'[q] = marked[q]
  BY <1>2, <1>5, <1>6
<1>8. Committed' = Committed \cup {t} /\ Committed \subseteq Tokens
  <2>1. Committed \subseteq Tokens
    BY DEF Committed
  <2>2. \A q \in Tokens : token'[q] # Absent <=> q \in Committed \/ q = t
    BY <1>5, <1>6, <1>7
  <2>3. QED
    BY <1>2, <2>1, <2>2 DEF Committed
<1> HIDE DEF new
<1>9. TablesTyped'
  BY <1>1, <1>3, <1>4, <1>7, <1>8 DEF TablesTyped
<1>10. SessionsTyped' /\ OthersKeep(s) /\ pc'[s] = "send" /\ tok'[s] = t
  BY <1>1, <1>2, <1>3 DEF SessionsTyped, OthersKeep
<1>11. Grows /\ Inserts(s)
  BY <1>2, <1>3, <1>6, <1>7, <1>8 DEF Grows, Inserts, HasPassword
<1>12. OnlyWithPassword'
  <2>1. \A q \in Committed : token'[q].user = token[q].user
    BY <1>11 DEF Grows
  <2>2. token'[t].user = who[s]
    BY <1>7 DEF new
  <2>3. \A q \in Committed : HasPassword(token[q].user)
    BY DEF AuthInv, OnlyWithPassword
  <2>4. \A q \in Committed' : HasPassword(token'[q].user)
    BY <1>4, <1>8, <2>1, <2>2, <2>3
  <2>5. QED
    BY <1>3, <2>4, SignedIn DEF OnlyWithPassword, HasPassword
<1>14. Local(s)'
  <2>1. UserKnown(s)'
    BY <1>1, <1>3, <1>4, <1>10 DEF Local, UserKnown, HasPassword
  <2>2. LinkKnown(s)'
    BY <1>1, <1>2, <1>3, <1>8, <1>10 DEF Local, LinkKnown
  <2>3. Invalidates(s)'
    BY <1>3, <1>4, <1>8, <1>10 DEF Invalidates
  <2>4. QED
    BY <2>1, <2>2, <2>3 DEF Local
<1>15. ASSUME NEW q \in superseded' PROVE q \in Committed' /\ token'[q].used
  <2>1. CASE q \in superseded
    <3>1. q \in Committed /\ token[q].used
      BY <2>1 DEF AuthInv, SupersededDead
    <3>2. QED
      BY <1>11, <3>1 DEF Grows
  <2>2. CASE q \in known[s] \cap TokensOf(who[s], Purpose(s))
    <3>1. q \in Committed /\ (token[q].used \/ q \in aim[s])
      BY <1>3, <2>2, SupersedesUsed
    <3>2. q # t /\ q \in Tokens
      BY <1>2, <1>8, <3>1
    <3>3. QED
      BY <1>6, <1>7, <1>8, <3>1, <3>2
  <2>3. QED
    BY <1>3, <2>1, <2>2
<1>16. \A u \in Users : user'[u] # Absent /\ user'[u].verified =>
         user[u] # Absent /\ user[u].verified
  BY <1>3
<1>17. QED
  BY <1>3, <1>9, <1>10, <1>11, <1>12, <1>14, <1>15, <1>16, Commits

\* A link is redeemed: it is used from now on, and its user may be verified.
LEMMA Redeems ==
    ASSUME AuthInv, NEW s \in Sessions, op[s] \in {"verify", "reset"},
           pc[s] \in Working, EndRequest(s),
           NEW ts \in SUBSET Committed, tok[s] \in ts, token' = MarkUsed(ts),
           user' \in [Users -> UserRow \cup {Absent}],
           \A u \in Users \ {who[s]} : user'[u] = user[u],
           user'[who[s]] # Absent, user'[who[s]].password,
           uses' = [uses EXCEPT ![tok[s]] = @ + 1],
           UNCHANGED <<expired, mailed, signedIn>>,
           superseded' \subseteq Tokens,
           \A t \in superseded' : t \in Committed /\ (token[t].used \/ t \in ts)
    PROVE  AuthInv'
<1>1. TablesTyped /\ SessionsTyped /\ Local(s)
  BY AuthTyped DEF AuthInv
<1>2. /\ tok[s] \in mailed /\ tok[s] \in Committed /\ token[tok[s]].user = who[s]
      /\ who[s] \in Users /\ HasPassword(who[s])
  BY <1>1 DEF Local, LinkKnown, UserKnown, TablesTyped, Working
<1>3. /\ token' \in [Tokens -> TokenRow \cup {Absent}]
      /\ \A t \in Tokens \ Committed : token'[t] = Absent
      /\ \A t \in Committed :
           /\ token'[t] # Absent
           /\ token'[t].user = token[t].user
           /\ token'[t].purpose = token[t].purpose
           /\ token'[t].used = (token[t].used \/ t \in ts)
  BY <1>1, Marks
<1>4. Committed' = Committed
  BY <1>3 DEF Committed
<1>5. SessionsTyped' /\ OthersKeep(s) /\ Local(s)' /\ pc'[s] = "idle"
  BY <1>1, Ends
<1>6. \A u \in Users : user[u] # Absent => user'[u] # Absent
  BY <1>2 DEF HasPassword
<1>7. uses' \in [Tokens -> Nat]
  <2>1. uses \in [Tokens -> Nat] /\ tok[s] \in Tokens
    BY <1>1, <1>2 DEF TablesTyped, Committed
  <2>2. QED
    BY <2>1
<1>8. TablesTyped'
  BY <1>1, <1>3, <1>4, <1>6, <1>7 DEF TablesTyped
<1>9. \A u \in Users : HasPassword(u) => HasPassword(u)'
  BY DEF HasPassword
<1>10. Grows
  BY <1>3, <1>4, <1>9 DEF Grows
<1>11. Inserts(s)
  BY <1>2 DEF Inserts, HasPassword
<1>12. OnlyWithPassword'
  <2>1. \A t \in Committed : token[t].user \in Users /\ HasPassword(token[t].user)
    BY <1>1 DEF TablesTyped, Committed, TokenRow, AuthInv, OnlyWithPassword
  <2>2. ASSUME NEW t \in Committed'
        PROVE  user'[token'[t].user] # Absent /\ user'[token'[t].user].password
    <3>1. token'[t].user = token[t].user /\ HasPassword(token[t].user)
          /\ token[t].user \in Users
      BY <1>3, <1>4, <2>1
    <3>2. QED
      BY <1>9, <3>1 DEF HasPassword
  <2>3. QED
    BY <1>9, <2>2, SignedIn DEF OnlyWithPassword, HasPassword
<1>13. \A t \in superseded' : t \in Committed' /\ token'[t].used
  BY <1>3, <1>4
<1>14. \A u \in Users : user'[u] # Absent /\ user'[u].verified =>
         \/ user[u] # Absent /\ user[u].verified
         \/ \E t \in mailed : token'[t].user = u /\ token'[t].used
  BY <1>2, <1>3
<1>15. QED
  BY <1>5, <1>8, <1>10, <1>11, <1>12, <1>13, <1>14, Commits

LEMMA VerifyStep ==
    ASSUME AuthInv, NEW s \in Sessions, VerifyCommit(s)
    PROVE  AuthInv'
<1>1. TablesTyped /\ SessionsTyped /\ Local(s)
  BY AuthTyped DEF AuthInv
<1>2. /\ pc[s] = "verify" /\ EndRequest(s)
      /\ token' = MarkUsed({tok[s]})
      /\ user' = [user EXCEPT ![who[s]].verified = TRUE]
      /\ uses' = [uses EXCEPT ![tok[s]] = @ + 1]
      /\ UNCHANGED <<expired, mailed, signedIn, superseded>>
  BY DEF VerifyCommit
<1>3. op[s] = "verify" /\ tok[s] \in Committed /\ who[s] \in Users /\ HasPassword(who[s])
  BY <1>1, <1>2 DEF Local, LinkKnown, UserKnown, TablesTyped, Working
<1>4. user[who[s]] \in UserRow /\ user[who[s]].password
  BY <1>1, <1>3 DEF HasPassword, TablesTyped
<1>5. [user[who[s]] EXCEPT !.verified = TRUE] \in UserRow
      /\ [user[who[s]] EXCEPT !.verified = TRUE].password
  BY <1>4 DEF UserRow
<1>6. /\ user' \in [Users -> UserRow \cup {Absent}]
      /\ \A u \in Users \ {who[s]} : user'[u] = user[u]
      /\ user'[who[s]] = [user[who[s]] EXCEPT !.verified = TRUE]
  BY <1>1, <1>2, <1>3, <1>5 DEF TablesTyped
<1>7. user'[who[s]] # Absent /\ user'[who[s]].password
  BY <1>5, <1>6, AuthAssumption
<1>8. ASSUME NEW t \in superseded PROVE t \in Committed /\ token[t].used /\ t \in Tokens
  BY DEF AuthInv, SupersededDead, Committed
<1>9. {tok[s]} \in SUBSET Committed /\ pc[s] \in Working
  BY <1>2, <1>3 DEF Working
<1>10. superseded' \subseteq Tokens
  BY <1>2, <1>8
<1>11. QED
  BY <1>2, <1>3, <1>6, <1>7, <1>8, <1>9, <1>10, Redeems

LEMMA ResetStep ==
    ASSUME AuthInv, NEW s \in Sessions, ResetCommit(s)
    PROVE  AuthInv'
<1> DEFINE new == [password |-> TRUE, verified |-> TRUE]
           ts == aim[s] \cup {tok[s]}
<1>1. TablesTyped /\ SessionsTyped /\ Local(s)
  BY AuthTyped DEF AuthInv
<1>2. /\ pc[s] = "issued" /\ op[s] = "reset" /\ EndRequest(s)
      /\ token' = MarkUsed(ts)
      /\ user' = [user EXCEPT ![who[s]] = new]
      /\ uses' = [uses EXCEPT ![tok[s]] = @ + 1]
      /\ superseded' = superseded \cup (known[s] \cap TokensOf(who[s], "password_reset"))
      /\ UNCHANGED <<expired, mailed, signedIn>>
  BY DEF ResetCommit
<1>3. tok[s] \in Committed /\ who[s] \in Users /\ pc[s] \in Working
  BY <1>1, <1>2 DEF Local, LinkKnown, UserKnown, TablesTyped, Working
<1>4. new \in UserRow /\ new # Absent
  <2>1. new \in UserRow
    BY DEF UserRow
  <2>2. QED
    BY <2>1, AuthAssumption
<1>5. /\ user' \in [Users -> UserRow \cup {Absent}]
      /\ \A u \in Users \ {who[s]} : user'[u] = user[u]
      /\ user'[who[s]] # Absent /\ user'[who[s]].password
  BY <1>1, <1>2, <1>3, <1>4 DEF TablesTyped
<1>6. ts \in SUBSET Committed
  BY <1>1, <1>3 DEF Local, Invalidates
<1>7. Purpose(s) = "password_reset"
  BY <1>2 DEF Purpose
<1>8. ASSUME NEW t \in superseded'
      PROVE  t \in Committed /\ (token[t].used \/ t \in ts)
  <2>1. CASE t \in superseded
    BY <2>1 DEF AuthInv, SupersededDead
  <2>2. CASE t \in known[s] \cap TokensOf(who[s], Purpose(s))
    BY <1>2, <2>2, SupersedesUsed
  <2>3. QED
    BY <1>2, <1>7, <2>1, <2>2
<1>9. superseded' \subseteq Tokens
  BY <1>8 DEF Committed
<1> HIDE DEF ts, new
<1>10. tok[s] \in ts /\ op[s] \in {"verify", "reset"}
  BY <1>2 DEF ts
<1>11. QED
  BY <1>2, <1>3, <1>5, <1>6, <1>8, <1>9, <1>10, Redeems

-----------------------------------------------------------------------------
(* Next, and the theorems.                                                 *)

\* A login, and the passing of time.
LEMMA OutsideSteps ==
    ASSUME AuthInv, (\E s \in Sessions : Login(s)) \/ LinkExpires \/ JwtExpires
    PROVE  AuthInv'
<1>1. TablesTyped /\ SessionsTyped
  BY AuthTyped
<1>2. /\ UNCHANGED <<user, token, mailed, superseded, uses>>
      /\ UNCHANGED <<pc, op, who, tok, aim, known>>
  BY DEF Login, LinkExpires, JwtExpires, sessVars, history
<1>3. expired' \subseteq Tokens
  BY <1>1 DEF Login, LinkExpires, JwtExpires, TablesTyped, Committed
<1>4. \A u \in signedIn' : u \in Users /\ HasPassword(u)
  BY SignedIn DEF Login, LinkExpires, JwtExpires, HasPassword
<1>5. TablesTyped' /\ SessionsTyped'
  BY <1>1, <1>2, <1>3, <1>4 DEF TablesTyped, SessionsTyped, Committed, HasPassword
<1>6. TypeOK'
  BY <1>5, Typed DEF TypeOK, TablesTyped, SessionsTyped, Committed
<1>7. VerifiedByLink' /\ SupersededDead' /\ (superseded \subseteq Committed)'
  BY <1>2, <1>6 DEF AuthInv, VerifiedByLink, SupersededDead, Committed
<1>8. OnlyWithPassword' /\ OneInsert'
  BY <1>2, <1>4 DEF AuthInv, OnlyWithPassword, OneInsert, HasPassword, Committed
<1>9. ASSUME NEW s \in Sessions PROVE Local(s)'
  <2>1. Local(s)
    BY DEF AuthInv
  <2>2. UserKnown(s)' /\ LinkKnown(s)'
    BY <1>2, <2>1 DEF Local, UserKnown, LinkKnown, HasPassword, Committed
  <2>3. Invalidates(s)'
    BY <1>2, <2>1 DEF Local, Invalidates, TokensOf, Purpose, Committed
  <2>4. QED
    BY <2>2, <2>3 DEF Local
<1>10. QED
  BY <1>7, <1>8, <1>9 DEF AuthInv

LEMMA Stutter == AuthInv /\ UNCHANGED vars => AuthInv'
<1> SUFFICES ASSUME AuthInv, UNCHANGED vars PROVE AuthInv'
  OBVIOUS
<1>1. UNCHANGED <<user, token, expired, mailed, signedIn, superseded, uses>>
      /\ UNCHANGED <<pc, op, who, tok, aim, known>>
  BY DEF vars, tables, sessVars, history
<1>2. TypeOK' /\ VerifiedByLink' /\ SupersededDead' /\ (superseded \subseteq Committed)'
  BY <1>1 DEF AuthInv, TypeOK, VerifiedByLink, SupersededDead, Committed
<1>3. OnlyWithPassword' /\ OneInsert'
  BY <1>1 DEF AuthInv, OnlyWithPassword, OneInsert, HasPassword, Committed
<1>4. ASSUME NEW s \in Sessions PROVE Local(s)'
  <2>1. Local(s)
    BY DEF AuthInv
  <2>2. UserKnown(s)' /\ LinkKnown(s)'
    BY <1>1, <2>1 DEF Local, UserKnown, LinkKnown, HasPassword, Committed
  <2>3. Invalidates(s)'
    BY <1>1, <2>1 DEF Local, Invalidates, TokensOf, Purpose, Committed
  <2>4. QED
    BY <2>2, <2>3 DEF Local
<1>5. QED
  BY <1>2, <1>3, <1>4 DEF AuthInv

LEMMA NextInv == AuthInv /\ [Next]_vars => AuthInv'
<1> SUFFICES ASSUME AuthInv, [Next]_vars PROVE AuthInv'
  OBVIOUS
<1>1. ASSUME NEW s \in Sessions, Step(s) PROVE AuthInv'
  <2>1. CASE \/ Register(s) \/ RequestEmailVerification(s) \/ RequestPasswordReset(s)
             \/ VerifyEmail(s) \/ ResetPassword(s)
    BY <2>1, BeginSteps
  <2>2. CASE InsertUser(s)
    BY <2>2, InsertStep
  <2>3. CASE RegisterCommit(s)
    BY <2>3, RegisterStep
  <2>4. CASE Login(s)
    BY <2>4, OutsideSteps
  <2>5. CASE InvalidateActive(s)
    BY <2>5, InvalidateStep
  <2>6. CASE RowsMarked(s)
    BY <2>6, RowsMarkedStep
  <2>7. CASE IssueCommit(s)
    BY <2>7, IssueStep
  <2>8. CASE SendLink(s)
    BY <2>8, SendStep
  <2>9. CASE IssueFailsInRegister(s) \/ ServerError(s) \/ Abort(s)
    BY <2>9, EndSteps
  <2>10. CASE VerifyCommit(s)
    BY <2>10, VerifyStep
  <2>11. CASE ResetFlush(s)
    BY <2>11, FlushStep
  <2>12. CASE ResetCommit(s)
    BY <2>12, ResetStep
  <2>13. CASE Rejected(s)
    BY <2>13, Stutter DEF Rejected
  <2>14. QED
    BY <1>1, <2>1, <2>2, <2>3, <2>4, <2>5, <2>6, <2>7, <2>8, <2>9, <2>10, <2>11,
       <2>12, <2>13 DEF Step
<1>2. CASE LinkExpires \/ JwtExpires
  BY <1>2, OutsideSteps
<1>3. CASE UNCHANGED vars
  BY <1>3, Stutter
<1>4. QED
  BY <1>1, <1>2, <1>3 DEF Next

LEMMA Inductive == Spec => []AuthInv
BY InitInv, NextInv, PTL DEF Spec

\* Invariant: once a request for a link, or a reset, has committed, every
\* link of that user and purpose that existed when the request arrived is
\* used, whatever overlapped it (_issue_token, reset_password).
THEOREM OldLinksDead == Spec => []SupersededDead
<1>1. AuthInv => SupersededDead
  BY DEF AuthInv
<1>2. QED
  BY <1>1, Inductive, PTL

\* Invariant: TypeOK, and every verified address was proved by a link of its
\* own that reached the mailbox and was used up (verify_email,
\* reset_password).
THEOREM VerifiedNeedsLink == Spec => []VerifiedByLink
<1>1. AuthInv => VerifiedByLink
  BY DEF AuthInv
<1>2. QED
  BY <1>1, Inductive, PTL

\* Only a registration writes where no row was, and only the redemption of a
\* link changes a row that is there.
LEMMA RowsKept ==
    ASSUME AuthInv, [Next]_vars, NEW u \in Users, user[u] # Absent, ~HasPassword(u)
    PROVE  user'[u] = user[u]
<1>1. TablesTyped
  BY AuthTyped
<1>2. ASSUME NEW s \in Sessions, Step(s) PROVE user'[u] = user[u]
  <2>1. Local(s)
    BY DEF AuthInv
  <2>2. CASE RegisterCommit(s)
    <3>1. user[who[s]] = Absent
      BY <2>1, <2>2 DEF RegisterCommit, Local, UserKnown
    <3>2. QED
      BY <1>1, <2>2, <3>1 DEF RegisterCommit, TablesTyped
  <2>3. CASE VerifyCommit(s)
    <3>1. HasPassword(who[s])
      BY <2>1, <2>3 DEF VerifyCommit, Local, UserKnown, Working
    <3>2. u # who[s]
      BY <3>1
    <3>3. QED
      BY <1>1, <2>3, <3>2 DEF VerifyCommit, TablesTyped
  <2>4. CASE ResetCommit(s)
    <3>1. HasPassword(who[s])
      BY <2>1, <2>4 DEF ResetCommit, Local, UserKnown, Working
    <3>2. u # who[s]
      BY <3>1
    <3>3. QED
      BY <1>1, <2>4, <3>2 DEF ResetCommit, TablesTyped
  <2>5. CASE UNCHANGED user
    BY <2>5
  <2>6. QED
    BY <1>2, <2>2, <2>3, <2>4, <2>5
       DEF Step, Register, InsertUser, Login, RequestEmailVerification, RequestPasswordReset,
           InvalidateActive, RowsMarked, IssueCommit, SendLink, IssueFailsInRegister,
           VerifyEmail, ResetPassword, ResetFlush, Rejected, ServerError, Abort, tables, vars
<1>3. CASE LinkExpires \/ JwtExpires \/ UNCHANGED vars
  BY <1>3 DEF LinkExpires, JwtExpires, vars, tables
<1>4. QED
  BY <1>2, <1>3 DEF Next

\* Action property: a row from before authentication existed, which has no
\* password, is never written, signed in or given a link (login, register,
\* request_password_reset).
THEOREM LegacyRowsLocked == Spec => LegacyLockedOut
<1> DEFINE Locked ==
      \A u \in Users : user[u] # Absent /\ ~user[u].password =>
        /\ user'[u] = user[u]
        /\ u \notin signedIn'
        /\ \A t \in Tokens : token'[t] # Absent => token'[t].user # u
<1>1. AuthInv /\ AuthInv' /\ [Next]_vars => Locked
  <2> SUFFICES ASSUME AuthInv, AuthInv', [Next]_vars,
                      NEW u \in Users, user[u] # Absent, ~user[u].password
               PROVE  /\ user'[u] = user[u]
                      /\ u \notin signedIn'
                      /\ \A t \in Tokens : token'[t] # Absent => token'[t].user # u
    OBVIOUS
  <2>1. user'[u] = user[u]
    BY RowsKept DEF HasPassword
  <2>2. ~(user'[u] # Absent /\ user'[u].password)
    BY <2>1
  <2>3. u \notin signedIn'
    BY <2>2 DEF AuthInv, OnlyWithPassword, HasPassword
  <2>4. \A t \in Tokens : token'[t] # Absent => token'[t].user # u
    BY <2>2 DEF AuthInv, OnlyWithPassword, HasPassword, Committed
  <2>5. QED
    BY <2>1, <2>3, <2>4
<1>2. QED
  BY <1>1, Inductive, PTL DEF Spec, LegacyLockedOut

-----------------------------------------------------------------------------
(* Requests of one user one after the other, those of different users as   *)
(* they come.                                                              *)

\* What overlaps is about different users.
OnePerUser ==
    \A r, s \in Sessions : pc[r] # "idle" /\ pc[s] # "idle" /\ who[r] = who[s] => r = s

\* At most one link of a user and purpose is outstanding, mailed or not.
OneOutstanding ==
    \A u \in Users, p \in TokenPurpose : \A t, v \in Outstanding(u, p) : t = v

\* A link is redeemed by the commit that marks it used.
RedeemedIsUsed ==
    \A t \in Tokens : /\ uses[t] <= 1
                      /\ uses[t] > 0 => t \in Committed /\ token[t].used

\* Nobody else touches what a request has read: the UPDATE still has all that
\* is outstanding of its own user, the link it redeems is unused, the address
\* it registers is free.
Undisturbed(s) ==
    /\ pc[s] = "idle" => op[s] = "none" /\ aim[s] = {}
    /\ \A t \in aim[s] : token[t].user = who[s]
    /\ pc[s] \in {"waiting", "issued"} =>
         \A t \in Outstanding(who[s], Purpose(s)) : t \in aim[s] \/ (op[s] = "reset" /\ t = tok[s])
    /\ op[s] \in {"verify", "reset"} => ~token[tok[s]].used
    /\ pc[s] = "insert" => user[who[s]] = Absent
    /\ ~(op[s] = "register" /\ pc[s] = "error")

SerialInv == OneOutstanding /\ RedeemedIsUsed /\ \A s \in Sessions : Undisturbed(s)

LEMMA SerialInit == Init => SerialInv
<1> SUFFICES ASSUME Init PROVE SerialInv
  OBVIOUS
<1>1. Committed = {}
  BY DEF Init, Committed
<1>2. OneOutstanding
  BY <1>1 DEF OneOutstanding, Outstanding, TokensOf
<1>3. RedeemedIsUsed
  BY DEF Init, RedeemedIsUsed
<1>4. \A s \in Sessions : Undisturbed(s)
  BY DEF Init, Undisturbed
<1>5. QED
  BY <1>2, <1>3, <1>4 DEF SerialInv

\* A step that leaves users, links and their redemptions alone disturbs nobody.
LEMMA SerialQuiet ==
    ASSUME SerialInv, NEW s \in Sessions, OthersKeep(s), UNCHANGED <<user, token, uses>>,
           Undisturbed(s)'
    PROVE  SerialInv'
<1>1. Committed' = Committed
  BY DEF Committed
<1>2. \A u, p : Outstanding(u, p)' = Outstanding(u, p)
  BY <1>1 DEF Outstanding, TokensOf
<1>3. OneOutstanding' /\ RedeemedIsUsed'
  BY <1>1, <1>2 DEF SerialInv, OneOutstanding, RedeemedIsUsed
<1>4. ASSUME NEW r \in Sessions \ {s} PROVE Undisturbed(r)'
  <2>1. /\ pc'[r] = pc[r] /\ op'[r] = op[r] /\ who'[r] = who[r]
        /\ tok'[r] = tok[r] /\ aim'[r] = aim[r]
    BY DEF OthersKeep
  <2>2. Purpose(r)' = Purpose(r)
    BY <2>1 DEF Purpose
  <2>3. Outstanding(who[r], Purpose(r))' = Outstanding(who[r], Purpose(r))
    BY <1>1, <2>1, <2>2 DEF Outstanding, TokensOf
  <2>4. QED
    BY <2>1, <2>3 DEF SerialInv, Undisturbed
<1>5. QED
  BY <1>3, <1>4 DEF SerialInv

\* A commit of s writes rows of its own user only.
OwnRowsOnly(s) ==
    /\ \A t \in Committed : token[t].user # who[s] => token'[t] = token[t]
    /\ \A t \in Tokens \ Committed : token'[t] # Absent => token'[t].user = who[s]
    /\ \A u \in Users \ {who[s]} : user'[u] = user[u]

LEMMA SerialCommits ==
    ASSUME AuthInv, SerialInv, OnePerUser, NEW s \in Sessions, pc[s] # "idle",
           OthersKeep(s), Grows, OwnRowsOnly(s), Undisturbed(s)', RedeemedIsUsed',
           NEW w, w = who[s],
           \A p \in TokenPurpose : \A t, v \in Outstanding(w, p)' : t = v
    PROVE  SerialInv'
<1>1. \A t \in Committed : t \in Committed' /\ token'[t].user = token[t].user
  BY DEF Grows
<1>2. ASSUME NEW u \in Users, u # who[s], NEW p
      PROVE  Outstanding(u, p)' = Outstanding(u, p)
  <2>1. \A t \in Outstanding(u, p) : t \in Outstanding(u, p)'
    BY <1>1, <1>2 DEF Outstanding, TokensOf, OwnRowsOnly
  <2>2. \A t \in Outstanding(u, p)' : t \in Tokens /\ token'[t] # Absent /\ token'[t].user = u
    BY DEF Outstanding, TokensOf, Committed
  <2>3. \A t \in Outstanding(u, p)' : t \in Committed /\ token[t].user # who[s]
    BY <1>1, <1>2, <2>2 DEF OwnRowsOnly
  <2>4. \A t \in Outstanding(u, p)' : t \in Outstanding(u, p)
    BY <2>3 DEF Outstanding, TokensOf, OwnRowsOnly
  <2>5. QED
    BY <2>1, <2>4
<1>3. OneOutstanding'
  <2>1. ASSUME NEW u \in Users, NEW p \in TokenPurpose,
               NEW t \in Outstanding(u, p)', NEW v \in Outstanding(u, p)'
        PROVE  t = v
    <3>1. CASE u = who[s]
      BY <2>1, <3>1
    <3>2. CASE u # who[s]
      <4>1. t \in Outstanding(u, p) /\ v \in Outstanding(u, p)
        BY <1>2, <2>1, <3>2
      <4>2. QED
        BY <4>1 DEF SerialInv, OneOutstanding
    <3>3. QED
      BY <3>1, <3>2
  <2>2. QED
    BY <2>1 DEF OneOutstanding
<1>4. ASSUME NEW r \in Sessions \ {s} PROVE Undisturbed(r)'
  <2>1. /\ pc'[r] = pc[r] /\ op'[r] = op[r] /\ who'[r] = who[r]
        /\ tok'[r] = tok[r] /\ aim'[r] = aim[r]
    BY DEF OthersKeep
  <2>2. Undisturbed(r) /\ Local(r)
    BY DEF SerialInv, AuthInv
  <2>3. CASE pc[r] = "idle"
    BY <2>1, <2>2, <2>3 DEF Undisturbed
  <2>4. CASE pc[r] # "idle"
    <3>1. who[r] # who[s] /\ who[r] \in Users
      BY <2>2, <2>4 DEF OnePerUser, Local, UserKnown
    <3>2. \A t \in aim[r] : t \in Committed /\ token'[t].user = who[r]
      BY <1>1, <2>2 DEF Local, Invalidates, Undisturbed
    <3>3. Outstanding(who[r], Purpose(r))' = Outstanding(who[r], Purpose(r))
      <4>1. Purpose(r)' = Purpose(r)
        BY <2>1 DEF Purpose
      <4>2. QED
        BY <1>2, <2>1, <3>1, <4>1 DEF Outstanding, TokensOf
    <3>4. op[r] \in {"verify", "reset"} => token'[tok[r]] = token[tok[r]]
      <4>1. op[r] \in {"verify", "reset"} => tok[r] \in Committed /\ token[tok[r]].user = who[r]
        BY <2>2, AuthTyped DEF Local, LinkKnown, TablesTyped
      <4>2. QED
        BY <3>1, <4>1 DEF OwnRowsOnly
    <3>5. user'[who[r]] = user[who[r]]
      BY <3>1 DEF OwnRowsOnly
    <3>6. QED
      BY <2>1, <2>2, <2>4, <3>2, <3>3, <3>4, <3>5 DEF Undisturbed
  <2>5. QED
    BY <2>3, <2>4
<1>5. QED
  BY <1>3, <1>4 DEF SerialInv

\* Begin, and the other steps that write no table.
LEMMA SerialNoWrite ==
    ASSUME AuthInv, SerialInv, NEW s \in Sessions, UNCHANGED <<user, token, uses>>,
           \/ Register(s) \/ RequestEmailVerification(s) \/ RequestPasswordReset(s)
           \/ VerifyEmail(s) \/ ResetPassword(s) \/ InsertUser(s) \/ InvalidateActive(s)
           \/ RowsMarked(s) \/ ResetFlush(s)
    PROVE  SerialInv'
<1>1. TablesTyped /\ SessionsTyped /\ Local(s) /\ Undisturbed(s)
  BY AuthTyped DEF AuthInv, SerialInv
<1>2. OthersKeep(s)
  BY <1>1 DEF Register, RequestEmailVerification, RequestPasswordReset, VerifyEmail, ResetPassword,
              InsertUser, InvalidateActive, RowsMarked, ResetFlush, Begin, Goto, OthersKeep, SessionsTyped
<1>3. Committed' = Committed
  BY DEF Committed
<1>4. Undisturbed(s)'
  <2>1. CASE Register(s)
    <3>1. PICK u \in Users : user[u] = Absent /\ Begin(s, "register", u, "insert")
      BY <2>1 DEF Register
    <3>2. /\ pc[s] = "idle" /\ pc'[s] = "insert" /\ op'[s] = "register" /\ who'[s] = u
          /\ aim'[s] = aim[s]
      BY <1>1, <2>1, <3>1 DEF Register, Begin, SessionsTyped
    <3>3. QED
      BY <1>1, <3>1, <3>2 DEF Undisturbed
  <2>2. CASE RequestEmailVerification(s) \/ RequestPasswordReset(s)
    <3>1. PICK o \in {"request_verification", "forgot"} : \E u : Begin(s, o, u, "issue")
      BY <2>2 DEF RequestEmailVerification, RequestPasswordReset
    <3>2. pc[s] = "idle" /\ pc'[s] = "issue" /\ op'[s] = o /\ aim'[s] = aim[s]
      BY <1>1, <2>2, <3>1
         DEF RequestEmailVerification, RequestPasswordReset, Begin, SessionsTyped
    <3>3. QED
      BY <1>1, <3>2 DEF Undisturbed
  <2>3. CASE VerifyEmail(s) \/ ResetPassword(s)
    <3>1. PICK o \in {"verify", "reset"}, t \in mailed :
            /\ ~token[t].used
            /\ Begin(s, o, token[t].user, o)
            /\ tok' = [tok EXCEPT ![s] = t]
      BY <2>3 DEF VerifyEmail, ResetPassword, GetValid
    <3>2. pc[s] = "idle" /\ pc'[s] = o /\ op'[s] = o /\ tok'[s] = t /\ aim'[s] = aim[s]
      BY <1>1, <2>3, <3>1 DEF VerifyEmail, ResetPassword, Begin, SessionsTyped
    <3>3. QED
      BY <1>1, <3>1, <3>2 DEF Undisturbed
  <2>4. CASE InsertUser(s)
    <3>1. pc[s] = "insert" /\ user[who[s]] = Absent
      BY <1>1, <2>4 DEF InsertUser, Undisturbed
    <3>2. /\ pc'[s] = "inserted" /\ UNCHANGED <<op, who, tok, aim>>
      BY <1>1, <2>4, <3>1 DEF InsertUser, Goto, SessionsTyped
    <3>3. QED
      BY <1>1, <3>2 DEF Undisturbed
  <2>5. CASE InvalidateActive(s)
    <3>1. /\ pc'[s] = "waiting" /\ UNCHANGED <<op, who, tok>>
          /\ aim'[s] = Outstanding(who[s], Purpose(s)) \ (IF op[s] = "reset" THEN {tok[s]} ELSE {})
      BY <1>1, <2>5 DEF InvalidateActive, SessionsTyped
    <3>2. Purpose(s)' = Purpose(s)
      BY <3>1 DEF Purpose
    <3>3. Outstanding(who[s], Purpose(s))' = Outstanding(who[s], Purpose(s))
      BY <1>3, <3>1, <3>2 DEF Outstanding, TokensOf
    <3>4. \A t \in aim'[s] : token[t].user = who[s]
      BY <3>1 DEF Outstanding, TokensOf
    <3>5. \A t \in Outstanding(who[s], Purpose(s)) : t \in aim'[s] \/ (op[s] = "reset" /\ t = tok[s])
      BY <3>1
    <3>6. QED
      BY <1>1, <3>1, <3>3, <3>4, <3>5 DEF Undisturbed
  <2>6. CASE RowsMarked(s)
    <3>1. /\ pc[s] = "waiting" /\ pc'[s] = "issued" /\ UNCHANGED <<op, who, tok>>
          /\ aim'[s] = {t \in aim[s] : ~token[t].used}
      BY <1>1, <2>6 DEF RowsMarked, SessionsTyped
    <3>2. Purpose(s)' = Purpose(s)
      BY <3>1 DEF Purpose
    <3>3. Outstanding(who[s], Purpose(s))' = Outstanding(who[s], Purpose(s))
      BY <1>3, <3>1, <3>2 DEF Outstanding, TokensOf
    <3>4. \A t \in Outstanding(who[s], Purpose(s)) : t \in aim'[s] \/ (op[s] = "reset" /\ t = tok[s])
      BY <1>1, <3>1 DEF Undisturbed, Outstanding
    <3>5. QED
      BY <1>1, <3>1, <3>3, <3>4 DEF Undisturbed
  <2>7. CASE ResetFlush(s)
    <3>1. pc[s] = "reset" /\ pc'[s] = "flushed" /\ UNCHANGED <<op, who, tok, aim>>
      BY <1>1, <2>7 DEF ResetFlush, Goto, SessionsTyped
    <3>2. QED
      BY <1>1, <3>1 DEF Undisturbed
  <2>8. QED
    BY <2>1, <2>2, <2>3, <2>4, <2>5, <2>6, <2>7
<1>5. QED
  BY <1>2, <1>4, SerialQuiet

\* The e-mail, and the ways a request ends without a commit.
LEMMA SerialEnds ==
    ASSUME AuthInv, SerialInv, NEW s \in Sessions,
           SendLink(s) \/ IssueFailsInRegister(s) \/ ServerError(s) \/ Abort(s)
    PROVE  SerialInv'
<1>1. SessionsTyped /\ Undisturbed(s)
  BY AuthTyped DEF SerialInv
<1>2. UNCHANGED <<user, token, uses>>
  BY DEF SendLink, IssueFailsInRegister, ServerError, Abort, tables, history
<1>3. CASE EndRequest(s)
  <2>1. OthersKeep(s) /\ pc'[s] = "idle"
    BY <1>1, <1>3, Ends
  <2>2. op'[s] = "none" /\ aim'[s] = {}
    BY <1>1, <1>3 DEF EndRequest, SessionsTyped
  <2>3. Undisturbed(s)'
    BY <2>1, <2>2 DEF Undisturbed
  <2>4. QED
    BY <1>2, <2>1, <2>3, SerialQuiet
<1>4. CASE SendLink(s) /\ ~EndRequest(s)
  <2>1. op[s] = "request_verification" /\ Goto(s, "error")
    BY <1>4 DEF SendLink
  <2>2. OthersKeep(s) /\ pc'[s] = "error" /\ UNCHANGED <<op, who, tok, aim>>
    BY <1>1, <2>1 DEF Goto, OthersKeep, SessionsTyped
  <2>3. Undisturbed(s)'
    BY <1>1, <1>2, <2>1, <2>2 DEF Undisturbed
  <2>4. QED
    BY <1>2, <2>2, <2>3, SerialQuiet
<1>5. QED
  BY <1>3, <1>4 DEF SendLink, IssueFailsInRegister, ServerError, Abort

LEMMA SerialRegister ==
    ASSUME AuthInv, AuthInv', SerialInv, OnePerUser, NEW s \in Sessions, RegisterCommit(s)
    PROVE  SerialInv'
<1>1. TablesTyped /\ SessionsTyped /\ Local(s) /\ Undisturbed(s)
  BY AuthTyped DEF AuthInv, SerialInv
<1>2. /\ pc[s] = "inserted" /\ Goto(s, "issue") /\ UNCHANGED <<token, uses>>
      /\ user' = [user EXCEPT ![who[s]] = [password |-> TRUE, verified |-> FALSE]]
  BY DEF RegisterCommit, history
<1>3. who[s] \in Users /\ user[who[s]] = Absent
  BY <1>1, <1>2 DEF Local, UserKnown
<1>4. OthersKeep(s) /\ pc'[s] = "issue" /\ UNCHANGED <<op, who, tok, aim>>
  BY <1>1, <1>2 DEF Goto, OthersKeep, SessionsTyped
<1>5. Committed' = Committed /\ \A u, p : Outstanding(u, p)' = Outstanding(u, p)
  BY <1>2 DEF Committed, Outstanding, TokensOf
<1>6. Grows
  BY <1>1, <1>2, <1>3, <1>5 DEF RegisterCommit, Grows, HasPassword, TablesTyped
<1>7. OwnRowsOnly(s)
  BY <1>1, <1>2, <1>3 DEF OwnRowsOnly, TablesTyped, Committed
<1>8. Undisturbed(s)'
  BY <1>1, <1>2, <1>4 DEF Undisturbed
<1>9. RedeemedIsUsed'
  BY <1>2, <1>5 DEF SerialInv, RedeemedIsUsed
<1>10. PICK w \in Users : w = who[s]
  BY <1>3
<1>11. \A p \in TokenPurpose : \A t, v \in Outstanding(w, p)' : t = v
  BY <1>5 DEF SerialInv, OneOutstanding
<1>12. QED
  BY <1>2, <1>4, <1>6, <1>7, <1>8, <1>9, <1>10, <1>11, SerialCommits

LEMMA SerialIssue ==
    ASSUME AuthInv, SerialInv, OnePerUser, NEW s \in Sessions, IssueCommit(s)
    PROVE  SerialInv'
<1> DEFINE new == [user |-> who[s], purpose |-> Purpose(s), used |-> FALSE]
           marked == MarkUsed(aim[s])
<1>1. TablesTyped /\ SessionsTyped /\ Local(s) /\ Undisturbed(s)
  BY AuthTyped DEF AuthInv, SerialInv
<1>2. PICK t \in Tokens \ Committed : token' = [marked EXCEPT ![t] = new]
  BY DEF IssueCommit
<1>3. /\ pc[s] = "issued" /\ op[s] # "reset" /\ pc' = [pc EXCEPT ![s] = "send"]
      /\ \E q : tok' = [tok EXCEPT ![s] = q]
      /\ UNCHANGED <<user, op, who, aim, known, uses>>
  BY DEF IssueCommit
<1>4. who[s] \in Users /\ aim[s] \in SUBSET Committed /\ op[s] # "verify"
  BY <1>1, <1>3 DEF Local, UserKnown, LinkKnown, Invalidates, SessionsTyped
<1>5. new # Absent /\ new.user = who[s] /\ new.purpose = Purpose(s)
  <2>1. new \in TokenRow
    BY <1>4 DEF TokenRow, TokenPurpose, Purpose
  <2>2. QED
    BY <2>1, AuthAssumption
<1>6. /\ marked \in [Tokens -> TokenRow \cup {Absent}]
      /\ \A q \in Tokens \ Committed : marked[q] = Absent
      /\ \A q \in Committed :
           /\ marked[q] # Absent
           /\ marked[q].user = token[q].user
           /\ marked[q].purpose = token[q].purpose
           /\ marked[q].used = (token[q].used \/ q \in aim[s])
  BY <1>1, <1>4, Marks
<1>7. \A q \in Committed : q \notin aim[s] => marked[q] = token[q]
  BY DEF MarkUsed, Committed
<1> HIDE DEF marked
<1>8. /\ token'[t] = new
      /\ \A q \in Tokens \ {t} : token'[q] = marked[q]
  BY <1>2, <1>6
<1> HIDE DEF new
<1>9. Committed' = Committed \cup {t} /\ Committed \subseteq Tokens
  <2>1. \A q \in Tokens : token'[q] # Absent <=> q \in Committed \/ q = t
    BY <1>5, <1>6, <1>8
  <2>2. QED
    BY <1>2, <2>1 DEF Committed
<1>10. \A q \in Committed :
         /\ token'[q].user = token[q].user /\ token'[q].purpose = token[q].purpose
         /\ token'[q].used = (token[q].used \/ q \in aim[s])
  BY <1>2, <1>6, <1>8, <1>9
<1>11. OthersKeep(s) /\ pc'[s] = "send" /\ op'[s] = op[s] /\ aim'[s] = aim[s] /\ who'[s] = who[s]
  BY <1>1, <1>3 DEF SessionsTyped, OthersKeep
<1>12. Grows
  BY <1>3, <1>9, <1>10 DEF IssueCommit, Grows, HasPassword
<1>13. OwnRowsOnly(s)
  BY <1>1, <1>2, <1>3, <1>5, <1>6, <1>7, <1>8, <1>9 DEF OwnRowsOnly, Undisturbed
<1>14. Undisturbed(s)'
  BY <1>1, <1>3, <1>4, <1>10, <1>11 DEF Undisturbed
<1>15. RedeemedIsUsed'
  BY <1>3, <1>9, <1>10 DEF SerialInv, RedeemedIsUsed
<1>16. PICK w \in Users : w = who[s]
  BY <1>4
<1>17. ASSUME NEW p \in TokenPurpose, NEW q \in Outstanding(w, p)', NEW v \in Outstanding(w, p)'
       PROVE  q = v
  <2>1. \A x \in Outstanding(w, p)' : x = t \/ (x \in Outstanding(w, p) /\ x \notin aim[s])
    BY <1>9, <1>10 DEF Outstanding, TokensOf
  <2>2. CASE p = Purpose(s)
    <3>1. \A x \in Outstanding(w, p) : x \in aim[s]
      BY <1>1, <1>3, <1>16, <2>2 DEF Undisturbed
    <3>2. QED
      BY <1>17, <2>1, <3>1
  <2>3. CASE p # Purpose(s)
    <3>1. t \notin Outstanding(w, p)'
      BY <1>5, <1>8, <2>3 DEF Outstanding, TokensOf
    <3>2. q \in Outstanding(w, p) /\ v \in Outstanding(w, p)
      BY <1>17, <2>1, <3>1
    <3>3. QED
      BY <3>2 DEF SerialInv, OneOutstanding
  <2>4. QED
    BY <2>2, <2>3
<1>18. QED
  BY <1>3, <1>11, <1>12, <1>13, <1>14, <1>15, <1>16, <1>17, SerialCommits

\* A link is redeemed: it was unused.
LEMMA SerialRedeems ==
    ASSUME AuthInv, SerialInv, OnePerUser, NEW s \in Sessions, op[s] \in {"verify", "reset"},
           pc[s] \in Working, EndRequest(s),
           NEW ts \in SUBSET Committed, tok[s] \in ts, token' = MarkUsed(ts),
           \A t \in ts : token[t].user = who[s],
           \A u \in Users \ {who[s]} : user'[u] = user[u],
           user'[who[s]] # Absent, user'[who[s]].password,
           uses' = [uses EXCEPT ![tok[s]] = @ + 1], UNCHANGED mailed
    PROVE  SerialInv'
<1>1. TablesTyped /\ SessionsTyped /\ Local(s) /\ Undisturbed(s)
  BY AuthTyped DEF AuthInv, SerialInv
<1>2. tok[s] \in Committed /\ ~token[tok[s]].used /\ who[s] \in Users /\ pc[s] # "idle"
  BY <1>1 DEF Local, UserKnown, Working, Undisturbed
<1>3. /\ \A t \in Tokens \ Committed : token'[t] = Absent
      /\ \A t \in Committed :
           /\ token'[t] # Absent
           /\ token'[t].user = token[t].user
           /\ token'[t].purpose = token[t].purpose
           /\ token'[t].used = (token[t].used \/ t \in ts)
  BY <1>1, Marks
<1>4. Committed' = Committed /\ Committed \subseteq Tokens
  BY <1>3 DEF Committed
<1>5. \A t \in Committed : t \notin ts => token'[t] = token[t]
  BY DEF MarkUsed, Committed
<1>6. OthersKeep(s) /\ pc'[s] = "idle" /\ op'[s] = "none" /\ aim'[s] = {}
  BY <1>1, Ends DEF EndRequest, SessionsTyped
<1>7. Grows
  BY <1>3, <1>4 DEF Grows, HasPassword
<1>8. OwnRowsOnly(s)
  BY <1>3, <1>5 DEF OwnRowsOnly
<1>9. Undisturbed(s)'
  BY <1>6 DEF Undisturbed
<1>10. RedeemedIsUsed'
  <2>1. uses \in [Tokens -> Nat]
    BY <1>1 DEF TablesTyped
  <2>2. uses[tok[s]] = 0
    BY <1>2, <2>1 DEF SerialInv, RedeemedIsUsed, Committed
  <2>3. uses'[tok[s]] = 1 /\ \A t \in Tokens \ {tok[s]} : uses'[t] = uses[t]
    BY <1>2, <1>4, <2>1, <2>2
  <2>4. ASSUME NEW t \in Tokens, t # tok[s]
        PROVE  uses'[t] <= 1 /\ (uses'[t] > 0 => t \in Committed' /\ token'[t].used)
    <3>1. uses[t] <= 1 /\ (uses[t] > 0 => t \in Committed /\ token[t].used)
      BY DEF SerialInv, RedeemedIsUsed
    <3>2. QED
      BY <1>3, <1>4, <2>3, <2>4, <3>1
  <2>5. tok[s] \in Committed' /\ token'[tok[s]].used
    BY <1>2, <1>3, <1>4
  <2>6. QED
    BY <2>3, <2>4, <2>5 DEF RedeemedIsUsed
<1>11. PICK w \in Users : w = who[s]
  BY <1>2
<1>12. \A p \in TokenPurpose : \A t, v \in Outstanding(w, p)' : t = v
  <2>1. ASSUME NEW p \in TokenPurpose PROVE \A t \in Outstanding(w, p)' : t \in Outstanding(w, p)
    BY <1>3, <1>4 DEF Outstanding, TokensOf
  <2>2. QED
    BY <2>1 DEF SerialInv, OneOutstanding
<1>13. QED
  BY <1>2, <1>6, <1>7, <1>8, <1>9, <1>10, <1>11, <1>12, SerialCommits

LEMMA SerialVerify ==
    ASSUME AuthInv, SerialInv, OnePerUser, NEW s \in Sessions,
           VerifyCommit(s) \/ ResetCommit(s)
    PROVE  SerialInv'
<1>1. TablesTyped /\ SessionsTyped /\ Local(s) /\ Undisturbed(s)
  BY AuthTyped DEF AuthInv, SerialInv
<1>2. CASE VerifyCommit(s)
  <2> DEFINE ts == {tok[s]}
  <2>1. /\ pc[s] = "verify" /\ EndRequest(s) /\ token' = MarkUsed(ts)
        /\ user' = [user EXCEPT ![who[s]].verified = TRUE]
        /\ uses' = [uses EXCEPT ![tok[s]] = @ + 1] /\ UNCHANGED mailed
    BY <1>2 DEF VerifyCommit
  <2>2. /\ op[s] = "verify" /\ tok[s] \in Committed /\ token[tok[s]].user = who[s]
        /\ who[s] \in Users /\ HasPassword(who[s])
    BY <1>1, <2>1 DEF Local, LinkKnown, UserKnown, TablesTyped, Working
  <2>3. user[who[s]] \in UserRow /\ user[who[s]].password
    BY <1>1, <2>2 DEF HasPassword, TablesTyped
  <2>4. [user[who[s]] EXCEPT !.verified = TRUE] \in UserRow
        /\ [user[who[s]] EXCEPT !.verified = TRUE].password
    BY <2>3 DEF UserRow
  <2>5. /\ \A u \in Users \ {who[s]} : user'[u] = user[u]
        /\ user'[who[s]] = [user[who[s]] EXCEPT !.verified = TRUE]
    BY <1>1, <2>1, <2>2 DEF TablesTyped
  <2>6. user'[who[s]] # Absent /\ user'[who[s]].password
    BY <2>4, <2>5, AuthAssumption
  <2>7. /\ ts \in SUBSET Committed /\ tok[s] \in ts /\ pc[s] \in Working
        /\ \A t \in ts : token[t].user = who[s]
        /\ op[s] \in {"verify", "reset"}
    BY <2>1, <2>2 DEF Working
  <2> HIDE DEF ts
  <2>8. /\ EndRequest(s) /\ token' = MarkUsed(ts)
        /\ uses' = [uses EXCEPT ![tok[s]] = @ + 1] /\ UNCHANGED mailed
        /\ \A u \in Users \ {who[s]} : user'[u] = user[u]
    BY <2>1, <2>5, Zenon
  <2>9. QED
    BY <2>6, <2>7, <2>8, SerialRedeems
<1>3. CASE ResetCommit(s)
  <2> DEFINE ts == aim[s] \cup {tok[s]}
             new == [password |-> TRUE, verified |-> TRUE]
  <2>1. /\ pc[s] = "issued" /\ op[s] = "reset" /\ EndRequest(s) /\ token' = MarkUsed(ts)
        /\ user' = [user EXCEPT ![who[s]] = new]
        /\ uses' = [uses EXCEPT ![tok[s]] = @ + 1] /\ UNCHANGED mailed
    BY <1>3 DEF ResetCommit
  <2>2. /\ tok[s] \in Committed /\ token[tok[s]].user = who[s]
        /\ who[s] \in Users /\ pc[s] \in Working
    BY <1>1, <2>1 DEF Local, LinkKnown, UserKnown, TablesTyped, Working
  <2>3. new # Absent
    <3>1. new \in UserRow
      BY DEF UserRow
    <3>2. QED
      BY <3>1, AuthAssumption
  <2>4. /\ \A u \in Users \ {who[s]} : user'[u] = user[u]
        /\ user'[who[s]] # Absent /\ user'[who[s]].password
    BY <1>1, <2>1, <2>2, <2>3 DEF TablesTyped
  <2>5. ts \in SUBSET Committed /\ tok[s] \in ts /\ \A t \in ts : token[t].user = who[s]
    BY <1>1, <2>2 DEF Local, Invalidates, Undisturbed
  <2> HIDE DEF ts, new
  <2>6. op[s] \in {"verify", "reset"}
    BY <2>1
  <2>7. QED
    BY <2>1, <2>2, <2>4, <2>5, <2>6, SerialRedeems, ZenonT(40)
<1>4. QED
  BY <1>2, <1>3

LEMMA SerialNext == AuthInv /\ AuthInv' /\ SerialInv /\ OnePerUser /\ [Next]_vars => SerialInv'
<1> SUFFICES ASSUME AuthInv, AuthInv', SerialInv, OnePerUser, [Next]_vars PROVE SerialInv'
  OBVIOUS
<1>1. ASSUME NEW s \in Sessions, Step(s) PROVE SerialInv'
  <2>1. CASE \/ Register(s) \/ RequestEmailVerification(s) \/ RequestPasswordReset(s)
             \/ VerifyEmail(s) \/ ResetPassword(s) \/ InsertUser(s) \/ InvalidateActive(s)
             \/ RowsMarked(s) \/ ResetFlush(s)
    <3>1. UNCHANGED <<user, token, uses>>
      BY <2>1 DEF Register, RequestEmailVerification, RequestPasswordReset, VerifyEmail,
                  ResetPassword, InsertUser, InvalidateActive, RowsMarked, ResetFlush, tables, history
    <3>2. QED
      BY <2>1, <3>1, SerialNoWrite
  <2>2. CASE RegisterCommit(s)
    BY <2>2, SerialRegister
  <2>3. CASE IssueCommit(s)
    BY <2>3, SerialIssue
  <2>4. CASE VerifyCommit(s) \/ ResetCommit(s)
    BY <2>4, SerialVerify
  <2>5. CASE SendLink(s) \/ IssueFailsInRegister(s) \/ ServerError(s) \/ Abort(s)
    BY <2>5, SerialEnds
  <2>6. CASE Login(s) \/ Rejected(s)
    <3>1. UNCHANGED <<user, token, uses>> /\ UNCHANGED <<pc, op, who, tok, aim, known>>
      BY <2>6 DEF Login, Rejected, sessVars, history, vars, tables
    <3>2. OthersKeep(s)
      BY <3>1 DEF OthersKeep
    <3>3. Undisturbed(s)'
      BY <3>1 DEF SerialInv, Undisturbed, Outstanding, TokensOf, Purpose, Committed
    <3>4. QED
      BY <3>1, <3>2, <3>3, SerialQuiet
  <2>7. QED
    BY <1>1, <2>1, <2>2, <2>3, <2>4, <2>5, <2>6 DEF Step
<1>2. CASE LinkExpires \/ JwtExpires \/ UNCHANGED vars
  <2>1. UNCHANGED <<user, token, uses>> /\ UNCHANGED <<pc, op, who, tok, aim>>
    BY <1>2 DEF LinkExpires, JwtExpires, sessVars, history, vars, tables
  <2>2. Committed' = Committed /\ \A u, p : Outstanding(u, p)' = Outstanding(u, p)
    BY <2>1 DEF Committed, Outstanding, TokensOf
  <2>3. OneOutstanding' /\ RedeemedIsUsed'
    BY <2>1, <2>2 DEF SerialInv, OneOutstanding, RedeemedIsUsed
  <2>4. \A s \in Sessions : Undisturbed(s)'
    BY <2>1 DEF SerialInv, Undisturbed, Outstanding, TokensOf, Purpose, Committed
  <2>5. QED
    BY <2>3, <2>4 DEF SerialInv
<1>3. QED
  BY <1>1, <1>2 DEF Next

\* With requests of one user one after the other, those of different users as
\* they come: at most one emailed link of a user and purpose is live, no link
\* is redeemed twice, and a registration never answers with a server error
\* (invalidate_active, get_valid, register).
THEOREM SerialPerUser ==
    Spec /\ []OnePerUser => [](AtMostOneLive /\ SingleUse /\ DuplicateIsConflict)
<1>1. SerialInv => AtMostOneLive
  <2> SUFFICES ASSUME SerialInv, NEW u \in Users, NEW p \in TokenPurpose
               PROVE  Cardinality((Outstanding(u, p) \cap mailed) \ expired) <= 1
    BY DEF AtMostOneLive
  <2> DEFINE L == (Outstanding(u, p) \cap mailed) \ expired
  <2>1. \A t, v \in L : t = v
    BY DEF SerialInv, OneOutstanding
  <2>2. CASE L = {}
    BY <2>2, FS_EmptySet
  <2>3. CASE L # {}
    <3>1. PICK t \in L : TRUE
      BY <2>3
    <3>2. L = {t}
      BY <2>1
    <3>3. QED
      BY <3>2, FS_Singleton
  <2>4. QED
    BY <2>2, <2>3
<1>2. SerialInv => SingleUse /\ DuplicateIsConflict
  BY DEF SerialInv, RedeemedIsUsed, Undisturbed, SingleUse, DuplicateIsConflict
<1>3. QED
  BY <1>1, <1>2, SerialInit, SerialNext, Inductive, PTL DEF Spec

=============================================================================
