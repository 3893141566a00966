----------------------------- MODULE AuthTokens -----------------------------
(***************************************************************************)
(* AuthService: registration, login, e-mail verification and password      *)
(* reset, over the users and auth_tokens tables.  A request is one database*)
(* transaction per commit at READ COMMITTED: a statement sees what was     *)
(* committed when it started, an UPDATE waits for rows another transaction *)
(* has written and looks at them again.                                    *)
(*                                                                         *)
(* Addresses stand for users, token ids for the random values of links.    *)
(* What a password is matters nowhere below, only whether a row has one.   *)
(***************************************************************************)
EXTENDS Naturals, FiniteSets

CONSTANTS
    Users,      \* e-mail addresses
    Tokens,     \* link tokens that can be issued (the bound on issuing)
    Sessions,   \* concurrently served requests
    Absent      \* no such row

TokenPurpose == {"email_verification", "password_reset"}
UserRow == [password : BOOLEAN, verified : BOOLEAN]
TokenRow == [user : Users, purpose : TokenPurpose, used : BOOLEAN]

ASSUME AuthAssumption ==
    /\ Absent \notin UserRow
    /\ Absent \notin TokenRow
    /\ Users # {} /\ Tokens # {}

VARIABLES
    user,        \* users
    token,       \* auth_tokens
    expired,     \* tokens past their expires_at
    mailed,      \* links that reached the mailbox
    signedIn,    \* users holding an unexpired JWT
    pc,
    op,          \* the request's endpoint
    who,         \* its user
    tok,         \* the link it redeems, or the one it issues
    aim,         \* rows its UPDATE of auth_tokens is to mark used
    known,       \* history: tokens committed when the request began
    superseded,  \* history: links an issue or a reset should have killed
    uses         \* history: committed redemptions of a link

tables == <<user, token, expired, mailed, signedIn>>
sessVars == <<pc, op, who, tok, aim, known>>
history == <<superseded, uses>>
vars == <<tables, sessVars, history>>

Ops == {"none", "register", "request_verification", "forgot", "verify", "reset"}

TypeOK ==
    /\ user \in [Users -> UserRow \cup {Absent}]
    /\ token \in [Tokens -> TokenRow \cup {Absent}]
    /\ expired \subseteq Tokens
    /\ mailed \subseteq {t \in Tokens : token[t] # Absent}
    /\ signedIn \subseteq {u \in Users : user[u] # Absent}
    /\ pc \in [Sessions -> {"idle", "insert", "inserted", "issue", "waiting", "issued", "send",
                            "verify", "reset", "flushed", "error"}]
    /\ op \in [Sessions -> Ops]
    /\ who \in [Sessions -> Users \cup {Absent}]
    /\ tok \in [Sessions -> Tokens \cup {Absent}]
    /\ aim \in [Sessions -> SUBSET Tokens]
    /\ known \in [Sessions -> SUBSET Tokens]
    /\ superseded \subseteq Tokens
    /\ uses \in [Tokens -> Nat]

Committed == {t \in Tokens : token[t] # Absent}

\* The purpose of the links the request's UPDATE is about.
Purpose(s) == IF op[s] \in {"forgot", "reset"} THEN "password_reset" ELSE "email_verification"

\* Tokens of a user and purpose; the outstanding ones are still unused.
TokensOf(u, p) == {t \in Committed : token[t].user = u /\ token[t].purpose = p}
Outstanding(u, p) == {t \in TokensOf(u, p) : ~token[t].used}

\* AuthTokenRepository.get_valid
GetValid(t, p) ==
    /\ t \in Committed
    /\ token[t].purpose = p
    /\ ~token[t].used
    /\ t \notin expired

\* Rows written by a transaction that has not ended.
UserLocks(s) ==
    IF pc[s] = "inserted" \/ (op[s] = "reset" /\ pc[s] \in {"flushed", "waiting", "issued"})
      THEN {who[s]} ELSE {}
TokenLocks(s) ==
    (IF pc[s] = "issued" THEN aim[s] ELSE {})
    \cup (IF op[s] = "reset" /\ pc[s] \in {"flushed", "waiting", "issued"} THEN {tok[s]} ELSE {})

CanWriteUser(s) == \A r \in Sessions \ {s} : who[s] \notin UserLocks(r)
CanWriteTokens(s, ts) == \A r \in Sessions \ {s} : ts \cap TokenLocks(r) = {}

MarkUsed(ts) == [t \in Tokens |-> IF t \in ts THEN [token[t] EXCEPT !.used = TRUE] ELSE token[t]]

\* The request arrives; `at` is where it stands after its first SELECT.
Begin(s, o, u, at) ==
    /\ pc[s] = "idle"
    /\ op' = [op EXCEPT ![s] = o]
    /\ who' = [who EXCEPT ![s] = u]
    /\ pc' = [pc EXCEPT ![s] = at]
    /\ known' = [known EXCEPT ![s] = Committed]

Goto(s, at) ==
    /\ pc' = [pc EXCEPT ![s] = at]
    /\ UNCHANGED <<op, who, tok, aim, known>>

\* The response is sent and the session closed: what it did not commit is
\* rolled back.
EndRequest(s) ==
    /\ pc' = [pc EXCEPT ![s] = "idle"]
    /\ op' = [op EXCEPT ![s] = "none"]
    /\ who' = [who EXCEPT ![s] = Absent]
    /\ tok' = [tok EXCEPT ![s] = Absent]
    /\ aim' = [aim EXCEPT ![s] = {}]
    /\ known' = [known EXCEPT ![s] = {}]

-----------------------------------------------------------------------------
(* register, login                                                         *)

\* get_by_email: an existing row always conflicts.
Register(s) ==
    /\ \E u \in Users : user[u] = Absent /\ Begin(s, "register", u, "insert")
    /\ UNCHANGED <<tok, aim, tables, history>>

\* users.create flushes the INSERT, waiting for an uncommitted row with the
\* same address; a row committed since the SELECT raises IntegrityError, here
\* and not at the commit whose handler turns it into ConflictError.
InsertUser(s) ==
    /\ pc[s] = "insert"
    /\ CanWriteUser(s)
    /\ \/ /\ user[who[s]] = Absent
          /\ Goto(s, "inserted")
       \/ /\ user[who[s]] # Absent
          /\ Goto(s, "error")
    /\ UNCHANGED <<tables, history>>

\* The commit; then request_email_verification for the new, unverified user.
RegisterCommit(s) ==
    /\ pc[s] = "inserted"
    /\ user' = [user EXCEPT ![who[s]] = [password |-> TRUE, verified |-> FALSE]]
    /\ Goto(s, "issue")
    /\ UNCHANGED <<token, expired, mailed, signedIn, history>>

\* One SELECT; the right password for a row that has one gets a JWT.
Login(s) ==
    /\ pc[s] = "idle"
    /\ \E u \in Users :
         /\ user[u] # Absent
         /\ user[u].password
         /\ signedIn' = signedIn \cup {u}
    /\ UNCHANGED <<user, token, expired, mailed, sessVars, history>>

-----------------------------------------------------------------------------
(* Issuing a link: _issue_token, commit, e-mail.                           *)

\* The current user, from the JWT; a verified address gets no link.
RequestEmailVerification(s) ==
    /\ \E u \in signedIn : ~user[u].verified /\ Begin(s, "request_verification", u, "issue")
    /\ UNCHANGED <<tok, aim, tables, history>>

\* Mutant: a link is issued for a row without a password too.
RequestPasswordResetAny(s) ==
    /\ \E u \in Users : user[u] # Absent /\ Begin(s, "forgot", u, "issue")
    /\ UNCHANGED <<tok, aim, tables, history>>

\* No account, or none with a password: the same answer and no link.
RequestPasswordReset(s) ==
    /\ \E u \in Users :
         /\ user[u] # Absent
         /\ user[u].password
         /\ Begin(s, "forgot", u, "issue")
    /\ UNCHANGED <<tok, aim, tables, history>>

\* Mutant: the outstanding links are not looked for at all.
InvalidateNothing(s) ==
    /\ pc[s] \in {"issue", "flushed"}
    /\ aim' = [aim EXCEPT ![s] = {}]
    /\ pc' = [pc EXCEPT ![s] = "waiting"]
    /\ UNCHANGED <<op, who, tok, known, tables, history>>

\* invalidate_active starts: it sees the outstanding tokens committed by now
\* (its own transaction's write of the redeemed token is not among them).
InvalidateActive(s) ==
    /\ pc[s] \in {"issue", "flushed"}
    /\ aim' = [aim EXCEPT ![s] = Outstanding(who[s], Purpose(s))
                                 \ (IF op[s] = "reset" THEN {tok[s]} ELSE {})]
    /\ pc' = [pc EXCEPT ![s] = "waiting"]
    /\ UNCHANGED <<op, who, tok, known, tables, history>>

\* It has every row it wants, and skips those that were used meanwhile.
RowsMarked(s) ==
    /\ pc[s] = "waiting"
    /\ CanWriteTokens(s, aim[s])
    /\ aim' = [aim EXCEPT ![s] = {t \in @ : ~token[t].used}]
    /\ pc' = [pc EXCEPT ![s] = "issued"]
    /\ UNCHANGED <<op, who, tok, known, tables, history>>

\* The new row is inserted and everything committed.
IssueCommit(s) ==
    /\ pc[s] = "issued"
    /\ op[s] # "reset"
    /\ \E t \in Tokens \ Committed :
         /\ token' = [MarkUsed(aim[s]) EXCEPT
                        ![t] = [user |-> who[s], purpose |-> Purpose(s), used |-> FALSE]]
         /\ tok' = [tok EXCEPT ![s] = t]
    /\ superseded' = superseded \cup (known[s] \cap TokensOf(who[s], Purpose(s)))
    /\ pc' = [pc EXCEPT ![s] = "send"]
    /\ UNCHANGED <<user, expired, mailed, signedIn, op, who, aim, known, uses>>

\* The e-mail goes out or the sender fails.  The failure is an error only to
\* the user who asked for a verification link; a registration answers with
\* its JWT either way.
SendLink(s) ==
    /\ pc[s] = "send"
    /\ \/ /\ mailed' = mailed \cup {tok[s]}
          /\ EndRequest(s)
       \/ /\ op[s] = "request_verification"
          /\ Goto(s, "error")
          /\ UNCHANGED mailed
       \/ /\ op[s] # "request_verification"
          /\ EndRequest(s)
          /\ UNCHANGED mailed
    /\ signedIn' = IF op[s] = "register" THEN signedIn \cup {who[s]} ELSE signedIn
    /\ UNCHANGED <<user, token, expired, history>>

\* The rest of registration's best effort: an error while the link is issued
\* is logged, and the JWT sent all the same.
IssueFailsInRegister(s) ==
    /\ op[s] = "register"
    /\ pc[s] \in {"issue", "waiting", "issued"}
    /\ signedIn' = signedIn \cup {who[s]}
    /\ EndRequest(s)
    /\ UNCHANGED <<user, token, expired, mailed, history>>

-----------------------------------------------------------------------------
(* Redeeming a link from the mailbox.                                      *)

VerifyEmail(s) ==
    /\ \E t \in mailed :
         /\ GetValid(t, "email_verification")
         /\ Begin(s, "verify", token[t].user, "verify")
         /\ tok' = [tok EXCEPT ![s] = t]
    /\ UNCHANGED <<aim, tables, history>>

\* Mutant: the token is left unused.
VerifyCommitKeepsToken(s) ==
    /\ pc[s] = "verify"
    /\ CanWriteUser(s) /\ CanWriteTokens(s, {tok[s]})
    /\ user' = [user EXCEPT ![who[s]].verified = TRUE]
    /\ uses' = [uses EXCEPT ![tok[s]] = @ + 1]
    /\ EndRequest(s)
    /\ UNCHANGED <<token, expired, mailed, signedIn, superseded>>

\* The token is used and the address verified, in one commit.
VerifyCommit(s) ==
    /\ pc[s] = "verify"
    /\ CanWriteUser(s) /\ CanWriteTokens(s, {tok[s]})
    /\ token' = MarkUsed({tok[s]})
    /\ user' = [user EXCEPT ![who[s]].verified = TRUE]
    /\ uses' = [uses EXCEPT ![tok[s]] = @ + 1]
    /\ EndRequest(s)
    /\ UNCHANGED <<expired, mailed, signedIn, superseded>>

ResetPassword(s) ==
    /\ \E t \in mailed :
         /\ GetValid(t, "password_reset")
         /\ Begin(s, "reset", token[t].user, "reset")
         /\ tok' = [tok EXCEPT ![s] = t]
    /\ UNCHANGED <<aim, tables, history>>

\* invalidate_active flushes the new hash and the used token first.
ResetFlush(s) ==
    /\ pc[s] = "reset"
    /\ CanWriteUser(s) /\ CanWriteTokens(s, {tok[s]})
    /\ Goto(s, "flushed")
    /\ UNCHANGED <<tables, history>>

\* Password, the link and every other outstanding one, verified: one commit.
ResetCommit(s) ==
    /\ pc[s] = "issued"
    /\ op[s] = "reset"
    /\ token' = MarkUsed(aim[s] \cup {tok[s]})
    /\ user' = [user EXCEPT ![who[s]] = [password |-> TRUE, verified |-> TRUE]]
    /\ uses' = [uses EXCEPT ![tok[s]] = @ + 1]
    /\ superseded' = superseded \cup (known[s] \cap TokensOf(who[s], "password_reset"))
    /\ EndRequest(s)
    /\ UNCHANGED <<expired, mailed, signedIn>>

-----------------------------------------------------------------------------

\* A request that its first SELECT already answers: address taken or unknown,
\* no or wrong password, already verified, link not valid.
Rejected(s) == pc[s] = "idle" /\ UNCHANGED vars

\* An exception no handler knows is answered with a 500.
ServerError(s) ==
    /\ pc[s] = "error"
    /\ EndRequest(s)
    /\ UNCHANGED <<tables, history>>

\* The process dies or the database fails the transaction: nothing of it is
\* kept and no answer arrives.
Abort(s) ==
    /\ pc[s] # "idle"
    /\ EndRequest(s)
    /\ UNCHANGED <<tables, history>>

\* Time passes an expires_at, or a JWT's exp.
LinkExpires ==
    /\ \E t \in Committed \ expired : expired' = expired \cup {t}
    /\ UNCHANGED <<user, token, mailed, signedIn, sessVars, history>>
JwtExpires ==
    /\ \E u \in signedIn : signedIn' = signedIn \ {u}
    /\ UNCHANGED <<user, token, expired, mailed, sessVars, history>>

\* Rows from before authentication existed have no password.
Init ==
    /\ user \in [Users -> {Absent, [password |-> FALSE, verified |-> FALSE]}]
    /\ token = [t \in Tokens |-> Absent]
    /\ expired = {} /\ mailed = {} /\ signedIn = {}
    /\ pc = [s \in Sessions |-> "idle"]
    /\ op = [s \in Sessions |-> "none"]
    /\ who = [s \in Sessions |-> Absent]
    /\ tok = [s \in Sessions |-> Absent]
    /\ aim = [s \in Sessions |-> {}]
    /\ known = [s \in Sessions |-> {}]
    /\ superseded = {}
    /\ uses = [t \in Tokens |-> 0]

Step(s) ==
    \/ Register(s)
    \/ InsertUser(s)
    \/ RegisterCommit(s)
    \/ Login(s)
    \/ RequestEmailVerification(s)
    \/ RequestPasswordReset(s)
    \/ InvalidateActive(s)
    \/ RowsMarked(s)
    \/ IssueCommit(s)
    \/ SendLink(s)
    \/ IssueFailsInRegister(s)
    \/ VerifyEmail(s)
    \/ VerifyCommit(s)
    \/ ResetPassword(s)
    \/ ResetFlush(s)
    \/ ResetCommit(s)
    \/ Rejected(s)
    \/ ServerError(s)
    \/ Abort(s)

Next == (\E s \in Sessions : Step(s)) \/ LinkExpires \/ JwtExpires

Spec == Init /\ [][Next]_vars

-----------------------------------------------------------------------------
(* Properties.                                                             *)

\* "Each new request invalidates the previous link, and a successful reset
\* kills all outstanding reset tokens": once such a request has committed,
\* every link of that user and purpose that existed when the request arrived
\* is dead, whatever other requests, failures and expirations overlapped it.
SupersededDead == \A t \in superseded : token[t].used

\* A verified address was proved: one of the user's own links reached the
\* mailbox and was used up, also when issuing, sending and redeeming overlap;
\* and the tables and the requests' places in the code are well typed.
VerifiedByLink ==
    /\ TypeOK
    /\ \A u \in Users : user[u] # Absent /\ user[u].verified =>
         \E t \in mailed : token[t].user = u /\ token[t].used

\* "NULL only on rows created before auth existed - those accounts are
\* permanently locked out (no login, no re-registration)": no sequence of
\* requests gives such a row a JWT, a link or a password.
LegacyLockedOut ==
    [][\A u \in Users : user[u] # Absent /\ ~user[u].password =>
         /\ user'[u] = user[u]
         /\ u \notin signedIn'
         /\ \A t \in Tokens : token'[t] # Absent => token'[t].user # u]_vars

\* invalidate_active: "at most one emailed link is ever live per user" (and
\* purpose).
AtMostOneLive ==
    \A u \in Users, p \in TokenPurpose :
      Cardinality((Outstanding(u, p) \cap mailed) \ expired) <= 1

\* AuthToken is a "single-use, expiring token": no link is redeemed twice.
SingleUse == \A t \in Tokens : uses[t] <= 1

\* register: "Lost a race with a concurrent insert; same outcome as the
\* pre-check": whoever finds the address taken answers with a conflict.
DuplicateIsConflict == \A s \in Sessions : ~(op[s] = "register" /\ pc[s] = "error")

=============================================================================
