# TLA+ models of financial-analyser

financial-analyser is a FastAPI backend with a Next.js frontend: users link
their banks through Plaid, the backend mirrors accounts and transactions into
PostgreSQL, categorizes them, keeps receipts in object storage and offers an AI
assistant over the data. Each HTTP request is a coroutine with an SQLAlchemy
session of its own on a shared event loop, so requests interleave at every
`await`; several uvicorn processes may share one database. The database runs at
PostgreSQL's default isolation, READ COMMITTED. Nearly all that is hard to get
right comes from these two facts and from the services outside the database
(Plaid, SMTP, object storage, the language model) that no transaction covers.

## Inventory

| Component | State | Operations | Hard behaviour | What makes it correct |
|---|---|---|---|---|
| Transaction sync (`services/transaction_sync.py`) | `plaid_sync_state` (cursor, status), `raw_plaid_transactions`, `transactions` | `POST /transactions/sync`: page through Plaid's changes, upsert, delete, backfill, move the cursor, commit per item | cursor read before the fetch and used after it; overlapping requests; mutation restart while paging; a crash before the commit; a nested account sync with commits of its own | the tables are what the stored cursor stands for; raw rows are kept for audit; every request is answered |
| Account sync (`services/account_sync.py`) | `accounts`, `plaid_items.status` | `POST /accounts/sync`; also nested in transaction sync | one commit for all items, an early commit on a login failure | statuses and rows of other items are left alone |
| Plaid Link (`services/plaid_link.py`) | `plaid_items` | create link token, exchange: create, relink, retire, release a duplicate | check and insert are separate statements; account sync of the same rows in between | a connected bank stays connected; other users' rows are untouched; one active item per bank |
| Plaid gateway (`services/plaid.py`) | none | SDK calls in a thread, paging, error mapping | mutation during pagination | the pages of one window belong together |
| Authentication (`services/auth.py`) | `users`, `auth_tokens`, JWTs held by clients | register, login, request and redeem verification and reset links | links are checked by SELECT and used up by a later UPDATE; e-mails fail after the commit | a superseded link never works; addresses are verified only through a link; legacy rows stay locked out |
| Rate limiter (`core/rate_limit.py`) | deque of times per key, in memory | `check`, `_prune` | the edge of the window; the sweep at 10 000 keys | at most `limit` attempts in any window; `Retry-After` is exact; the table does not grow for ever |
| Receipts (`services/receipts.py`) | `receipts`, `receipt_images`, objects in storage | add image, upsert details, delete receipt, delete image, read | uploads outside the transaction, compensation after a failed commit, cascade from a synced deletion | no row points at missing bytes; objects are stranded only by failures; at most 10 images |
| Categorization (`services/categorization.py`, `repositories/category.py`) | `categories`, enrichment columns | `classify` (pure), `get_or_create` of two-level categories | overlapping syncs insert the same categories, in different orders | a category's parent exists; syncs do not wait for each other for ever |
| Labels, user categories (`services/labels.py`, `services/user_category.py`) | `labels`, `user_categories` and their members | create, rename, delete, assign, map | read, then write, under overlapping requests | names unique, one mapping per Plaid category; a 200 has done what it says; a 500 needs an overlap |
| Chat and agent (`ai/chat_service.py`, `ai/agent.py`, `ai/tool_registry.py`) | `conversations`, `messages`, the agent's loop | `POST /ai/chat`, `/ai/chat/stream` | tool loop bound, failing tools, one commit at the end of a run, replay under overlapping runs, disconnects | an exchange is stored whole or not at all and before it is answered; a follow-up sees what was answered |
| LLM clients (`ai/llm_client.py`, `ai/openai_client.py`) | none | one completion, streamed or not | interleaved fragments of several tool calls, SDK exceptions that are subclasses of each other | a streamed answer is the answer; calls and results match on the wire |
| Frontend assistant (`useAssistantChat.ts`, `api/assistant.ts`) | transcript, abort controller, the reader's buffer | send, retry, stop, leave the page, read a stream | chunks cut anywhere, late settling, broken connections | a bubble is busy exactly while a request is under way for it; what it shows as done is what was stored |
| Analytics, insights, search (`services/analytics.py`, `services/insights.py`, `repositories/analytics.py`, `repositories/transaction.py`) | none of their own | monthly totals, breakdown, merchants, month over month, summary, comparison, recurring, search | month and period edges, joins that double count, commits between SELECTs, paging order | agreement with reference definitions |
| Frontend session (`user.tsx`, `api/client.ts`) | token in localStorage | login, logout, 401 handling | | |
| API wiring, e-mail, storage, crypto, config, tracing, migrations, deploy | configuration | | | |

The components interact through the database and by calls: transaction sync
calls account sync inside its own session (so an early commit of one commits
the other's flushed writes); Link and account sync both write
`plaid_items.status`; a synced deletion cascades to receipts, whose objects it
leaves behind; registration issues a verification link through the same code as
a later request; the agent's tools are the read side run in the chat request's
own session; the frontend's hook sees the chat service only through its stream
of events. `PROJECT.json` lists every component with its status and every
hazard at the line where it bites.

## Modules

| Module | Models | Proofs |
|---|---|---|
| `TransactionSync` | transaction sync, Plaid paging, the nested account sync, the standalone account sync and relinking as far as they touch the same rows | `TransactionSyncProofs` |
| `Mirror` | abstract: tables that follow prefixes of a history | |
| `SyncRefinement` | the mapping under which `TransactionSync` implements `Mirror` | `TransactionSyncProofs` |
| `PlaidLink` | the life of `plaid_items`: Link and account sync | `PlaidLinkProofs` |
| `AuthTokens` | users, links and JWTs | `AuthTokensProofs` |
| `RateLimiter` | `SlidingWindowLimiter` | `RateLimiterProofs` |
| `Receipts` | receipts of one transaction and their objects | `ReceiptsProofs` |
| `ApiErrors` | exception handlers: class of an exception to HTTP status; used by `Chat`, `Names` | |
| `LLMClients` | the two provider adapters, as operators; used by `Chat` | |
| `Chat` | chat service and agent | `ChatProofs` |
| `Names` | labels, user categories, and the categories syncs create | `NamesProofs` |
| `Analytics`, `Insights` | aggregates and what the services make of them, as operators | |
| `Reports` | the requests of the read side, SELECT by SELECT | |
| `Assistant` | the frontend's assistant page | `AssistantProofs` |

`MC<Module>` holds the symmetry sets and the functions a `.cfg` cannot write.
Definitions named as mutants in a comment are wrong variants of an action or a
helper; no specification uses them. Each property of a passing run is violated
when the variant named in `PROJECT.json` takes the place of the original.

### Conventions

A request is a session `s`: `pc[s]` is where it is suspended, other functions of
`s` are its local variables. A step runs from one `await` that can let others in
to the next. What a session has flushed is invisible to others until its commit,
so it is kept with the session and applied to the tables by the committing step;
what remains visible of it is its locks, which other sessions' UPDATEs wait for.
Closing a session rolls back: a failed or crashed request drops its locals and
its locks. SQLAlchemy writes only attributes that differ from what the session
loaded; where that matters (`Net` in `TransactionSync`, `WriteStatus` in
`PlaidLink`) the models do the same. History variables are marked in their
declarations and no guard reads them.

### TransactionSync

`log[i]` is Plaid's append-only history of item `i`; a cursor is a position in
it and `PlaidChange` extends it while requests are under way. `cursor`, `syncStatus`,
`raw`, `tx`, `accounts`, `itemStatus` are the tables. `SyncTransactions` begins a
request, `LoadState`/`CreateState` is `get_or_create` with its savepoint-free
insert, `FetchPage`, `RestartFetch`, `FetchFails` are `PlaidService`'s loop,
`FlushSyncing` takes the lock of the sync-state row, `SyncItemAccounts` and its
two failures are the nested account sync, `ReadAccounts`, `ReadRaws` and `ReadTxs`
the three SELECTs of `_apply_changes`, each a step of its own, `CommitWindow` all writes of the window with the commit,
`CommitConflict` the unique violation of two sessions inserting one id, `Crash`
the death of the process. `stale[i]` (history) records that some commit of item
`i` replaced a cursor other than the one its request had read, and `unlocked[i]`
that a commit from then on was by a request that had found `'syncing'`. Such a
request has no change to flush and so holds no row lock: an account sync and
another sync can commit between any two of its statements. `LegacyInit` starts from rows written before categorization existed, which the backfill heals.

- `MirrorWhenSerial`: as long as no commit of an item was stale, raw and
  transaction rows are exactly what the history up to the cursor amounts to.
- `RowsBacked`: every transaction row has an account row and a raw row, processed
  unless `unlocked`, and with its payload unless a commit was stale.
- `AuditTrailKept`: raw rows are never deleted, and unless `unlocked` a processed
  one is never marked skipped again: whoever holds the row lock from its account
  query to its commit still knows every account that another request knew.
- `HealedByCommit`: a commit leaves no unenriched row of its item.
- `RequestEnds`: every request is answered (fair scheduling).

`Mirror` says what all this amounts to without sessions, pages, locks or
failures: a history per item, a prefix of it, an audit trail and the shown
transactions; a step lets a history grow or moves one item to a later prefix
with the rows that belong to it. `SyncRefinement` maps `log`, `cursor` and the
payloads of `raw` and `tx` to these, and `ImplementsMirror` is the abstract
specification as a property. It holds for requests one after the other (run
`sync`); overlapping requests can move a cursor back, which is the finding of
`sync_lost`.

### PlaidLink

`minted` is what exists at Plaid, `row` is `plaid_items`. An exchange goes
through `ExchangePublicToken`, `ValidateToken`, `LookupItem`, then `RelinkItem`
or `CheckDuplicate`, `ReleaseDuplicate` or `CreateItem`; account sync is
`SyncAccounts`, `SyncItem` per item, `LoginRequired` or `CommitAccounts`.

- `BankStaysConnected`: no step of a request takes a user's last live
  connection to a bank away.
- `ForeignRowsUntouched`: a request changes rows of its own user only.

### AuthTokens

`user`, `token` are tables; `UserLocks`, `TokenLocks` derive from a session's
program counter the rows it has written and not committed. `superseded`
(history) holds the links that an issue or a reset had to kill.

- `SupersededDead`: once a request that issues a link, or a reset, has committed,
  every link of that user and purpose that existed when it arrived is used up.
- `VerifiedByLink`: a verified address has a link that reached the mailbox and
  was used up (with `TypeOK`).
- `LegacyLockedOut`: a row without a password never gets a JWT, a link or a
  password.
- `AtMostOneLive`, `SingleUse`: one live link per purpose, redeemed once; the
  code does not keep these for overlapping requests (see below).

### RateLimiter

Time is integral and `check` is atomic, since it does not await. `granted`
keeps all attempts ever allowed, `promise` the time a refused client was told.

- `NeverMoreThanLimit`: no window contains more than `Limit` allowed attempts,
  whatever popping and sweeping forgot.
- `RetryAfterExact`: a refused client that comes back at the promised time is
  let in, and not before.
- `SweptWhenFull`: after a check with more than `MaxKeys` keys, no key without a
  live attempt is left.

### Receipts

`image[k]` is the receipt of the `receipt_images` row with storage key `k`,
`objects` what is in storage. `AddImage`, `CreateReceipt`, `PutObject`,
`Commit`, `Undo` are an upload with its compensation; `LoadForDelete`,
`DeleteRows`, `SweepObject` a deletion; `TransactionRemoved` is a sync that
deletes the transaction. `excused` (history) holds the keys that a failure, a
crash or the cascade may have stranded.

- `NoDanglingRow`: an image row's object exists, unless the row's commit took
  place and raised (with `TypeOK`).
- `NoStrayObject`: an object without a row is in the hands of a request or an
  excused one.
- `ImagesBounded`: the attachment limit is exceeded by at most the number of
  other requests; `AtMostMaxImages` and `NoDanglingRowEver` are the stronger
  statements the code does not keep (see below).

### Chat, LLMClients, ApiErrors

Run `r` of `Chat` is the r-th request to open its transaction; `created_at` is
the transaction's time, so `r` orders the rows of different runs, and `rank[r]`
is the random order of the ids within a run. `Authenticate` is the dependency
that resolves the user, `Prepare` creates or loads the conversation and replays
the history, `ModelAnswers`, `ModelFails`, `ExecuteTool` and `GiveUp` are the
agent's loop, `Persist` the commit with the answer or `done` event after it;
`PersistUnheard`, `PersistFails` and `Disconnect` are the ways to fail around
it. After a tool has failed in the database, `aborted[r]` says that the
transaction takes no more statements, so nothing can be stored.

`LLMClients` has what both adapters send (`ToParams`, `ToWireMessages`), what
they make of an answer (`AnthropicResponse`, `OpenAIResponse`, `Accumulated` for
the chunks of a stream) and how SDK exceptions are translated. A string is the
sequence of its pieces. The providers are external: of a call comes first a
fragment with its id and name, then one for each piece of its arguments
(`CallFragments`), and `Streams` is every way the text and the fragments of
several calls can be interleaved. `ApiErrors` gives the
status of an exception from its class and base classes.

- `ExchangeAtomic`: an exchange is stored whole or not at all, in its user's own
  conversation, before a 200 and never with an error answer (but for a commit
  whose acknowledgement was lost); it ends in a final turn of the model.
- `FollowUpSeesAnswered`: a request replays what was answered before it, the
  newest when there are too many, exchanges not mixed up and none of another user.
- `WireWellFormed`: on either wire, tool calls come in rounds, each at once followed
  by its results, one for one and in order (with `TypeOK`).
- `StreamEqualsWhole`: an answer put together from fragments is the answer.
- `FailureStatus`: rate limits, timeouts and other provider errors have the
  documented status.
- `RunEnds`: every request ends (fair scheduling).

### Names

Labels with the transactions that carry them, and user categories with the
Plaid categories they roll up, are the same operations over a table of names and
a table of members; `table` says which. A request is a step that reads and, if
it goes on, a step that flushes and commits; SQLAlchemy's unit of work decides
from what was read (`saw`) whether there is an UPDATE at all. A transaction sync
is `SyncStarts`, `Lookup` and `InsertCategory` per path of its window (`Wanted`: the
primary category first if it is missing, then the detailed one), `SyncCommits`;
`InsertCategory` waits for an uncommitted row of the same name and parent (the
table's constraint is NULLS NOT DISTINCT, so top-level names count too).

- `TablesSound`: names unique, one mapping per category, members and parents
  exist (with `TypeOK`).
- `ErrorOnlyWhenOverlapped`: a request that runs alone never ends in a 500.
- `AnswerTrue`: a 200 has done what was asked.
- `SyncEnds`: syncs that insert in opposite orders end (fair scheduling).

### Analytics, Insights, Reports

Amounts are in cents, dates are `<<year, month, day>>` with their ordinals,
rounding is half to even. `Reports` runs every request as a sequence of SELECTs
over the committed rows, with `SyncCommits` and `MappingCommits` between them;
`torn` (history) records that one came. The operators translate the code, the
properties compare them with definitions of another shape over the same rows.

- `AggregatesConserve`: breakdown, months and shares add up to what was spent
  (with `TypeOK`).
- `SummaryAddsUp`: also with commits in between the bounds span a day; without,
  the top category is one of the period and account asked for.
- `CompareAddsUp`: the default periods partition the time from the first of the
  previous month to today, and the changes per category add up.
- `MonthsCovered`: consecutive months up to this one, empty ones included.
- `PagesPartition`: a client that walks the pages sees every row once.
- `RecurringRight`: what is reported is regular in its gaps and amounts and due
  within its cadence, and every monthly subscription is found.

### Assistant

The reducer's actions are operators of the same names on `chat`; the hook's
`Send`, `Retry`, `Stop` and `Unmount` and the reader's `Read`, `Closes`,
`Breaks`, `FetchFails` are actions. A frame is three pieces (its lines and two
line ends) and a chunk any number of pieces, so that every cut happens. The
server is what `Chat` promises: events, then stored, then `done`; or `error`.
`sent[r]` is the text and the tool cards the server has sent so far, and
`handleEach` hands the events of a chunk to the reducer one by one.

- `StreamingHasRequest`: a bubble is busy exactly while one request is under way
  for it (with `TypeOK`).
- `ShownIsStored`: a bubble shown as done holds the final text of a stored run of
  the current conversation, or the prefix of a run the user stopped.
- `CaughtUp`: once a stream is read, its bubble shows exactly the tokens and tool
  cards sent.
- `BubbleSettles`: every request under way is in the end settled (fair
  scheduling).

Every one of these excepts states in which a retry has begun while an older
stream of its bubble is open (`overtaken`); this does happen, see
`NeverOvertaken` below. `TypeOK` is stated without the exception but for the
number of tool cards.

## Runs

| Run | Checks | Instance |
|---|---|---|
| `sync` | `ImplementsMirror`, one request at a time | 2 items, 2 accounts (one not synced), 2 transactions, 2 payloads, 2 changes per item, pages of 1 |
| `sync_overlap` | the safety properties with two overlapping requests, accounts opened and synced at any moment | 1 item with 2 accounts, a transaction of each, 2 payloads, 2 changes, pages of 2 |
| `sync_live` | `RequestEnds` under `QuietFairSpec` | 2 requests, 2 changes, pages of 1 |
| `sync_lost` | `NothingLost` is violated | 2 requests, 2 changes, pages of 2 |
| `link` | `BankStaysConnected`, `ForeignRowsUntouched` | 3 items (two of one bank, one without an institution id), 2 users, 2 requests |
| `auth` | `SupersededDead`, `VerifiedByLink`, `LegacyLockedOut` | 1 address, 3 links, 2 requests |
| `limiter` | the limiter's properties | 3 keys, limit 2, window 2, sweep above 1 key, 5 instants |
| `receipts` | `NoDanglingRow`, `NoStrayObject`, `ImagesBounded` | 4 keys, limit 2, 2 receipt rows, 2 requests, failures, lost acknowledgements, crashes, a removed transaction |
| `chat` | the properties of `Chat` | 4 requests in three stages, 2 users, both providers, 2 rounds, 5 replayed messages, an answer with two calls (arguments of three pieces and of one), a plain one and an empty one |
| `names` | the properties of `Names` | 2 requests, 2 rows, names with and without blanks and a blank one, 3 categories |
| `reports` | the properties of `Reports` | a ledger of 6 rows around a leap day and the turn of the year, 2 commits, 36 requests; some 1500 series of charges |
| `assistant` | the properties of `Assistant` | 2 exchanges, 3 requests, 3 events per run, 2 frames in flight |

Bounds. Two changes let a transaction be added and modified or removed, or two
be interleaved, and a page size of 1 puts every one of these on a page boundary
(`sync`, `sync_live`; pages of 2 in the other two put both into one window).
A window is applied per transaction, so a second transaction matters only
through its account and its item: `sync` gives it another item, `sync_overlap`
another account of the same item, so that an account row can appear while the
other transaction is under way and a row can be skipped by a request that read the
accounts before it. In `sync_overlap` the two accounts with their transactions can
be exchanged, as the payloads and the sessions can (`OverlapSymmetry`); in `sync`
only the payloads can. `RelinkSpec` (`sync`) changes an item's status only between
requests, and `OverlapSpec` not at all but by an account sync: no table of the
properties depends on it. Longer windows
(added, modified and removed in one) are covered by the proof of `MirrorCorrect`. Two overlapping requests reach every
race of a pair of database sessions; the lost update needs a third request,
which is a session used again. Three links are the two of a race and their
successor. In `chat`, two rounds are one that calls tools and the last allowed
one. `StagedSpec` cuts the behaviours of `Spec` down to the ones in which a history
can get mixed up: run 1 opens the conversation and is stored, runs 2 and 3 overlap,
both in it or one of them by the other user, who opens a conversation of his own or
asks for this one, and run 4 returns to it when both have ended, replays what they
left and then meets a rate limit. Everything a request can do happens in runs 2
and 3. `HistoryLimit` is 5 of the 6 to 8 messages of three exchanges, so the oldest
are cut off and a replay may begin in the middle of an exchange. In `names`,
two categories inserted in opposite orders are the smallest deadlock. The gaps of
`reports` lie inside, at and just outside the cadence bands and the tolerance, the
amounts at and just above 20%. In `assistant`, a retry and a second exchange are
three requests, and two frames in flight put a cut in every place of one frame
with another before or after it. A window of 2 ticks with a limit of 2 has every order of expiry,
refusal and sweep; the proofs remove these bounds for the limiter and for the
mirror.

`receipts`, `chat` and `assistant` do not check for deadlock: once the
transaction is removed, or the bounded number of requests has been made and
answered, nothing is left to do.

`assistant` explores states up to the first in which `NeverOvertaken` is false
(a CONSTRAINT of its configuration). The properties promise nothing beyond such a
state until the page is left. With `MaxEvents = 2` the same properties hold
without the constraint too, over twice the states.

Fairness. `Fairness` asks for strong fairness of each session's own steps. The
event loop resumes every coroutine whose result is ready; a session that waits
for a row lock is enabled whenever the lock is free, and PostgreSQL grants locks
in the order of the queue, so a waiting session is not passed over for ever. A
call to Plaid ends, with an answer or an error. Crashes and changes at Plaid are
not promised to happen. `QuietFairSpec` in `MCTransactionSync` leaves the
standalone account sync, relinking and newly opened accounts out of the liveness
run: they write rows that decide neither when a request waits nor when it ends,
and without them histories with a page boundary fit. `Chat` asks for weak
fairness of each request's own steps: the event loop schedules it, provider calls
end in an answer, an error or the client's timeout, statements end; disconnects
are not promised. In `StagedSpec` the fair steps are those left to a run in its
stage (`Served`), so `RunEnds` says something of runs 2 and 3. `Names` asks for weak fairness of each sync's steps and strong
fairness of its INSERT, which PostgreSQL wakes when the transaction it waits for
ends; the deadlock detector is one of the sync's steps. `Assistant` asks for weak
fairness of what happens to a request under way: the server ends every run
(`RunEnds` of `Chat`), what it sends arrives or the connection breaks, and the
browser hands it over. A mutation that is paused offline is not promised to
resume.

### Disagreements with the documentation

The run `sync_lost` expects TLC to find a counterexample to what a comment of the
repository says; `findings` in `PROJECT.json` quotes the lines: overlapping
syncs move the cursor back, and a third request moves it past a change that is
in no table (`NothingLost`).

Open disagreements without a run of their own. The modules state these, and
adding the property to the named configuration shows the counterexample.

| Property | Add to | What happens |
|---|---|---|
| `SkippedOnlyUnsynced` | `MCSyncOverlap.cfg` | a transaction of a depository account opened after the first account sync is skipped for good |
| `FailureMarksError` | `MCSync.cfg` | a login failure in the nested account sync leaves the state at `syncing` |
| `FreshLinkRejected` | `MCPlaidLink.cfg` | overlapping exchanges both pass the duplicate check |
| `RetiredStaysRetired` | `MCPlaidLink.cfg` | an account sync reactivates a retired item |
| `DuplicateIsConflict` | `MCAuth.cfg` | the loser of a registration race gets a 500, since the INSERT is flushed before the handler |
| `AtMostOneLive` | `MCAuth.cfg` | overlapping requests leave two live links |
| `SingleUse` | `MCAuth.cfg` | a link submitted twice at once is redeemed twice |
| `NoDanglingRowEver` | `MCReceipts.cfg` | a commit that takes place and raises is compensated by deleting the object of the committed row |
| `AtMostMaxImages` | `MCReceipts.cfg` | overlapping uploads exceed the limit |
| `QuestionBeforeAnswer` | `MCChat.cfg` | the rows of a run share `created_at` and are ordered by a random id, so the answer may be replayed before its question |
| `AnswersItsQuestion` | `MCAssistant.cfg` | retry takes the last text, also for the bubble of an earlier exchange that failed |
| `NeverOvertaken` | `MCAssistant.cfg`, without its constraint | the `error` event enables Retry before its stream has closed; the old stream's `settled` then marks the retried bubble as stopped, and a further retry lets two streams write one bubble |

Smaller ones, visible in the definitions:

- a sync that found `'syncing'` (what a login failure in the nested account sync
  leaves behind) holds no lock: it reads the accounts, an account is opened and
  synced and another request commits its transaction, and then it reads that raw row
  and marks it skipped, although the transaction row stays. Without `unlocked` in
  `RowsBacked` or `AuditTrailKept`, `MCSyncOverlap.cfg` shows it;
- an authentication error of the provider is answered 502 (`Status`), while
  `README.md:545` says "auth/config 503"; `FailureStatus` leaves it out;
- creating a label or category in a race is a 500 (`CreateWrite`), although the
  handler after it means to answer 409;
- a name of nothing but blanks passes validation and is stored empty (`Strip`);
- an answer without text is shown with a fallback text that is neither stored nor
  replayed, and a question of nothing but blanks is left out of the wire
  (`Replayed`, `Sent`);
- `compare_spending` is keyed by name: of two categories with one name, one
  disappears (`ByName`; `CompareAddsUp` asks for distinct names);
- with a commit between two pages, offset paging repeats or skips rows, and with
  one between the SELECTs of a summary its top category may exceed the spending;
- a public token whose account fetch fails leaves an item at Plaid that no row
  knows (`ValidateToken`).

## Proofs

Each theorem is of the form `Spec => []Invariant` or `Spec => [][Action]_vars`,
for every value of the constants that satisfies the assumption named in the
module; sets of users, items, transactions, texts and requests may be of any
size, unless said otherwise. The last column names the inductive invariant and
what it adds to the properties, without which they would not be inductive.

| Module | Theorems | Invariant |
|---|---|---|
| `TransactionSyncProofs` | `TypeCorrect` (`TypeOK`), `MirrorCorrect` (`MirrorWhenSerial`); `RowsBackedAlways`, `TrailKept`, `CommitHeals`; `SyncImplementsMirror` | `IInv`: `LogWellFormed`, `CursorsInLog`, `WindowOK`, `ViewOK`; `RowsInv`: `UnlockedStale`, `ProcessedHeld`, `LockHeld`, `LoadedAccounts`, `LoadedRaws`; `MirrorInv`: `FreshCursors`, `WindowAtCursor`, `NeverStale`, `AllFaithful` |
| `PlaidLinkProofs` | `LinkTypeCorrect`, `BanksStayConnected`, `ForeignRowsSafe`; `FreshLinkRejectedSerially` | `LinkInv`: `SyncsOwn`, `RelinksOwn`, `RetiresSameBank`; `ChecksHold` |
| `AuthTokensProofs` | `OldLinksDead`, `VerifiedNeedsLink`, `LegacyRowsLocked`; `SerialPerUser` | `AuthInv`: `OnlyWithPassword`, `OneInsert`, `Local`; `SerialInv` |
| `RateLimiterProofs` | `LimiterTypeCorrect`, `LimitHolds`, `RetryAfterHolds`, `SweepBoundsKeys` | `IInv`: `Recent`; `RInv`: `Ordered`, `Promised` |
| `ReceiptsProofs` | `RowsPointAtBytes`, `ObjectsAccountedFor`, `ImagesStayBounded`; `LimitHoldsSerially` | `ObjInv`: `UploadOwned`, `DeletableUnrowed`, `FreshAlone`, `Local`; `CountInv` |
| `NamesProofs` | `TablesStaySound`, `AloneNoError`, `AnswersAreTrue` | `NamesInv`: `Asks`, `Syncs`, `Alone` |
| `ChatProofs` | `ExchangesStayWhole`, `FailuresKeepStatus`, `FollowUpsSeeAnswers`; `WireStaysWellFormed` (with `TypeOK`), `StreamsAreWhole` | `ChatInv`: `UnderWay`, `Ended`, `Complete`, `NoneEmpty`; `RankInv`; `WireInv`: `AtHand`, `Faithful` |
| `AssistantProofs` | `Invariance`, `BubbleHasRequest`, `ShownTextIsStored`, `ChunkingIsInvisible` | `IInv`: `TypeInv`, `RunInv`, `StreamInv`, `SerialInv` |

**Transaction sync.** `MirrorWhenSerial` is not inductive. `IInv` adds

- `LogWellFormed`: Plaid adds an id once and first, removes it at most once and
  last, and an item's log holds only the item's ids. Without it, "upserts, then
  deletes" would not equal the history in order.
- `CursorsInLog` and `WindowOK`: cursors and fetched windows lie in the log, and
  a session's window does not begin after the stored cursor unless a commit was
  stale. This makes the new prefix the old one followed by the window.
- `ViewOK`: what a session read after taking the lock is still true while it
  holds the stored cursor, so that an attribute SQLAlchemy does not write is the
  one in the table.

The argument for `CommitWindow` is per transaction: not mentioned in the window
(nothing changes, and the last entry up to the new cursor is the old one),
upserted last, or removed.

`RowsBacked` is about overlapping requests too, so it cannot use that a commit
was not stale. It needs that a processed raw row is of an account we hold
(`ProcessedHeld`), and that a request does not write less than that although it
reads accounts, raw rows and transaction rows one after the other. A request that
did not find `'syncing'` holds the row lock from before its first read to its commit
(`LockHeld`); one that found it is as good as alone while nobody moved the cursor it
read (`Alone`). In both cases the accounts it has loaded include those of every
processed raw row of the item (`LoadedAccounts`), and a raw row it has loaded as
processed still is (`LoadedRaws`). The remaining case is a commit of a lock-free
request over another's cursor, which is what `unlocked` records (`UnlockedStale`: it
is only set where a commit was stale) and the two properties except. The same
invariant gives `AuditTrailKept` and `HealedByCommit`.

`SyncImplementsMirror` has one hypothesis besides `Spec`: `[]OneAtATime`, at most
one request under way. This is the condition of the run `sync`, and the property
is false without it (`sync_lost`). Under it no commit is stale, the window of a
request begins at the stored cursor (`WindowAtCursor`), and a commit is then a
`Follow` step of `Mirror` to the end of the window. `FreshCursors` gives the first
sync of an item its whole history. Every other step lets a history grow or
stutters.

**Plaid Link.** What a request has read before an `await` still holds when it
writes: the items a sync works on and the item an exchange relinks are its own
user's (`SyncsOwn`, `RelinksOwn`), and the row it retires has the bank of the one
it connects (`RetiresSameBank`). From this, the row that takes over is live in
the very step in which the old one is given up.

**Authentication.** `OnlyWithPassword`: whoever writes a user row or a link has
found a password on it. `OneInsert`: two uncommitted registrations do not hold
the same address. `Local` is what each request may rely on at its place: the user
it knows exists, the link it redeems is of that user, and the links it set out to
invalidate are used up or still in its hands.

**Rate limiter.** `Recent`: a key's deque is a suffix of all its allowed attempts,
and the attempts before the suffix are at least one window old. An allowed
attempt meets fewer than `Limit` live ones, so the attempt `Limit` places before
it lies a window back. `Promised`, for
`RetryAfterExact`: what a client was told is the end of the window of the attempt
`Limit` places from the end of all that were ever allowed (`Oldest`), which does not
change while the client is refused, through other checks, refusals and sweeps.

**Receipts.** What matters is whose hands an object is in: an upload's object has
no row and is in nobody else's hands until the commit (`UploadOwned`), and what is
about to be deleted from storage has no row that anybody was told of
(`DeletableUnrowed`). `CountInv` bounds the rows plus the uploads that may still
add one; it counts requests, so their set is finite (`ReceiptsAssumption`).

**Names.** `Asks` and `Syncs` are what requests and syncs hold: a request that
passed its validation, parents that are committed or the sync's own.
`ErrorOnlyWhenOverlapped` follows from `Alone`: as long as a request has been alone,
what it read still holds, and then no constraint can refuse its write.

**Chat.** A run has no row until it ends, and one that has ended does not change
again: `UnderWay` and `Ended`. That a stored exchange is in a conversation of its own
user needs one thing more: a conversation gets its owner by the commit of the
run that created it, and every other commit into it is by a run that found the
owner to be its own user. `NoneEmpty` follows because that first commit carries
the exchange. `RankInv`: the order drawn when an exchange is stored has every
message of it that is replayed, since an injection of as many places as there
are messages misses none. From this `FollowUpsSeeAnswers` follows run by run:
`Listed` says what the list of a conversation's messages is after the first n
runs, by induction up to the last (`UpTo`, by way of a least counterexample, once
the recursive function behind `ListMessages` is shown to exist), and the history
is the end of that list. `FailuresKeepStatus` goes through the classes of the SDK's
exceptions and the handlers' method resolution order.

`WireStaysWellFormed` rests on what a run has at hand at each point of its loop
(`AtHand`). While tools run it is a list whose calls are all answered, the turn of the
model, whose calls are those already executed and the ones still open in this
order (`Pending`, `Split`), and the results so far. When the last call is done the
turn and its results are one round, and a list that is `Good` stays so when it is
extended by a round or by turns of text alone, such as a replayed history. That a
message is filtered and split by itself makes the wire of two lists joined the wire
of the one followed by that of the other (`AnthropicConcat`, `OpenAIConcat`). The
same invariant counts the rounds (`Ready`, `Spoken`), hence the bounds in `TypeOK`.
`StreamsAreWhole` follows the accumulator through any interleaving (`StreamIsWhole`):
after m chunks it holds the text pieces and, for every call, the name and the first
pieces of the arguments (`First`) that are among these m chunks, each appended to
those before it. `ChatAssumption` has it that an answer's texts and calls are
lists, of any length.

**Assistant.** Everything rests on what is under way between the server and the
reducer, buffer and network together: `Framed` says that it is whole frames,
wherever the chunks were cut, so that what `drainFrames` leaves is less than one
frame; `Concludes` that only the last frame is `done` or `error`, and that `done`
carries what was stored. `Leads` then names the answers the bubble will show, one
after each event: the first is what it shows now, the last is what the server
has sent, and each is the one before it extended by an event the server may
send there. A chunk moves the reader along this sequence (`handleEach`, event by
event), the server lengthens it at the end, and when nothing is under way its
first and its last element are one, which is `CaughtUp`. `SerialInv` is
what binds bubbles to runs: no two open runs write to one bubble and a bubble is
streaming exactly while its run has not concluded (`OneRunEach`), a run that goes
on is of the page's conversation (`SameConversation`), and a bubble that is done
holds what was stored or stopped (`DoneIsStored`). Like the properties it
is promised only while no run has been overtaken; `Framed` and `Concludes` hold
always.

**One after the other.** Some properties fail when requests overlap (see above).
Three theorems say that overlap is the only reason, under a hypothesis that the
code does not enforce: `[]OnePerUser`, requests of one user one after the other
and those of different users as they come, for `SerialPerUser` (`AtMostOneLive`,
`SingleUse` and `DuplicateIsConflict`) and `FreshLinkRejectedSerially`
(`FreshLinkRejected`); `[]AtMostUploading(1)`, uploads of a receipt one after the
other, with any deletions, failures and crashes beside them, for
`LimitHoldsSerially` (`AtMostMaxImages`). Their invariants say that what a request
has read is still so when it writes. There is no such theorem for
`RetiredStaysRetired`: it is false for requests one after the other too.

Model-checked only:

- The liveness properties (`RequestEnds`, `RunEnds`, `SyncEnds`,
  `BubbleSettles`): TLAPS proves neither fairness nor ENABLED.
- The properties of `Reports`: sums and sorted lists over a ledger, by folds and
  by the sorting of the standard modules, which the prover cannot expand.

## Not modelled

- The frontend's session and its other pages: a token that is written and read
  whole, and rendering over cached reads. The case that matters to a page with
  state, a 401 that clears the session while a stream is open, is `Unmount`.
- Migrations, configuration, tracing, deployment and scripts change no state while
  the program runs; the constraints the migrations create are in the modules.
- SMTP, HTTP, the storage backends, the SDKs and PostgreSQL are external: what
  they may do is a choice in the actions that use them.
- Hashing, JWT encoding, upload validation, prompts and texts.

Abstractions inside the modelled parts: the payload of a synced transaction is an
opaque value; in `Reports` the currency and the order of equal entries of a list
are left out, a merchant filter is the set of names it matches; in `Receipts` the
details of a receipt are left out; in `Chat` what a tool returns is only whether it
failed.

## Plan

Done: the modules above with their runs; the proofs above.

Open:

`PagesPartition` of `Reports` is the next theorem to prove: the order of a
search is unique, since ids break its ties, and every page continues the one
before it.

No module uses a RECURSIVE operator, so all are open to proofs.
