# ChatSDK: TLA+ models, checks and proofs

ChatSDK is a multi-tenant chat service: an API (`packages/api`, Hono routes over Postgres, Centrifugo for realtime
delivery, Meilisearch for search) and a client SDK (`packages/core`) that React, Next.js and native packages wrap.
This directory models the parts in which several actors meet: API processes that share tables, requests that overtake
each other, client calls that interleave at every `await`, pages that are reloaded, answers that come late.

1. [The system](#the-system)
2. [The modules and the code](#the-modules-and-the-code)
3. [The runs](#the-runs)
4. [The proofs](#the-proofs)
5. [Where the code differs from its texts](#where-the-code-differs-from-its-texts)
6. [What is not modelled](#what-is-not-modelled)
7. [Plan](#plan)

## The system

| part | state | operations | hard because | what makes it correct |
|---|---|---|---|---|
| Realtime outbox (`services/realtime-outbox.ts`, `realtime-events.ts`) | table `event_outbox`; `drainInFlight`, `drainRerunRequested` of each process | commit an event, trigger, claim, publish, mark, prune | processes share rows by `FOR UPDATE SKIP LOCKED` and a lock timeout; crashes and failed queries anywhere | at least one delivery, bounded copies, no lost trigger, no event forgotten undelivered |
| Message routes (`routes/messages.ts`) | `message`, `channel.current_seq` | post, list, edit, delete, react, pin | retried posts; numbers, commits and reads are separate statements | a message once; the list has no holes |
| Message sync (`core/sync/MessageSyncer.ts`, `core/storage/IndexedDBStorage.ts`) | message store, `maxSeq`, `SyncState`, the `syncing` set | `syncChannel`, `handleNewMessage`, `resetSync` | calls overlap at every storage transaction and page; replies and purged messages leave gaps that never fill | the high-water mark covers only what is stored; a backfill ends, complete |
| Token manager (`core/auth/token-manager.ts`) | tokens, refresh promise, timer | set, clear, refresh, get, destroy | answers that come after a logout or another login | one request at a time; no timer without tokens; nobody waits for ever |
| Token sessions (`services/tokens.ts`) | `auth_session`, `revoked_token`, `tokens_valid_after` | issue, validate, rotate, revoke | a validation is three transactions, a refresh more; the same token comes twice | a refresh token is exchanged once; a revocation holds |
| Client session (`core/client/ChatClient.ts`, `core/ChatSDK.ts`) | `latestRefreshToken`, token, `tokenExpiresAt` | connect, fetch with refresh before and after | concurrent fetches, lost answers, two clocks | the client has the session's current token; a fetch ends, and is turned away only for a cause |
| Offline queue (`core/offline/OfflineQueue.ts`, `core/lib/retry.ts`) | local messages, pending entries, `sending` set | send, retry, cancel, `processPending` | reloads between two stores; requests the client gave up on; a check that sees ten messages | stored once; `sent` means stored; every message gets an outcome |
| Search index outbox (`services/search.ts`) | table `search_index_outbox`, the Meilisearch index | enqueue with each mutation, direct call, claim, read, write, complete, fail | the request's own call races the workers, and an edit the row that is being processed | a mutation is lost to no crash, failed call or expired lock; a row has one holder; the outbox drains |
| Channels and read state (`routes/channels.ts`, `routes/receipts.ts`, `docker/migrations`) | `channel_seq`, `channel_member` (`last_read_seq`, `unread_count`), `channel.member_count` | create, post, reply, auto-join, add, remove, mark all read, receipt | statements of several transactions interleave between their row locks; numbers read before the transaction that uses them | dense numbers; a count of unread messages that is right or wrong for a known reason; deadlocks of two known kinds only |
| Webhooks (`services/webhook-delivery.ts`) | `failure_count`, deliveries in memory | deliver, retry, disable | fire and forget | a hook is disabled after consecutive failures |
| Circuit breaker, deduplicator (`core/lib`) | failures, state, recent keys | execute | late results of earlier requests | opens, probes and closes as configured |
| Connection, network quality, event bus (`core/realtime`, `core/network`, `core/callbacks`) | connection state, samples, queued events | connect, disconnect, emit | callbacks of a library | states follow events |
| Data lifecycle, backup drills (`services/data-lifecycle.ts`, `backup-restore.ts`) | policies, jobs | retain, purge, export | long jobs | what is purged stays purged |
| Authorization, broker, rate limits, uploads, moderation, polls, enrollment, workspaces | rows | mostly one statement or one transaction each | SQL policies | isolation of tenants |

How they interact. A message goes from `OfflineQueue.send` through `ChatClient.fetch` (which refreshes the token through
the provider of `ChatSDK.connect`) and `CircuitBreaker`/`RequestDeduplicator`/`retryAsync` to `POST messages`. That
handler stores the message, numbers it, and inserts an outbox row in the same transaction. The outbox drain hands
the row to Centrifugo, which publishes it to subscribers. A client that missed publications gets the messages back
through `MessageSyncer`, which pages through `GET messages?since_seq=`. Every request passes the validation of
`tokens.ts`. The transaction of a post also writes a row of `search_index_outbox`, which the workers bring to Meilisearch, and adds one to
`unread_count` of the other members, under row locks that the routes for members and read marks take as well. PROJECT.json lists every component with its status and every hazard with the line where it bites and the
properties that watch it.

## The modules and the code

| module | models | extends |
|---|---|---|
| `AtLeastOnceDelivery` | what the outbox promises: owed, copied at most so often, forgotten only when delivered | |
| `TokenRotation` | what rotation promises: the refresh tokens of a session are a chain, each exchanged at most once | |
| `OutgoingMessages` | what the offline queue promises: asked, accepted, delivered once, dropped only when delivered or withdrawn | |
| `AtomicChannel` | a channel whose operations take effect at one moment each | |
| `RealtimeOutbox` | `realtime-outbox.ts` | instance of `AtLeastOnceDelivery` |
| `MessageSyncer` | `MessageSyncer.ts` over `IndexedDBStorage.ts` and the query of `routes/messages.ts` | |
| `TokenManager` | `token-manager.ts` | |
| `AuthSession` | `services/tokens.ts` | instance of `TokenRotation` |
| `ChatSession` | `ChatClient.fetch` and the provider of `ChatSDK.connect`, composed with the server | `AuthSession` |
| `OfflineQueue` | `OfflineQueue.ts`, `retry.ts`, and the handler that stores a message | instance of `OutgoingMessages` |
| `SearchIndexOutbox` | the outbox and the worker of `services/search.ts`, with what the routes and `data-lifecycle.ts` do to it | |
| `ChannelTransactions` | the transactions of `messages.ts`, `threads.ts`, `channels.ts` and `receipts.ts` on one channel, with the trigger (`V001`) and the function (`V007`) of `docker/migrations` they run | instance of `AtomicChannel` |
| `MC*` | TLC instances: which members are interchangeable | the module named |
| `*Proofs` | TLAPS proofs (`ChatSessionProofs` builds on `AuthSessionProofs`) | the module named |

In all of them a step is what the code does without letting others in: one database transaction (a query outside a
transaction is one), one IndexedDB transaction, or the synchronous code between two awaits.

**RealtimeOutbox.** `status`, `attempts` and `due`/`stale` are the columns of a row; the last two stand for the two
comparisons with `NOW()` that the code makes. `pc`, `held`, `cur` are the local state of `drainRealtimeOutbox` in a
process. `Trigger` is `triggerRealtimeOutboxDrain`; `Claim` is the statement with `SKIP LOCKED`, which takes the
oldest claimable rows, at most `Limit`; `Publish`, `MarkPublished`, `MarkFailed` and `Prune` are the rest of the loop;
`ClaimFails`, `MarkPublishedFails`, `MarkFailedFails` are a query that throws at that place; `Crash` is a process that
dies and restarts, in which case its rows stay `processing` until the lock goes stale. `Toggle` is Centrifugo's
availability; `Poison` holds the rows it rejects every time.

**MessageSyncer.** `log[s]` tells whether message number s is returned by the query (a top-level message) or not (a reply, or
purged). A task is a call of `syncChannel`, `handleNewMessage` or `resetSync`; `ReadServerMax` and `ReadRows` are
two steps because the handler reads `channel_seq` before the rows. `IsPage` says which rows the query returns and `Lists` in which order: after `since_seq`,
the next ones by number; or, because `ChatClient.queryMessages` drops a `since_seq` of 0, the latest ones by `created_at`. Commits are ordered by number, since
`next_channel_seq` updates the channel's row inside the sender's transaction; `created_at` (the constant `CreatedAt`) is the moment that transaction began,
so that the first page may come in another order than that of its numbers. `hasMore` looks at the last message of the list, `detectGaps` goes through the list, and a gap's `nr`
is its place there: on a page 2, 4, 1, 3 the gaps are 1..1, 3..3 and 2..2, in this order.

**TokenManager.** A token pair is described by the logins its halves come from. What follows the answer to a refresh up to the
next macrotask (setting tokens, callbacks, the `finally` block, the continuations of those who share the promise) is
one step (`Answered`, `Failed`). `performRefresh` puts the refresh token into a JSON body, while `routes/auth.ts:168` wants it in the
Authorization header and answers 401 otherwise (`SPEC.md:111` lists this mismatch): with this server as it stands, only `Failed` happens.
The model keeps `Answered`, which any server that reads the body can give. The client that `ChatSDK.connect` builds refreshes
through its provider instead (`ChatSession`).

**AuthSession.** A bundle is the access and refresh token issued together. A request goes through `CheckUser`, `CheckSession`,
`CheckToken` (the three queries of `validatePayload`), then, for a refresh, `Rotate` (the transaction that inserts into
`revoked_token`) and `Issue`. The replay branch of `Rotate` leaves the session as it is: the transaction in which it
is revoked throws and rolls back. `RevokeUser` and `RevokeSessions` are the two updates of `revokeUserTokens`.
`CheckUser` decides either way for a token of the very second of the revocation, because `iat` is cut to seconds. A step
can be the last of its call (`BreakOff`, `RevokeBreaksOff`).

**ChatSession.** Adds the client to those requests: `BeginFetch` is `ensureFreshToken` and the first request, `Unauthorized` what
follows a 401, `Refreshed`, `RefreshDenied`, `AnswerLost` and `ServerFails` the ends of the provider's refresh. A fetch ends `ok`, or `denied` when its refresh
is refused or its repeat answered with a second 401, or `failed` by any error that is not a 401: `RequestFails` is the branch of
`executeRequestWithAuthRetry` that passes on a lost connection, a 4xx or 5xx of the route and an open circuit; `ServerFails` is a query of the server that throws,
in a refresh or a validation. When the connection of a refresh is lost (`AnswerLost`) its request stays on the server, which goes on with it for nobody. A member of `Calls` is one call of
`fetch`; an application that calls again is another member.

**OfflineQueue.** `local`, `pending`, `retries` are the two IndexedDB stores; `sender[m]` is `sendToServer` for message m,
which the `sending` set makes unique; `request[m]` is the request it waits for and `orphan[m]` one that it gave up and
that is still on its way. `Handle` is `POST messages`: the test for an existing message is a statement before
the transaction, whose primary key refuses the second insert. `Latest` is the window of `checkServerReceived` (10 messages
in the code). `Commit` is somebody else's message, which can push ours out of it. `Reload` clears what is in memory.

**SearchIndexOutbox.** `status`, `due` and `stale` are the columns of a row as in `RealtimeOutbox`; `key` is its message and operation, of which
one row at a time can be active (`idx_search_index_outbox_unique_active`). `Post`, `Reply`, `Edit`, `Delete` are the routes: the text
changes and the row is written in one transaction (`Enqueue`, whose `ON CONFLICT` clause sets an active row back to `pending` even while a
worker has it), and the request's own call of Meilisearch is started without waiting (`call`). A moderator's `Moderate` writes no row. The
direct call ends in `CallSucceeds`, or in `CallFails` and the row of the catch block. A worker claims (`Claim`), reads the message (`ReadRow`), writes
the index (`Apply`) and completes by id (`Complete`); each can fail, and `MarkFailedFails` is the throw that leaves the loop. A text is a version number.
`overtaken`, `dropped` and `undercut` record when the code has done what no property can hold through: an older text was written or completed after a
newer one, a moderator's only call was lost, a lock ran out under its holder.

**ChannelTransactions.** The variables are the committed rows; what an open transaction has written is told by its `pc` and `num`, and what others see of it
are the row locks (`lock`) it holds on `channel_seq`, `channel` and a user's `channel_member` row. A statement that needs a locked row is not
enabled. A post is `TakeSeq` (`next_channel_seq`), `Insert` (whose trigger updates the channel row), `SelectMembers` (the snapshot of the UPDATE
of `unread_count`), `LockMember` for each row, `CommitPost`. `AutoJoin` is a statement of its own before it. `StartAdd` takes a set of users, whom `InsertMember` inserts one by
one, in any order (the list of the request has any), waiting where another request holds the row or has inserted it without a commit; `got` are the rows inserted so far. `Created`
is what `POST /channels` leaves: `member_count` is the length of `memberIds` and one more, whoever is named twice or is the creator; rows are inserted once. `Quiet` is the number
of further members, who add and remove others but neither post nor read, so that a channel can have a member who adds the two users of the instance. `CountAdd` and `CountRemove` evaluate the
uncorrelated `COUNT(*)`, which keeps the statement's snapshot although the row it updates is then waited for. `StartMark` and `StartReceipt` read what
`CommitMark` and `CommitReceipt` use in a later transaction. `Rollback` may end any request; Postgres ends one of a deadlock that way. `blurred`,
`walkIn`, `drift`, `old` record the named reasons for which a count can differ.

## The runs

| run | instance | distinct states | what it shows |
|---|---|---|---|
| `outbox_safety` | 2 processes, 2 rows, 2 attempts, batch 2, 1 crash or failed query | 1.76M | leases, copies, marks and triggers |
| `outbox_liveness` | 1 process, a good row and a poisonous one, 3 attempts, batch 1, 2 faults | 156k | refinement of `AtLeastOnceDelivery`; every event is published or exhausts its attempts |
| `sync_safety` | 2 overlapping calls, batch 1, 3 messages created in the order 3, 1, 2 | 2.33M | high-water mark, completeness, the `syncing` set |
| `sync_long_log` | 1 call at a time, batch 2, 4 messages created in the order 2, 4, 1, 3 | 676k | no round of a backfill repeats the one before; every backfill ends |
| `sync_initial` | 1 call at a time, batch 2, 4 messages created in the order of their numbers | | *violated*: see below |
| `token_manager` | 3 callers, 2 logins | 3k | sharing, the timer, a logout that lasts; a waiter has a request that will release it; callers return |
| `auth_session` | 2 requests, 2 sessions, 2 bundles, 2 seconds | 2.78M | refinement of `TokenRotation`; exchange once, keep a token, revocation holds |
| `auth_replay` | 2 requests, 1 session | | *violated*: see below |
| `chat_session` | 2 concurrent fetches, 5 bundles | 806k | the client keeps the session's current token; a fetch ends, and is turned away only for a cause |
| `offline_queue` | 1 message, 2 calls, 2 requests each, 1 retry, window 1, 1 reload | 293k | refinement of `OutgoingMessages`; once on the server, `sent` means stored, every message gets an outcome |
| `search_outbox` | 1 message, 1 direct call at a time, 2 workers, 3 rows, 2 versions, batch 2, 1 fault | 731k | no mutation is lost; a row has one holder; completion is final; the outbox drains and the index converges |
| `channel_transactions` | 2 users and a quiet member, 2 requests, 2 messages, a creation list of 2 | 2.43M | refinement of `AtomicChannel`; dense numbers, unread counts, member counts, the two kinds of deadlock |

Why the bounds suffice. Two processes and a lock that may go stale at any moment already give every overlap of an old and a new
holder of a row; two rows and batch sizes 1 and 2 give batches with a failing first or second row, and the order of claims.
`MaxAttempts` 2 and 3 have a first, a last, and a middle attempt. In the sync runs batch 1 gives more pages than the log has gaps
and batch 2 a page with a gap inside it; `CreatedAt` is an order that crosses that of the numbers where the page order matters, and an arbitrary one in the proofs; two tasks give every pair of calls, including a live message during a backfill. Three callers are
an owner, a waiter and a newcomer after the promise is dropped. Two sessions tell a revocation's effect on an old session from that on a new
one, and two bundles are a token and its successor. Five bundles let both fetches refresh twice. One message is enough for the
queue because calls only interact over the same message and the window: a window of 1 and one message of a neighbour do what ten do
in the code; two tasks are two overlapping `processPending`, or one and a manual retry. Bounds that only keep the state space finite:
`MaxFaults`, `MaxMessages`, `MaxLogins`, `MaxSessions`, `MaxBundles`, `MaxTime`, `MaxTries`, `MaxLog`, `MaxReloads`, `MaxRows`, `MaxVersion`, `MaxSeq`, `MaxNamed` (the length of a creation's list). For the search
outbox one message is enough because rows, calls and workers of different messages share only a batch, which three rows of one message (an index, an
update and a deletion) fill too; two workers race for a stale row, and the direct call is a third writer. In the channel two requests give every pair of
transactions, two messages a read mark between them, and two users a list to add in two orders. Both kinds of deadlock are reached. Larger numbers of requests are the theorems' part. One more is built into
`OfflineQueue`: a message has at most one orphaned request (a newer one replaces an older one that the server never handled).

Deadlock is checked in every run but `search_outbox`, which comes to rest when the bounds on rows and versions are used up and every row is done.

Fairness. `RealtimeOutbox.FairSpec`: the interval timer triggers, a running drain continues (its awaits are queries, and fetches with a timeout),
backoffs elapse, locks go stale. Nothing is assumed of Centrifugo, of commits, or of crashes, which `MaxFaults` bounds in number. `MessageSyncer.FairSpec`: a call that is not
interrupted continues. `TokenManager.FairSpec`: `fetch` settles. `ChatFairSpec`: the server handles a request and the client its answer.
`OfflineQueue.FairSpec`: calls and requests continue, and `processPending` is called again (at each connection). `Retry`, `Cancel`, `Send` and
reloads are never assumed to happen. `SearchIndexOutbox.Fairness`: Node resolves what a request awaits, the worker's interval timer fires and its awaits
settle, time passes for locks and backoffs; no mutation is assumed, and crashes are bounded by `MaxFaults`. `ChannelTransactions` states safety only:
in which order Postgres grants locks is not part of the repository.

Each property of a passing run has a planted fault that breaks it: an operator with a comment `Planted fault.`, defined just before
the operator it takes the place of, listed under "mutants" in PROJECT.json. These operators are used nowhere else.
The type invariants of `MessageSyncer`, `TokenManager`, `AuthSession`, `OfflineQueue` and `ChannelTransactions` are proved and no run repeats them.

Refinements, each an abstract specification as a property of a run and the conclusion of a theorem:

| abstract | detailed | mapping | what the step is that implements it |
|---|---|---|---|
| `AtLeastOnceDelivery` | `RealtimeOutbox` | rows and counters as they are | the publication, whichever process makes it |
| `TokenRotation` | `AuthSession` (and `ChatSession`) | `Phase` of a session from its row, its bundles and the requests between `Rotate` and `Issue` | `Rotate` exchanges, `Issue` hands out, a request that breaks off between them breaks the chain; validations are no steps |
| `OutgoingMessages` | `OfflineQueue` | `coming` are the messages of a `send` between its two stores, `kept` the entries, `shown` the local status | storing the entry accepts, the primary key delivers, removing the entry settles or withdraws; checks, retries and requests are no steps |
| `AtomicChannel` | `ChannelTransactions` | the committed rows: a transaction's own changes are outside of the variables until it commits | the commit, or the statement of an auto-join; other statements and rollbacks are no steps |

## The proofs

All theorems are for any set, finite or infinite, of processes, rows, calls, messages and any value of the bounds, under the assumptions named in the
modules (bounds are natural numbers, some of them positive; `Poison` is a set of rows; `Other` is not a message of the client; `None` is neither a
call nor a token pair; the users of a channel are finitely many, since members are counted).

- **RealtimeOutboxProofs**: `OutboxInvariant` proves `OutboxInv`. The published properties are not inductive: that a claim publishes once
  needs that claim numbers are unique among holders and never above the row's counter (`ClaimsCounted`); that `published` is honest needs that a
  process about to mark a row holds it with a number that was accepted (`MarkingIsBacked`); and that nothing was published before the commit
  needs `NothingClaimedEarly`. From it: `PublishesOncePerClaim`, `LeaseExclusion`, `NothingPrunedUndelivered`, `TriggersServed`, the action
  property `PublishedFinality`, and `DeliveryRefinement`: every step is a step of `AtLeastOnceDelivery` or leaves its variables alone.
- **MessageSyncerProofs**: a call remembers numbers that it read earlier; the invariant says what each still guarantees (`Promises`: what is
  visible up to the cursor is stored, up to the end of the page stored or in the page). Those facts speak only of numbers below the length of
  the log, where nothing becomes visible any more, so they survive the steps of others (`OthersKeepPromises`). From it: `HighWater`,
  `BackfillCompleteness`, `OneSyncAtATime`. `BackfillNeverRepeats` is the measure behind `SyncTerminates`: every filled row is above the cursor
  of its gap (`FillStore`), the gaps of a page are told apart by their places in the list, and a gap that is done or moved on leaves only later ones (`GapsOfAPageAreApart`, `GapsAdvance`), and every row of a page is
  above its start (`PageIsAbove`, `CallAdvances`). None of it needs the page to be in order. That these numbers are bounded by the log is in the type invariant; what fairness adds is left to TLC.
- **TokenManagerProofs**: waiters wait for a call, and undisturbed refreshes are for the last login, so that none is left after a logout (`OwnLogin`).
  From it: `TimerNeedsTokens`, `SharedRefresh`. `OneRefreshAtATime` says nothing once a refresh was overtaken by a login or logout; what holds even then, that
  `refreshPromise` is always one of a request under way (`PromiseIsARequest`), gives `WaitersHaveARequest`.
- **AuthSessionProofs**: where the session of a bundle or request comes from (`Provenance`), and that a barred session has ended for good
  (`BarredEnded`). From it: `ExchangedOnce`, `NeverWithoutToken`, `RevocationHolds`, and `RotationRefinement`.
- **ChatSessionProofs**: the server's invariant with the client on top. The two published invariants need to know what the request in each slot is for
  (`Slot`), that a bundle which is still being answered is known to nobody else (`NewBundle`), that the session's current refresh token is the client's
  or is being brought by a refresh (`KnowsCurrent`), and that a fetch without a cause cannot be refused (`Undisturbed`). The server's own steps keep
  `SessionInvariant`'s invariant by its lemmas. From it: `ClientKeepsToken`, `DenialsHaveCause`.
  A slot of the client carries one request after the other, which no step of `AuthSession` does, so `ChatSpec` does not simply imply `Spec`. `PromisesCompose` and `ClientRotates`
  show that the server's invariants and its refinement of `TokenRotation` survive the composition. `RevokedFetchesFail` is about both ends: no fetch succeeds with a
  request that began after a completed revocation of its session.
- **OfflineQueueProofs**: who knows that the server has a message: a created request, a sender or call that is about to record it
  (`SenderKnows`, `TaskKnows`). The log only grows (`LogGrows`), so they stay right. From it: `StoredOnce`, `SentMeansStored`. A second invariant on top of the
  first (`Settling`) says who still has to put a message right when a sender and a `processPending` give it different outcomes. From it: `RestSettled`.
  `QueueRefinement` needs a third (`AllCareful`): before its entry is stored, or after a reload in between, nobody has a request, a sender or an old snapshot of a message, and its
  `send` is the only call that has it; so whatever is delivered, shown or dropped was accepted before. That a call with an old snapshot cannot bring a cancelled or delivered message back
  into the queue is then a matter of each step: `updatePending` skips an entry that is gone, which the planted fault `FailPendingAlways` does not.
- **SearchIndexOutboxProofs**: where rows and calls come from (`OriginsStand`: those that delete are of deleted messages), and that what a worker has read is
  never newer than the table and, once written, is in the index unless something older was written after it (`SnapsStand`). `CompletedStays` follows step by
  step from `HeldOnce`. From it: `NothingIsLost`, `RowsAreHeldOnce`, `CompletionIsFinal`.
- **ChannelTransactionsProofs**: `ChannelInv` adds that locks are exactly what the open requests took (`LocksAreOwned`), that an open post has the next number and a mark an
  old one (`NumbersStand`), that a post counts for all members but itself and those who walked in (`PostSeesMembers`), and that a `COUNT(*)` not out of date is
  what has to be written (`CountsStand`). `ChannelRefinement` maps each commit to one operation of `AtomicChannel`: what a transaction took from rows it
  locked is still true then, and what it took before its locks, a mark's number or the members of a post, is within what the abstract operation allows. `OnlyTwoDeadlocks` needs no induction of its own: in every state of the
  invariant, a request that is in no such pair and no ring of additions is left out by some set of requests that wait only for each other (`DeadlockKinds`, which rests on
  who can wait for whom, `WaitsForHolders`, and on what such a set may leave out, `SettlingIsClosed` and `AddingRing`). From it also: `NumbersAreDense`, `BadgeCounts`, `MemberCount`.

Each also has the type invariant as a theorem, and every safety property of a passing run is proved: invariants, action properties and the four refinements. Only model-checked: what holds under fairness (`EventuallySettled`,
`SyncTerminates`, `CallersReturn`, `FetchEnds`, `GetsOutcome`, `IndexConverges`), since the prover does not handle `ENABLED`, and that the two properties of the violated runs fail.
The proofs about the first two of those come as far as safety goes: `BackfillNeverRepeats` and `WaitersHaveARequest` are what remains of `SyncTerminates` and `CallersReturn` without fairness.

## Where the code differs from its texts

Shown by a run:

- `sync_initial`: `ChatClient.queryMessages` (`ChatClient.ts:1078`) drops `since_seq=0`. The first backfill of a channel with more than
  a page of messages gets the latest ones, puts the mark past the rest, and never fetches them. `HighWaterIsHonest` and `SyncIsComplete` are
  therefore stated for states where this has not happened (`truncated`).
- `auth_replay`: the replay of a refresh token is refused, but its session is not revoked.

Met while modelling, reproducible with the modules, without a run of their own:

- Outbox: a process that dies during a row's last attempt leaves it `processing`, and the claim's test `attempts < MaxAttempts` keeps
  it from ever being reclaimed, although `milestone-8`'s log calls stale processing rows reclaimable.
- Outbox: an outage of Centrifugo longer than all retries loses the events committed before it (`TEST_PLAN.md:119` expects a recovery to drain the backlog).
- Sync: the number of a reply is a gap that the query can never fill. `fillGap` asks for it, receives the message after it instead, stores
  and announces it, and the page that contained the gap announces the same message again (`SPEC.md:525` asks for a backfill exactly once).
- Token manager: a refresh that is answered after `clearTokens` sets the tokens again (`token-manager.ts:186`), although `:238` calls this the logout. `OneRefreshAtATime` is
  stated for states in which tokens were not set or cleared under a refresh (`overtaken`).
- Token manager: after `clearTokens` and a new login, a refresh in flight no longer shares its promise, so that two requests run at once (`token-manager.ts:103`, `:149`).
- Client: two fetches that find the token old refresh with the same refresh token (`ChatClient.ts:1352`, the provider does not share its request). The server
  exchanges it for one; the other is denied. `DeniedForCause` names this as a cause (`overlap`).
- Offline queue: `processPending` does not ask whether a message's sender is at work. Its check may confirm and drop the entry just before the
  sender marks the message failed: it stays `failed` although the server has it, and `retry` throws for want of an entry. If a retry is on its
  way instead, the message stays `sending` with no entry. `RestIsSettled` holds all the same: the message is not `sending` without a
  reload, and no entry contradicts it.
- Offline queue: a call that acts on an old snapshot of the entries may set a message whose entry is `failed` to `sending`; if the page is
  reloaded then, nothing takes it up again. `GetsOutcome` speaks of messages whose entry is `pending`.
- Offline queue: a reload between the local message and its entry leaves it `sending` for ever. A message is `owed` only from its entry on.
- Outbox: a failed row waits for its backoff while later rows of its channel are published, so that subscribers see events out of order; rows are taken by
  `created_at`, the start of the sender's transaction, and not by the message's number.
- Search: an edit that commits while the row of an earlier one is being processed sets that row back to `pending`, and the worker completes it all the same, by id
  (`search.ts:312`). The edit then lives in the request's own call only; if that fails, its catch block writes a row again, but a process that dies before loses it.
  `PRODUCTION_STURDINESS_SPEC.md:987` expects the index to become consistent after an outage. `IndexConverges` holds but for these messages (`overtaken`).
- Search: a message that is deleted between the worker's read and its write comes back into the index (`search.ts:218`) until its own `delete` row is processed, and stays
  there if that was done in between. Search results are read from Postgres again, so that the deleted text is not shown.
- Search: a worker that was slower than its lock marks a completed row `failed`, or breaks the unique index with that update (`search.ts:325`) and abandons the rest of its batch.
- Search: a moderator's deletion writes no row (`moderation.ts:250`), so that a crash before its direct call ends leaves the text in the index; the log of milestone 7
  (`agent-runs/2026-06-08-.../08-milestone-7-...log.md:16`) calls committed mutations crash-durable.
- Read state: mark-all-read takes `current_seq` before its transaction (`channels.ts:1399`). It sets the mark back if a receipt came in between, and sets the count to 0 over a message that
  was posted in between. A receipt of an old message sets the count to 0 as well. Milestone 9's log (`agent-runs/2026-06-07-.../11-...log.md:33`) calls the mark monotonic, which is true of `receipts.ts`.
- Channels: auto-join in the middle of a post is not counted by it, and never changes `member_count`; two changes of the membership at once leave the count of
  the one that read first (`channels.ts:1136`; the member counts of workspaces are written the same way, `workspaces.ts:394`); creation writes `memberIds.length + 1` although a member may be named twice or be the creator (`channels.ts:540`).
  `CountIsMembers` names these reasons (`drift`).
- Channels: a post locks the channel row, through the trigger of its INSERT, before the members' rows, and a removal the other way round. And two requests that add the same
  users in opposite orders (`channels.ts:1108`) each hold an inserted row that the other one's `ON CONFLICT` waits for. Postgres breaks the deadlock and one of
  the requests fails with a 500. `DeadlocksAreKnown` says that these are the only kinds; the synchronisation of a user's memberships (`server.ts:596`), which is not modelled, locks in the order of the removal, too.

Where a property allows an exception, the exception is one of these: a row whose holder was slower than its lock (`overrun`), a login or logout under a refresh (`overtaken` in
`TokenManager`), a refresh whose answer never came (`lost`), writes to the index that passed each other, a lost call, a lock that ran out (`overtaken`, `dropped`, `undercut` in `SearchIndexOutbox`), read marks and counts taken before others
committed (`blurred`, `drift`). The properties do not say that the code does well there; they say that nothing goes wrong elsewhere, and PROJECT.json's hazards at those lines are watched only up to the exception.

## What is not modelled

- Failing IndexedDB transactions in the offline queue (they reject the call; in `MessageSyncer` they are `Fail`), `editMessage`, `deleteMessage` and the
  conflict resolution.
- The state of the circuit breaker and of the deduplicator: `GiveUp` lets them refuse any request.
- Database failures other than a failed statement, isolation levels other than READ COMMITTED (the code relies on row locks, unique keys and single statements, which the models contain).
- In `SearchIndexOutbox`: the search query, `initSearch` and `indexMessages`, which nothing calls.
- In `ChannelTransactions`: roles and permission checks, the fan-out to `user_message`, `reply_count`, the `read_receipt` rows and the locks of foreign keys, which no two
  of the modelled transactions fight over; the queue of Postgres's lock manager, and with it liveness. The idempotency key of a creation, direct messages, settings.
- Realtime publications reaching the client in some order: `StartNew` may bring any message at any time, in any order and repeatedly.
- Rendering, formats, HTTP encodings, signatures and hashes, SQL policies for tenants, shell scripts, native SDKs. PROJECT.json says for each part why.

## Plan

What would come next; each module written so that it can be proved about (no RECURSIVE, invariants in named parts).

1. `CircuitBreaker` with the deduplicator: late results, parallel probes; composed with `OfflineQueue`'s sender.
2. Reactions, pins and edits with idempotency keys; `OfflineQueue.editMessage` and its conflict resolution.
3. An abstract index that `SearchIndexOutbox` implements where no write was overtaken, and the refinement proved; the chain from `OutgoingMessages` to
   `AtomicChannel`: a delivered message is a post.
4. Webhook deliveries in memory, with the counter of consecutive failures that disables a webhook.
5. Connection and subscription state against the events of the realtime library, data lifecycle.
