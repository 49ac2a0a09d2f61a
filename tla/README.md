# Meetifyy: a TLA+ model of what its handlers promise when they interleave

Meetifyy is a social network for students: a NestJS backend over PostgreSQL
(Prisma), Redis and Supabase, and a web client. Paths below are relative to
`src/`; `auth/`, `otp/` and so on stand for `src/backend/src/auth/`, ...

Almost every service is written the same way. A request handler is an async
function; each `await` on the database is a point where any other handler, of
this process or of another instance, may run. Few handlers open a transaction
that covers their reads. What keeps the rows right is *conditional updates*
(`updateMany where { id, status: ... }`, and a look at the count), and where a
check and a write are separate statements there is a window. That is what these
modules are about: **every awaited statement is one action**, a `$transaction`
is one action (or, where its reads take no lock, one action for the reads and
one for the writes), and a handler is a process whose program counter says which
statement comes next and whose local variables keep what it read.

## 1. Inventory

| Part | State | Operations | What is hard, and what must be true |
|---|---|---|---|
| User sessions (`auth/session`) | `UserSession` rows in rotation families | issue, rotate, reuse detection, lost-rotation recovery, undoRotation, revoke one / family / all, retention | Concurrent refreshes, lost responses, sign-outs in the middle. Signed out stays signed out; one usable token per family |
| Session routes (`auth/auth.controller.ts`) | cookies | refresh with the provider's half, logout, revoke | The provider fails after the local half committed |
| Access guard (`common/guards/jwt.guard.ts`) | two caches per instance | resolveSession, resolveAccountStatus, forgetting, markSessionUsed | A lookup that began before a revocation and ends after it. No kept answer outlives the revocation by more than the ttl |
| Instant Match (`instant-match`) | `MatchQueueEntry`, `MatchSession`, the 24h chat | join, cancel, pair, accept, decline, expire, requeue, leave, sweep | Racing searches; two accepts, a decline and the deadline; a conversation that cannot be created. An entry is paired once, a match ends, an ended chat stays ended and is torn down |
| One-time codes (`otp`) | one `UserOtp` row per user and purpose | issue, consume, invalidate | Parallel guesses and submissions, reissue in between. Guesses and acceptances are bounded; a deleted code is dead |
| Account deletion (`account-deletion`) | lifecycle columns of `User` | request, recover, sweep: find, claim, purge, release | A recovery against the worker at the deadline, dead workers, retries. Erase only after the window; due accounts are purged or parked |
| Account administration (`admin/account-deletion`, `admin/users`) | the same columns | purgeNow, suspend, restore, soft delete | Decisions from a read, writes by id |
| Redis and its lock (`redis`) | a promise chain per instance, keys with a ttl | withLock: chain, SET NX PX, polling, fall-through, release script | Slow holders, failed releases, dead instances. One call at a time, until a call had to go without the lock; every call is served |
| Activities (`activities`) | `CrewActivity`, members, invitations, the invite notifications | join, leave, invite, accept, decline, revoke, visibility, cancel, end, two sweeps | Capacity counted by statements that do not see each other; an answer against a cancellation, a revocation or an expiry. Closed invitations stay closed, a revoked person stays out |
| Communities (`communities`) | members with roles, join requests, `memberCount` | join, ask, accept, decline, leave, remove, roles, delete, repair at boot; the purge of an account | A plan made from a read, a transaction later. The counter counts, the owner owns, a request is answered once |
| Presence (`presence`) | socket set in Redis, timers | setOnline, setOffline, heartbeat | Read-modify-write without a lock; the disconnect timer; errors of Redis that are swallowed. In the end people are shown as they are |
| College affiliation (`campus-affiliation`) | the row, its mirror in `User`, the reservation of addresses | requestOtp, verify, remove, revoke, release | The upsert undoes a revocation made since the read. Only a proven address is applied; row and mirror agree |
| Sign-in address (`account-email`) | provider and row | change, confirm | Two stores and a compensation. They agree between changes |
| Messages (`messages`) | conversations; per participant `leftAt`, `deletedAt`, `clearedAt`; unread counters | send over socket or HTTP, clear, delete, hide, start, leave, enter, groups | A late acknowledgement and a retry to the other implementation; clearing against revival; two first contacts. What was cleared stays out of sight; a retry is stored once; a pair has one conversation |
| Gateway (`realtime`) | rooms, sockets | socket handlers, broadcasts | A message is written after its chat was closed |
| Uploads, push, notifications, email | keys, devices, queues | replace, clean up, deliver | Clean-up against use; delivery after sign-out |
| Rate limits (`common/rate-limit`) | counters in Redis | consume | Fallback and recovery of Redis |
| Web client (`frontend/src/core/api`) | cookie jar shared by tabs | single-flight refresh | Two tabs, the older response stored last |
| Campus events | registrations | register, cancel | As activities |
| Everything else (posts, search, legal, support, admin pages, health ...) | rows | queries and single-row updates | Nothing a model would add to |

How they interact: the client's `transport.js` drives the refresh route, which
drives `UserSession` and then the provider; the guard caches what those rows say.
Deletion, affiliation and the change of address each ask `UserOtp` for a code
first. The purge calls `revokeAllForUser`, and so do password reset and
suspension, and it hands on or winds up the communities of the account. An
accepted match calls the message service for its conversation; its queue changes
and the first contact of two people run under Redis' `withLock`; the gateway's
socket handlers and a timer call the match service and presence. Activities queue notifications and settle
them later, and the list of notifications repairs them.
`PROJECT.json` lists every part with its status, and every hazard with its line.

## 2. The modules

| Module | Models | State |
|---|---|---|
| `UserSession` | `user-session.service.ts`, the refresh/logout/revoke routes, `markSessionUsed`, the retention sweep | `rows` is the table of one account; `req` the running requests; `known` the tokens that reached a client |
| `InstantMatch` | `instant-match.service.ts` | `queue`, `sess` the two tables; `lock` the per-user lock; `proc` handlers and sweeps |
| `MatchLife` | *abstract*: what a match may become, from its proposal to the end of its chat | `life`, the phase of each match |
| `UserOtp` | `user-otp.service.ts` and how its callers issue and drop codes | `row` the single row of one user and purpose; `req` |
| `CampusAffiliation` | `campus-affiliation.service.ts`; EXTENDS `UserOtp` | `aff` the row, `mirror` the column of `User`, `target` the address each code is bound to, `job` what a request does beside its code |
| `AccountEmail` | `verify` of `account-email.service.ts` | `auth`, `user` the two stores; `change` the requests |
| `AccessGuard` | the caches of `jwt.guard.ts` | `entry` per instance, `look` the lookups under way; `open` which cache it is; `late` who was let in too late, and how |
| `AccountDeletion` | the request, recovery and purge services and the administrator's routes over one account | `user` the lifecycle columns; `proc` requests and workers; `admin` what administrators do |
| `Communities` | `communities.service.ts` and the purge's part in it | `role`, `count`, `request`, `owner`; `todo` the write a handler has still to do |
| `Activities` | `activities.service.ts`, its authorization, the lifecycle of invite notifications and its repair by their list | `act`, `members`, `inv`, `note`, `jobs`; `proc` |
| `Messages` | `sendMessage` of `messages.service.ts` and of `core/messaging-core.service.ts`, clearing, hiding, membership, history and catch-up, the client's fallback | `row` per participant, `log`, `hidden`; `draft` at the clients; `todo` |
| `UserLock` | *abstract*: what a caller of `withLock` may rely on | `running`, `degraded` |
| `RedisLock` | `withLock` of `redis.service.ts` | `tail`, `prev` the promise chains, `call`, `key` |
| `FirstContact` | `startDM`, `startConversation`, `dm-lock.ts`; EXTENDS `RedisLock` | `contact` what each call has done about the conversation |
| `Presence` | `presence.service.ts` and its calls from the gateway | `rec` the Redis record, `conn`, `timer`, `op`, `told` |
| `MC_Rows`, `MC_Services`, `MC_Sweeps` | several of these side by side, for TLC | `focus` |
| `MC_*` | instances for TLC: symmetry and the bounds of one run | |
| `InstantMatchProofs`, `UserSessionProofs`, `UserOtpProofs`, `AccountDeletionProofs`, `ActivitiesProofs`, `CommunitiesProofs` | theorems about these modules, `UserOtpProofs` also about `CampusAffiliation` (section 4) | |
| `RowsProofs`, `ServicesProofs` | theorems about the compositions `MC_Rows` and `MC_Services`, and about those of their components that have no module of proofs | |

**UserSession.** `Login` is `issue`. `rotate` is `Present`, `CreateSuccessor`,
`Claim`, `DropSuccessor`, `Judge`; `onReuse` and `recoverLostRotation` are
`InspectSuccessor`, `RetireSuccessor`, `Remint`, `Link`, `Burn`; the provider's
half and `undoRotation` are `Respond`, `ProviderUnavailable`, `UndoRead`,
`Restore`, `UndoDrop`; the sign-outs are `Logout`, `SignOutEverywhere`,
`AskSignOutOthers`/`SignOutOthers`, `RevokeDevice`. A token is its row's id, so
hashing is left out; time is the row's `age` against the grace period and
`expiresAt`; `revokedReason` is kept as null or not, which is all the code tests.
`ended`, `raced` and `undone` are history: which families were signed out,
whether a recovery or an undo stood in its window (`remint`, `restore`) at that
moment, and in which families `undoRotation` has given a token back. `AllAtOnceSpec` are the
behaviours in which nobody signs out a single device.

**InstantMatch.** `joinQueue`, `cancelQueue` and `requeue` are `Join`, `Cancel`,
`AcquireLock` ... `Upsert`; `tryMatch` and `claimPair` are `FindCandidates`,
`Pair`, `PairLost`; `respondToMatch` is `Respond` and then `Decline`, `Expire`,
or `acceptSession` from `SetFlag` to `Publish`; leaving, the lazy expiry and the
sweep share `EndClaim`, `ReadEnded`, `CloseConversation`. Blocks, cooldowns,
ranking and the scan limit only take candidates away: `FindCandidates` keeps any
subset. `Failures` says which statements may fail in a run, so that a liveness
run can say exactly which failure it survives. `PhaseOf` reads the phase of
`MatchLife` off a row, and `KeepsToLife` is the refinement. The lock excludes, as
it does inside one instance; what is left of it between instances is `UserLock`.

**UserOtp.** `issue` is `AskForCode`, `Issue`, `Mail`, `Discard`; `consume` is
`Submit`, `Attempt`, `Consume`; `Invalidate` is `invalidate` and
`invalidateAll`. The row's id survives a reissue and not a delete, and the
conditional updates match the id that was read: the model keeps both. The hourly
limit only refuses, which leaves everything unchanged.

**CampusAffiliation** is a composition: its requests are those of `UserOtp`, and
its actions conjoin theirs. `Ask`/`IssueFor`/`Send` are `requestOtp` around
`AskForCode`, `Issue`, `Mail`; `Guess`, `Compare`, `Redeem` are `verify` around
`Submit`, `Attempt`, `Consume`, and then `Check` (the reads of its transaction)
and `Write` (the upsert and the mirror). `Remove`, `Delete`, `Clear`, `DropCode`
are `remove`; `Revoke` and `Release`/`Unmirror` the administrator's routes;
`Others` other users who take and release addresses. The transactions run at READ
COMMITTED, so a read and a later write are two actions; `Delete` and `Release` lock
the row if there is one, and with it the mirror's update. Without a row the mirror
is cleared all the same, by a statement of its own (`Clear`, `Unmirror`).

**AccountEmail.** `Verify`, `CheckFree`, `SetAuth`, `SetRow`, `RestoreAuth` are
the awaited calls of `verify`, in order. The provider may refuse, do it, or do it
and answer an error; a process may die anywhere. An accepted code is what
`UserOtp` has already given.

**AccessGuard** is one key of one of the two caches (they are written alike).
`Miss` takes the time, `ReadRow` reads, `Store` keeps the answer until that time
plus the ttl and answers the request with it; `Fail` is a lookup that fails: no
session refuses, no status lets in (`open`). `Change` is a revocation or a
suspension, `Forget` the call that drops the entry *on that instance* after the
update. `LetIn` notes in `late` how a request was let in when the change was a ttl
old: by a kept answer, by one it read itself, in time or after a slow lookup, or
blind.

**AccountDeletion.** `AskDeletion`/`Schedule`, `AskRecovery`/`Recover`; the sweep
is `FindEligible`, `Claim`, `ReadUser`, `RevokeSessions`, `Erase`,
`ReleaseFailedClaim`; the administrator's routes are `AskPurgeNow`/`TakeNow`,
`AskSuspend`/`Suspend`/`Unsuspend`, `AskRestore`/`Restore`, `SoftDelete`. The
times are compared with the clock, so `sched` is null, future or due and `claim`
null, fresh or stale. `DeadlinePasses` may come between a recovery's look at the
clock and its update, but no request lives for 30 days or for the 30 minutes of
a lease. A sweep may outlive its lease. The variable `admin`, a member of the
constant `Staff`, never changes: it says which routes a behaviour uses.

**Communities.** A handler reads and checks (`Join`, `Review`, `Leave`, `Remove`,
`ChangeRole`, `Delete`) and so plans one write, kept in `todo`; the transaction
(`JoinTx`, `AskTx`, `AcceptTx`, `DeclineTx`, `ExitTx`, `RoleTx`, `DeleteTx`) does
it later, in whatever state things then are. `Purge` is what the erasure of an
account does to this community, `Boot` the repair of `onModuleInit`.

**Activities.** `AskJoin`, `Count`, `Insert` are `joinActivity`: the statement
that counts and inserts is two actions, because at READ COMMITTED it counts in
the snapshot of its beginning and its row is seen at its end. `AskAccept`,
`AskDecline`, `Answerable`, `Join`, `Record`, `Decline`, `ExpireOne` are the two
answers; `AskInvite`, `ConsiderInvite` (its two reads), `Create`, `Notify` is
`inviteFriends`; `Revoke`,
`SetVisibility`, `AskClose`, `CloseActivity`, `CloseInvitations` are the host's;
the sweeps are `FindOver` ... `EndInvitations` and `FindStarted`, `ExpireStarted`.
Every one of them ends in `SettleRead` and `Swap`, the compare-and-swap on the
invite notification, which `RunJob` writes from a queue that may run a job again.
The third writer is the list of notifications: `AskList` reads the notification,
`Judge` the invitation with its activity, and `Repair` writes what that says
(`InviteLifecycle`), by id and without a look at what is there by then.

**RedisLock and UserLock.** `Enter` and `Start` are the promise chain of an
instance, `TrySet`, `Wake` the polling, `Return`, `Release` the finally block,
`ReturnBare` a function that ran without the lock. `client` says whether there is
a connection to Redis at all: without one the chain is the whole lock (`NoClient`),
and with one a SET may throw (`SetFails`). Time goes in polls of 50 ms (`Tick`).
`UserLock` is what is left for a caller: one call at a time, and *once degraded*, one
at a time on each instance. `KeepsPromise` is the refinement
`INSTANCE UserLock WITH running <- {c : Running(c)}`, checked by TLC and proved.

**Messages.** `sendMessage` exists twice: over the socket, and over HTTP for the
chat of a match, it is `SendSocket`/`SendHttp`, `Look` (the idempotency check) and
`WriteUnified`; over HTTP in direct and group chats it is `WriteCore`, which takes
no `clientId` and revives the conversation for whoever had deleted it. A client
falls back from the socket to HTTP. `Clear` and `Hide` plan, `ClearTx` and
`HideTx` write; `StartDM`, `Leave`/`LeaveTx`, `Enter`/`EnterTx` change the rows of
participants; `Refuse` is any handler that throws on its way.
There are two reads: `History` of who opens the conversation, `Catchup` of a client
that reconnects and names the time of its last connection. `latest` and `lapped`
are history: until when each user has cleared, and for whom two clears overlapped.

**FirstContact** is the function that `withDmCreateLock` runs: `Look` and `Create`
happen while the call of the lock runs, locked or bare, and the function may throw
before either (the lock's `Return`).

**Presence.** `Connect`, `Heartbeat`, `ReadOnline`, `WriteOnline` are `setOnline`,
`Disconnect`, `ReadOffline`, `WriteOffline` are `setOffline`, `Fire` and
`WriteGone` the timer two seconds later, `Expire` the ttl of the record.
`FailOnline`, `FailOffline` and `FailTimer` are the three catch blocks, which
swallow an error of Redis and go on: without a write, without a timer, with a timer
that is gone. `Dies` is the end of an instance, with its sockets, handlers and
timers. `missed` is history: one of these has happened since `setOnline` last
stored a record.

**MC_Rows, MC_Services and MC_Sweeps** put components that share nothing side by side: the
variable `focus` says which one runs and never changes, the others stand still in
an initial state. The lock of `MC_Services` is that of `FirstContact`. The states
are then the *sum* of those of the components, and
each property is checked on its own component's instance. In `MC_Services` and
`MC_Sweeps` the components that stand still have nothing due, so their fairness asks
nothing.

**MC_InstantMatch** explores the states of two scenes in one run, both with every
failure and crashes: `Duo`, the whole life of one match of two people, and `Race`,
three people and two matches, in which somebody comes back to the queue.

Definitions named `Mut...` next to an operator are plausible wrong versions of
it (a condition dropped, a status too many). Nothing uses them: each property
below is known to fail when one of them takes the operator's place, which shows
that the property looks at that code.

## 3. The runs

State counts are TLC's distinct states, after symmetry.

| Run | Instance | Checks |
|---|---|---|
| `session` | 2 requests; 3 rows and a provider that may fail, or 4 rows of one login and a provider that answers (1.4 M) | `TypeOK`, `SignOutHolds`, `OneLiveToken`, `ReasonIsFinal` |
| `session_signout` | 3 rows, 2 requests, sign-outs of all devices only | `SignedOutMeansOut` **fails** |
| `match` | every failure and crashes; 2 people and 1 match, or 3 people, 4 queue entries and 2 matches; 2 handlers (2.4 M) | `TypeOK`, `OneAgreedConversation`, `EntryUsedOnce`, `EndedChatStaysEnded` |
| `match_stranded` | 2 people, 1 match, 1 handler; the update after the conversation fails | `MatchResolved` **fails** |
| `sweeps` | an account, 2 processes, and no administrator, or purgeNow and soft delete, or suspend, restore and soft delete; or 2 people, 1 match, 2 handlers and a conversation service that fails at will; one at a time, fair (0.25 M) | `TypeOK`, `NoPurgedShell`, `WindowIsRecoverable`, `SweepKeepsWindow`, `PurgedOrParked`; `MatchResolved`, `ChatTornDown`, `KeepsToLife` |
| `deletion_now` | 3 processes, purgeNow | `PurgeOnlyAfterWindow` **fails** |
| `rows` | 2 requests; codes, college address, sign-in address, guard, community, conversation, one at a time (0.75 M) | `RowsTypeOK`; `GuessBudget`, `OneAcceptancePerIssue`, `WithdrawnStaysOut`; `OnlyProvenAddress`, `RevocationHolds`, `MirrorAgrees`; `StoresAgree`; `StaleAtMostTtl`; `CountMatches`, `OwnerRules`; `HiddenForGood` |
| `services` | 3 first contacts under the lock on 2 instances, 2 sockets, the invitations of one activity, one at a time, fair (0.12 M) | `ServicesTypeOK`; `OneDmPerPair`, `KeepsPromise`, `CallsServed`; `ConnectedIsOnline`, `GoneShowsOffline`; `UnansweredExpires` |
| `activities` | an invitee, another person, the one seat beside the host's, the list of notifications, 2 processes (3.7 M) | `TypeOK`, `OversubscriptionBounded`, `RevokedStaysOut`, `ClosedStaysClosed`, `OutcomeKept` |
| `activities_full` | 2 people, one seat | `NeverOversubscribed` **fails** |
| `messages_retry` | 2 people, 1 message sent over the socket and again over HTTP | `RetryOnce` **fails** |
| `messages_catchup` | 2 people, 1 message, a clear, a reconnection | `CatchupHidesCleared` **fails** |

Deadlock is not checked: every system here may come to rest (nothing to do until
a user acts, a bound reached, an account purged), and a process stuck in the
middle is what the liveness properties are for.

**What they show.**

- `SignOutHolds`: whatever refreshes are under way, a family that was signed out
  has no usable token, unless the sign-out fell into the one window of a recovery
  or an undo. `SignedOutMeansOut`, without that exception, is what the comment
  promises, and `session_signout` shows the window: recovery retires the lost
  successor, the sign-out of all devices finds no live row and succeeds, recovery
  creates the next one.
- `ReasonIsFinal`: undo never revives a row that a person ended.
- `OneLiveToken`: of the concurrent presentations of a token one wins, and a
  recovery retires the token it replaces, also when the lost response turns up.
  The exception is a family in which an undo has given a token back (`undone`):
  the undo restores the old token while its best-effort delete of the successor
  may fail.
- `EntryUsedOnce`: three searches that see the same entries never pair one twice.
- `OneAgreedConversation`: retries, rollbacks and the sweep included, a session
  gets one conversation, by agreement of both, and is then `ACCEPTED` for good.
- `KeepsToLife`, `EndedChatStaysEnded`: a late accept or rollback revives
  nothing; the ways a chat can end do not overwrite each other. Each row, whatever
  handlers and sweeps do to it, lives the life of `MatchLife`: only an agreed match
  talks, an agreement is taken back only before the chat opened, and what was
  declined, expired or closed never moves again. (`ResolvedIsFinal`, a part of
  this, is stated and proved by itself.)
- `MatchResolved`, `ChatTornDown`: no pair stays in limbo although creating the
  conversation fails at will, and an active chat is torn down and its conversation
  closed.
  The first fails once the *following* update can fail (`match_stranded`): the
  try block does not cover it, and no sweep selects `ACCEPTED` rows without a
  conversation. The second is said, and checked, of a closing transaction that
  succeeds: the sweep does not retry one that fails (section 5).
- `GuessBudget`, `OneAcceptancePerIssue`, `WithdrawnStaysOut`: no interleaving of
  submissions, reissues and deletes buys more comparisons or acceptances than the
  codes issued are worth, and a deleted code stays dead for whoever read it.
- `OnlyProvenAddress`: the address stored is one an accepted code was sent to,
  although codes for two addresses follow each other in one row.
- `RevocationHolds`: a revocation by an administrator is undone neither by
  verifying again nor by removing, unless a request stood between its check and
  its write (`crossed`; section 5). `MirrorAgrees`: row and mirror agree, with
  the one exception `torn`: a row that was stored between the two statements of a
  removal or a release that found none.
- `StoresAgree`: after any number of changes, failures and compensations provider
  and row agree; the exceptions are two changes whose critical parts overlap and
  a provider or a process that stops half way.
- `StaleAtMostTtl`: nobody is let in a ttl after the change by an answer that was
  kept: its age counts from *before* the read, so a slow lookup does not add to the
  15 seconds; `MutLeft` shows what a `now` taken after the read would do. Dropping
  the entry only helps the instance that does it. Two late admissions remain, and
  the property names them: a request whose own lookup was begun before the change
  and takes the whole ttl, and, of the account status only, one whose lookup fails,
  which the code lets in on purpose.
- `CountMatches`, `OwnerRules`: the transactions look again at what the plan
  relied on, so that late plans do not count twice or take the owner's role. The
  exceptions (a purge, a boot, a hand-over in the middle of a handler) are real,
  see section 5. That a decision on a request is not turned over (`AnsweredOnce`)
  is proved only.
- `SweepKeepsWindow`: without administrators the sweep erases only what is still
  pending and due: a recovery and a claim cannot both win. `PurgeOnlyAfterWindow`
  fails with `purgeNow`, which ignores the count of its update (`deletion_now`).
- `NoPurgedShell`: nothing the owner, the workers, `purgeNow` and the soft deletion
  do makes a purged row look alive. Suspension and restoration do (section 5), and
  behaviours with them are excluded by name.
- `WindowIsRecoverable`: a claim or failure count of a deletion cancelled under a
  worker does not close the window of the next one.
- `PurgedOrParked`: failing and dying workers leave no due account behind.
- `HiddenForGood`: what a participant cleared, or deleted with the conversation,
  never comes back to whoever opens it, whoever revives the conversation and however
  often one leaves and returns; two clears of one user that overlap are the exception
  (`lapped`). This is the read of the history. `CatchupHidesCleared`, the same of the
  catch-up after a reconnection, fails (`messages_catchup`): that query has no
  condition on `clearedAt`, although "every read path that serves message content"
  is said to have one, so a client that was offline during the clear on another
  device gets the cleared messages again.
- `RetryOnce`, "a retried send returns the existing message instead of writing a
  second one", fails: the retry over HTTP reaches an implementation that neither
  looks for the `clientId` nor stores it (`messages_retry`).
- `OneDmPerPair`: two first contacts do not each create a conversation, also when
  the lock was lost - unless they ran on different instances and one of them ran
  without the lock or outlived it.
- `KeepsPromise`: RedisLock implements UserLock. `CallsServed`: every call ends,
  also behind a key that nobody will release.
- `ConnectedIsOnline`, `GoneShowsOffline`: lost updates of the record, timers of
  several instances and sockets that come and go are repaired in the end. The first
  holds from the next heartbeat that is stored, once Redis answers again. The second
  has two exceptions: a disconnect handled inside its own connect (`overtaken`), and
  an error of Redis or the end of an instance after the record was last stored
  (`missed`): whoever is gone then stays online until the record expires, and no
  one broadcasts that they left.
- `OversubscriptionBounded`: the people too many are those whose inserting
  statements overlapped; stale reads earlier in the handler do not matter.
  `NeverOversubscribed`, which the comment promises, fails (`activities_full`).
- `RevokedStaysOut`: somebody revoked while outside a private activity does not
  get in, whatever the host invites again. `ClosedStaysClosed`: a cancelled,
  declined or expired invitation is never recorded as accepted, however late the
  answer. `OutcomeKept`: no settlement and no job, run twice or late, replaces the
  outcome a notification shows by another; a new invitation resets it, and the list
  of notifications writes over it whatever it made of the invitation (section 5).
  `UnansweredExpires`: nothing stays pending once the activity has begun.

**Bounds.** `Sid` bounds the rows ever created (an id is never reused); `InOrder`
takes `Last` last, `OneLogin` restricts the longer chain to one login and to a
provider that answers. Three rows
are the presented one, its successor and the re-minted one, four a chain with a
second rotation. Two concurrent requests and the atomic sign-outs beside them
produce every pair of racing statements; the proofs (section 4) remove these
bounds for what they cover. `MaxSessions` and `MaxJoins` bound matches and queue
entries: one match is enough for what is said of one row, and in `Duo` the third
person stays out (`Away`); `Race` allows a second match and one person to come
back, so that a stale candidate list can meet a new entry. In it
nobody accepts, as only declined and timed-out matches
lead back to the queue soon, and nothing in `claimPair` looks at a chat.
A handler at a bound (`AtBound`) goes on as if its statement had failed.
`MaxIssues` 2 is a code and a reissue or a delete and a new row; `MaxAttempts` 2
(5 in the code) is the smallest that tells the last attempt from the first, and
the proofs cover every value of both. `Bounds` leaves the codes of the college
address one failed guess. Two college addresses and three sign-in addresses are
the old one, the new one and one of the other request. `Ttl` 2 of the guard is a
time before the deadline and one at it. Three people of a community are the
owner, a successor and somebody else. Two deletion processes are a worker whose lease
ended and the one that took over, or a worker and a request; of the three at once
the theorems of section 4 speak, which have any number. `Ttl` 2 and `MaxRun` 0 of the lock
let a waiter poll once before half the ttl is over and it goes on without the
lock; on a slow day (`slow`) functions run for any time. The two callers of one
instance are alike but for their names: `MC_Services` lets the first go first. One message, sent twice,
gives two rows of `Message`, and three stamps (`MaxClock`) are a message, a clear
and a message or a departure after it. Two sockets on any of two instances are
what overwrites each other; each is connected once, and any call of theirs may fail. `MaxMembers` 2 leaves the
activity one free seat.

**Fairness.** Only `FairSpec` and the conjunctions `Fairness` have any. Handlers
keep running (`WF` of `Run`, of the calls of the lock, of presence's handlers): an
async function that is scheduled continues. Clocks advance (`WF` of the deadline
actions and of `Tick`). A connected client sends its heartbeat, and a timer that
is armed runs. The sweeps run on timers of their own, so that traffic cannot keep
them from a row for ever: `SF`, because a row may stop being eligible for a
moment. For deletion, a worker does not die *before its claim* every time
(`SF` of a claim that is possible); it may die after it every time, which is what
the attempt counter is for. The sweep of started activities does not die between
its read and its write every time. No user is assumed to do anything.

## 4. What is proved

Every safety invariant and every action property that a passing run checks is
also a theorem, for every value of the constants, with the exceptions the property
itself names. The assumptions are the named
ones of the modules: `None` is no id and `NoAddr` no address; `MaxSessions`,
`MaxJoins`, `MaxIssues`, `MaxRun`, `MaxClock` and the guard's `Ttl` are natural
numbers; `MaxAttempts`, `MaxMembers` and the lock's `Ttl` are positive; `Outages`
is a Boolean; there is an e-mail address; the users of a community and the people
and processes of an activity are finite sets, and an activity has a process.

| Theorem | Statement |
|---|---|
| `InstantMatchProofs!TypeCorrect` | `Spec => []TypeOK` |
| `InstantMatchProofs!AgreedOnce` | `Spec => []OneAgreedConversation` |
| `InstantMatchProofs!EntryPairedOnce` | `Spec => []EntryUsedOnce` |
| `InstantMatchProofs!ResolutionIsFinal` | `Spec => ResolvedIsFinal` |
| `InstantMatchProofs!EndingIsFinal` | `Spec => EndedChatStaysEnded` |
| `InstantMatchProofs!LifeKept` | `Spec => KeepsToLife`, the refinement of `MatchLife` |
| `UserSessionProofs!TypeCorrect` | `Spec => []TypeOK` |
| `UserSessionProofs!SignOutIsFinal` | `Spec => []SignOutHolds` |
| `UserSessionProofs!RevocationIsFinal` | `Spec => ReasonIsFinal` |
| `UserSessionProofs!OneTokenWins` | `Spec => []OneLiveToken` |
| `UserOtpProofs!TypeCorrect` | `Spec => []TypeOK` |
| `UserOtpProofs!GuessesAreBounded` | `Spec => []GuessBudget` |
| `UserOtpProofs!AcceptancesAreBounded` | `Spec => []OneAcceptancePerIssue` |
| `UserOtpProofs!InvalidateIsFinal` | `Spec => WithdrawnStaysOut` |
| `UserOtpProofs!CampusImplementsOtp` | `CampusSpec => Spec`: the affiliation uses codes as `UserOtp` does |
| `UserOtpProofs!CampusTypeCorrect` | `CampusSpec => []CampusTypeOK` |
| `UserOtpProofs!AddressWasProven` | `CampusSpec => []OnlyProvenAddress` |
| `UserOtpProofs!RevocationStays` | `CampusSpec => []RevocationHolds` |
| `UserOtpProofs!MirrorKept` | `CampusSpec => []MirrorAgrees` |
| `AccountDeletionProofs!TypeCorrect` | `Spec => []TypeOK` |
| `AccountDeletionProofs!PurgedStaysDeleted` | `Spec => []NoPurgedShell` |
| `AccountDeletionProofs!WindowStaysOpen` | `Spec => []WindowIsRecoverable` |
| `AccountDeletionProofs!SweepErasesOnlyDue` | `Spec => SweepKeepsWindow` |
| `CommunitiesProofs!TypeCorrect`, `CounterCorrect`, `OwnerCorrect` | `Spec => []TypeOK`, `[]CountMatches`, `[]OwnerRules` |
| `CommunitiesProofs!AnswerIsFinal` | `Spec => AnsweredOnce` |
| `ActivitiesProofs!TypeCorrect` | `Spec => []TypeOK` |
| `ActivitiesProofs!SeatsAreBounded` | `Spec => []OversubscriptionBounded` |
| `ActivitiesProofs!RevocationIsTotal` | `Spec => []RevokedStaysOut` |
| `ActivitiesProofs!ClosedIsFinal` | `Spec => ClosedStaysClosed` |
| `ActivitiesProofs!OutcomeIsFinal` | `Spec => OutcomeKept` |
| `ServicesProofs!TypeCorrect` | `Spec => []TypeOK`, of the lock |
| `ServicesProofs!LockKeepsPromise` | `Spec => KeepsPromise`, the refinement of `UserLock` |
| `ServicesProofs!OneConversation` | `ContactSpec => []OneDmPerPair` |
| `ServicesProofs!ServicesTypeCorrect` | `ServicesSpec => []ServicesTypeOK`, with `Presence` and `Activities` |
| `ServicesProofs!ServicesKeepPromise` | `ServicesSpec => KeepsPromise /\ []OneDmPerPair` |
| `ServicesProofs!GoneNoticed` | `ServicesSpec => []Connections!GoneIsNoticed`, of `Presence` |
| `RowsProofs!RowsTypeCorrect` | `RowsSpec => []RowsTypeOK` |
| `RowsProofs!StoresKept` | `RowsSpec => []StoresAgree` |
| `RowsProofs!RevocationReachesAll` | `RowsSpec => []StaleAtMostTtl` |
| `RowsProofs!CounterKept`, `OwnerKept` | `RowsSpec => []CountMatches`, `[]OwnerRules` |
| `RowsProofs!ClearedStaysHidden` | `RowsSpec => []HiddenForGood` |

*Matches.* That a session gets one conversation needs to know who may give it one.
An accept *owns* a session from its claim until it has stored or rolled back
(`OwnerInv`: no two own the same), and while it is owned the session is ACCEPTED,
agreed by both, without a conversation, and `opened` says whether the owner has
created one (`HandlerInv`). A conversation that was created for a session fixes it
in ACCEPTED, so no later claim is possible (`RowInv`), even when the owner dies
between the two writes. The same ownership gives the two action properties: the
only step that writes `chat` back to ACTIVE is the owner's, of a session that has
no conversation yet, so nothing that ended is opened again. For `LifeKept` each
write of a session row is shown to be one step of `MatchLife` for that match and
none for the others (`EventLife`); it needs `PairInv`, by which a search looks for
somebody else and only the two who are asked answer. `EntryUsedOnce` counts
the sessions of a user: a pair takes the first free row, to which nothing refers,
and removes both entries in the same step; every other step keeps the set of a
user's sessions and never adds an entry without counting it.

*Codes.* A bound on a counter is not inductive: a step may increase it, and what
stops it is in the row. `IInv` counts what the row still allows. `BudgetInv`: the
comparisons made and the attempts left do not exceed `MaxAttempts * issued`; a
reissue adds `MaxAttempts` to both sides, a delete only takes away. `UseInv` is
the same for acceptances. `IdInv` orders withdrawn codes before the row's id and
the id before its code, also in the record a request has read: a submission whose
row was deleted cannot match the id of a later row.

*The college address.* That the composition drives the codes as `UserOtp` allows is
a step simulation (`CampusIsOtp`): each action of the affiliation conjoins one of
the codes, or leaves them alone. So the invariants of the codes hold there too, and
with them `CodeInv`: what a request may still redeem, and what was accepted, has the
number of a code that was issued, for which `target` knows the address. `BoundInv`
carries that over to the request: whoever checks or writes an address redeemed a
code sent to it, whatever was issued since (`ProvenStays`). `BarInv`: since a
revocation nobody stands between the check and the write, or `crossed` says so.
`ClearInv`: a removal or release that has still to clear the mirror (`Unlocked`) left
no row, or `torn` says so.

*The sign-in address.* `HalfInv`: at most one change stands between the two stores
(`Halfway`), the provider has the address of that one, every other request has read
the address the row still has, and when nobody stands there the stores agree.

*Sessions.* "No live row is known" is not inductive: a losing rotation creates a
live successor before it finds out that it lost. `ClosedInv` says what these are
(`OrphansOnly`): no client knows them, no row points at them, and the only
request that holds them is on its way to drop them; and that no request of the
family stands in a window. It rests on `MintedInv` (ids are used once),
`PointerInv` (a row and its successor are of one family), `ReqInv` (what a request
remembers agrees with the table) and `OwnNext` (two requests never share a
created row). Each conjunct has its lemma, one case per action. `OneTokenWins` looks
at the *tips* of a family: the live rows that a client knows, a row points at, or a
request that has won holds, which leaves out the orphans of lost races. `TipInv`: a
family without an undo has one tip, or one recovery that has retired it and not yet
created the next. A claim and a recovery hand the tip on, a restore takes its
family out of the account (`UndoneTip`); every other step makes none.
`RevocationIsFinal` needs that only revoked rows have a reason, and that a new row
takes an id never used before.

*Deletion.* `NoPurgedShell` and `WindowIsRecoverable` rest on `RouteInv`: a process
stands in a route of an administrator only where the route is used, and a request
for deletion has seen an account that was not deleted. That the sweep erases only
what is due needs more, as a claim is one statement and the purge another, and a
lease may end in between. `SweepInv`: the account a worker holds is due until it
is purged; and while a recovery is under way there is at most one holder, whose
claim is fresh, so that nobody takes it over and comes back with a claim from
before the recovery.

*The lock.* Two facts make "running one at a time on an instance" inductive. The
pending calls of an instance stand in a line (`ChainInv`): there is a numbering in
which each follows the call it waits for and the tail is the last, and only a call
that waits for nobody is active; two active calls would have the same number. And
until the lock is degraded a call whose function runs owns the key (`KeyInv`).
With them every step of `RedisLock` is a step of `UserLock` or changes nothing
that `UserLock` sees; without a client every call runs bare, and the lock is degraded
from the first. `OneConversation` composes: the steps of `FirstContact` leave
the lock's invariant alone, and `ContactInv` says that a call which runs and has
found no conversation shares its instance with no call that has created one, and
that there is none anywhere until the lock is degraded.

*The guard.* `AgeInv`: if an answer that allows is kept, or on its way to be
kept, while the row no longer allows, then the time the answer has left and the
time since the change together do not exceed `Ttl`. When the change is `Ttl` old
nothing is left of it, and a request that is still about to be answered with such
an answer has looked for that long itself.

*Presence.* `GoneIsNoticed`, which no run lists, is the half of `GoneShowsOffline`
that needs no fairness: while nobody is connected and the user is shown online, a handler, a
timer or a timer's last write is pending, unless a call to Redis failed or an
instance died since a record was last stored (`missed`). What else could lose it is a
disconnect that finds no record, because then it arms nothing. `NoneYet`: without a
record, and with nothing missed, whoever is connected, or has a leaving still to be
read, has a connect still to be written;
`LateConnect`: only a disconnect that overtook its own connect leaves an unfinished
connect behind, and `overtaken` says so; `LeavesRecord`: nobody writes an absent
record back.

*Communities.* `PlanInv`: what a handler planned is still permitted by the roles
of now (nobody plans to remove or demote the owner), as long as the owner has not
been handed on meanwhile. The count is a cardinality: each transaction adds or
takes away one member exactly when it creates or deletes one row. `DoorInv`: nobody has
planned to walk into a private community, so that whoever enters one does it by
the transaction that accepts a request.

*Activities.* The bound on the seats counts the members together with the people
whose inserting transaction is still open (`Incoming`, one person per request by
`SingleInv`). Only the step that counts the rows lets somebody in; it saw room for
one, and at most `widest` insertions overlap. `NoteInv`: what a settlement is
about to write was read as PENDING, and is written only if the row is still so; a
copy that somebody else, the list included, has written meanwhile is known to be
stale. So `OutcomeKept` leaves the repair of the list as the one writer that looks at
nothing. `BarInv` says why
a revoked person stays out: the activity is PRIVATE, the invitation is revoked, and
no request under way stands past the check that would let them in (`Harmless`);
`RevokedInv` ties the record of who was revoked to the rows.

*What was cleared.* `ClearedInv`: for a user none of whose clears overlapped, the
row has the time of the latest one, and a clear under way is alone and has a later
time. Reviving, leaving and entering write other columns.

*The compositions.* A step of `MC_Rows` or `MC_Services` is a step of the component
in focus and a stutter of the others, so the behaviours of the composition are
behaviours of each component (`RowsIsGuard`, `RowsIsEmail`, `RowsIsChat`,
`RowsIsCommunity`, `ServicesIsContact`, `ServicesIsPresence`, `ServicesIsActivity`),
and what is proved of a component holds there. `CommunitiesProofs` and
`ActivitiesProofs` are instantiated for this, and `SameCommunity` and
`SameInvitations` say that the two instances of a component are one. The codes are
the exception: two components of `MC_Rows` use them, so their invariant is carried
over the steps of both (`CodesInv`).

*Only model-checked,* as liveness under fairness and `ENABLED` are out of the
prover's reach: `MatchResolved`, `ChatTornDown`, `PurgedOrParked`, `CallsServed`,
`ConnectedIsOnline`, `GoneShowsOffline` and `UnansweredExpires`. There are no recursive definitions in these modules.

## 5. Known races

Reading and modelling turned up more places where a check and a write are
separate and no run shows it; each that matters is a hazard in `PROJECT.json` or an
exception named in a property above.

*Sessions and the client*

- *Undo* (`user-session.service.ts:345`): a sign-out between the look at the
  successor and the restore is undone for the presented token. `raced` counts it.
- *Sign out the others* (`user-session.service.ts:643`): the row to spare is the
  one the guard saw; when the caller's own refresh rotates it first, the caller is
  signed out with the rest.
- *A swallowed failure* (`user-session.service.ts:604`): `revokeFamily` logs a
  failed update, and the route answers that the device is signed out.
- *Two tabs* (`frontend/src/core/api/transport.js:322`): the single flight of a
  renewal is per tab, the cookie jar is not; the older of two responses can be
  stored last, and its token is then a replay.
- *Guard* (`jwt.guard.ts:133`): the comment says a failed lookup is remembered as
  ACTIVE; the code remembers nothing and refuses. The account status is the other
  way round (`:776`): a failed lookup lets the request in (`late`, "blind").

*Instant Match*

- *Two live chats* (`instant-match.service.ts:1054`): two matches of one person
  can both be accepted while neither has published its chat.
- *A leave that is overwritten* (`instant-match.service.ts:1120`): `chatStatus` is
  ACTIVE before there is a chat; leaving then is undone by the final update.
- *A chat never torn down* (`instant-match.service.ts:1785`): the failure of the
  closing transaction is swallowed after `chatStatus` left ACTIVE, and the sweep
  selects ACTIVE rows only, whatever the comment at 1748 says of a retry.
- *A message after the end* (`instant-match.service.ts:1913`): the look at the
  chat and the write of the message are separate.

*Codes and addresses*

- *Old codes* (`user-otp.service.ts:323`): a submission that read the row before a
  reissue is accepted with the old code, and one code can be accepted on both
  sides of a reissue, which resets `consumedAt`.
- *Cooldown* (`user-otp.service.ts:435`): two requests both pass it.
- *Revocation undone* (`campus-affiliation.service.ts:314` and `:319`): the upsert
  writes `revokedAt: null`, so that a revocation between the read and the upsert
  is lost; `remove` deletes a row that was revoked since its read, and nothing
  then stands against verifying again.
- *Mirror* (`campus-affiliation.service.ts:408` and `:485`): a removal, or an
  administrator's reset, that found no row clears the mirror of one stored in between.
- *Sign-in address* (`account-email.service.ts:237`): two overlapping changes, a
  provider that did it and answers an error, or a compensation that fails leave
  provider and row apart.

*Deletion and communities*

- *Suspend and restore* (`admin-users.service.ts:183` and `:261`): both decide from
  a read and write by id. A deletion requested in between becomes a suspension; an
  account purged in between comes back empty (the exception of `NoPurgedShell`).
- *memberCount* (`account-deletion.purge.service.ts:562`): the purge deletes
  memberships and leaves the counter; the repair at boot that creates the owner's
  row does not count it.
- *Hand-over* (`communities.service.ts:2137`): a handler that read the old owner
  can remove the new one or give back a role.
- *A second request* (`communities.service.ts:1287`): the upsert of a join request
  puts one that was accepted meanwhile back to PENDING.

*Activities and presence*

- *Answers overwritten* (`activities.service.ts:253`): the sweep expires by id what
  it read as pending, also an invitation that was accepted since; `:347` ends an
  activity that was cancelled since.
- *The list decides last* (`notifications.service.ts:650`): "an activity ending must
  not turn an ACCEPTED row back into EXPIRED" (`:981`), and the compare-and-swap of a
  settlement keeps to that. The list does not: it writes by id what the invitation
  row says, and that row was made EXPIRED by the sweep above, or CANCELLED by a
  revocation after the answer (`activities.service.ts:3215`). It can also write what
  has become stale between its reads and its write.
- *Invited again*: `createMany` skips an existing row, so somebody who declined or
  was cancelled is notified of an invitation that cannot be answered.
- *Presence* (`presence.service.ts:224`): a heartbeat during the timer leaves the
  record online and the last broadcast offline, until the next change; a
  disconnect handled before its connect has written leaves the person online until
  the record expires.
- *Presence without Redis* (`presence.service.ts:200`, `:254`, `:302`): the errors are
  swallowed and nothing tries again, and a timer dies with its instance; the next
  heartbeat repairs it, and nothing does for somebody who is gone (`missed`).

*Messages*

- *Not revived* (`messages.service.ts:429`): a message over the socket skips the
  participants who deleted the conversation, which new activity over HTTP revives
  for them (`core/messaging-core.service.ts:296` and `:543`).
- *Two clears* (`core/messaging-core.service.ts:1368`): each writes the time it took
  at its beginning, so the earlier one may be written last (`lapped`).
- *Two sends* (`schema.prisma:605`): over the socket, two copies of a message may
  both look before either writes; `clientId` has no unique constraint.
- *Group chats*: accepting a join request resets the role of somebody who is a
  member already (`messages.service.ts:2531`); a former owner can keep the role, a
  group can have two owners, or be closed with a member in it.

## 6. Not modelled, and why

Hashes, cookies, device names, rate limits and wording are data no property
depends on. The parts of the inventory marked `not_modelled` are either planned
below or hold no concurrency of their own (single-row updates under a unique
constraint, queries, forms). That is most of the code by lines: the feeds, the
ranking of posts, the user interface and the back office are queries and screens.
The purge transaction is one step over the row: which tables it empties is a list
(only what it does to communities is in a module), and the media it queues after
its commit belongs to the uploads module. A statement that Prisma rejects ends the
handler. Where the code catches the error and a variable here depends on what it does
then, the model has the branch: the failures of a match, of a settlement, of the
provider, of a purge, of the guard's lookups, of the lock's release and of presence.
Not modelled are the swallowed failures around them (announcements, caches, push
registrations, read marks) and that of `revokeFamily`, named in section 5. The schema is
`backend/prisma/schema.prisma`; only the columns that the handlers test are kept.
Of group chats only the membership is modelled, as what a member is shown depends
on it: every invariant one would state of their owners is already broken by the
races of section 5.

## 7. What is left

1. Messages: unread counters against reads and deletions; a message against the
   end of a match's chat.
2. `SessionClient`: tabs, the shared cookie jar, the single-flight refresh of
   `transport.js`, composed with `UserSession`: which responses lead to a burnt
   family.
3. Uploads and their clean-up; push registrations against sign-out; campus events
   and their idempotency keys.
4. An abstract specification of the codes: a one-time token that `UserOtp`
   implements.
5. Proofs: the refinement of 4; for presence, what the record may say between a
   lost update and the next heartbeat.
