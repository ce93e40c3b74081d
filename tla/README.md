# Student Marketplace: a formal model

TLA+ specifications of the back end of Student Marketplace (NestJS, TypeORM,
PostgreSQL), the TLC runs that check them on small instances, and proofs of
their central properties for instances of any size. Source paths below are
relative to `src/src/`; `PROJECT.json` gives, for every definition that stands
for code, the lines it stands for.

## 1. The system

Students put listings ("posts") on display, talk to each other about them, sell
them, review each other, and may pay for a boost. Administrators moderate. All
durable state is in PostgreSQL; there may be several instances of the
application, each with in-memory socket sessions and scheduled jobs. Nearly
every hard question in this code is about transactions at READ COMMITTED: which
row locks are held, what a later statement sees that an earlier one did not,
what happens between a commit and the push that follows it.

| Component (source) | State | Operations | What makes it correct |
|---|---|---|---|
| Listing lifecycle (`modules/posts/post-lifecycle.service.ts`) | `posts`, `post_renewals` | create, restore, renewFree, renewPaid, quota | quota under concurrency; one free renewal; a payment reference renews once; deadlines move by renewal only |
| Expiry job (`modules/posts/post-expiry.service.ts`, `.scheduler.ts`) | `posts.status`, `notifications` | processBatch on every instance | overdue posts are marked at last; a notification is true, stored once, pushed at most once |
| Posts service, ranking (`modules/posts/posts.service.ts`, `listing-ranking.ts`) | `posts` | sale, removal, editing, feed, page, purchases | the sale fields agree with the status; the views agree with each other; pages neither skip nor repeat |
| Posting policy, moderation (`modules/moderation/*`, `modules/posts/*-policy.ts`) | `posting_restrictions`, `user_warnings` | ban, lift, warn, evaluate, status page | nobody barred puts a listing on display; a user is shown his own restrictions |
| Reputation warnings (`modules/moderation/reputation-warning.scheduler.ts`) | `notifications`, a flag per instance | run | a bad reputation that lasts is told, once |
| Account lifecycle (`common/account-lifecycle`) | `user.isLocked`, `deletedAt` | lock, unlock, delete | a lock is strictly before or after an activation; tokens and sockets die with the account |
| Reports (`modules/reports`) | `reports` | create; decide: dismiss, hide post, ban user | a decision stands; administrators wait in a circle for one reason only |
| Payments (`modules/payments`) | `payment_orders`, `payment_requests` | create, confirmReturn, ipn, reconcile | one answer per idempotency key; money is accounted for; outcomes come from the gateway; a charge is noticed at last |
| Promotions (`modules/posts/post-promotions.service.ts`) | `post_promotions` | adminCreate, adminCancel | boosts of a post never overlap |
| Messages, conversations (`modules/messages`, `modules/conversations`) | `messages`, `conversations` (counter, watermarks, deletion marks, version) | send, read, delete, open | gapless sequence, idempotent sending, monotone watermarks, one state per version |
| Notifications (`modules/notifications`) | `notifications` | upsert, reconcile after reading, read one, read all | the unread notification of a conversation follows its messages |
| Authentication, refresh tokens (`modules/auth`, `modules/refresh-token`) | `refresh_tokens`, `user` | login, logout, rotate, change password, clean up | revoked sessions never come back; a token has one heir |
| Password reset (`modules/auth/services/password-reset.service.ts`) | `password_reset_challenges` | request, verify, reset, clean up | one open code; guesses and mails are limited under concurrency |
| Realtime gateway, session registry (`modules/realtime`, `common/session-registry`) | sockets in memory | handshake, activation, expiry, rooms, invalidation | no socket of a locked account stays usable; every handshake and every socket ends |
| Reviews, seller statistics (`modules/reviews`) | `reviews`, `review_edit_history` | create, edit, remove | one review per sale; the history of edits is a chain |
| Favourites, categories, images and storage, profiles, mailer, authorization rules | rows of their own | create, read, update, delete | nothing concurrent beyond a unique index; not modelled |

Components meet in three places. *Rows*: activations, sales, moderation,
payments and the expiry job all lock the seller's `user` row, then the `posts`
row (the job and single-row operations take the post row only); logins,
rotations, resets and account locks take the `user` row before tokens and
challenges; a message sent from a post shares the lock of its row, then takes
the conversation's. *Calls inside one transaction*: the lifecycle asks the
activation policy, reports call the account lifecycle, payments call the
eligibility check. *After commit*: notifications, socket events and the
invalidation of sockets follow once the transaction has committed, and may be
lost with the instance.

The hazards are listed one by one, at their lines, in `PROJECT.json`.

## 2. Modules

```
PostStore        the rows, the two row locks, the database clock
 +- PostLifecycle   activation requests statement by statement; sale, removal,
 |                  hiding, account state, bans; the clock
 +- PostExpiry      the job of every instance
 +- Payments        checkout, gateway reports, reconciliation, administrators' boosts
ShopWindow       abstract: what the lifecycle promises
PostSystem       = PostLifecycle + PostExpiry; properties; implements ShopWindow
PostingStatus    PostSystem with the status of restrictions and the status page
PaymentSystem    = PostLifecycle + Payments; properties
LifecycleProofs  lemmas about PostLifecycle that both systems use
PostSystemProofs theorems about PostSystem and PostingStatus
HistoryProofs    renewals, notifications, activations, and PostSystem => ShopWindow
PaymentProofs    theorems about PaymentSystem

MessageLog       abstract: what a conversation promises its two parties
Chat             conversations, messages, message notifications; implements MessageLog
ChatProofs       theorems about Chat

Accounts         users, sessions, locking, change of password
 +- PasswordReset   codes by mail, guesses, resets
AccountSystem    = Accounts + PasswordReset; properties
AccountProofs    theorems about AccountSystem

Sockets          handshake, registry, timers, rooms, invalidation; properties
SocketProofs     theorems about Sockets

Reviews          reviews, the posts they are about, row locks with modes, reputation
 +- Desk            reports and moderation by administrators
 +- ReputationJob   warnings of every instance
 +- Listing         feed, page of a post, purchases: what they show of this state
TrustSystem      = Desk + Listing + ReputationJob; properties
TrustProofs      theorems about TrustSystem

MCPostSystem, MCPaymentSystem, MCChat, MCAccounts, MCSockets, MCTrust   for TLC
```

**PostStore.** One variable per table plus the locks. `sellerLock[s]` is the row
lock a transaction takes first (`FOR NO KEY UPDATE` on `user`), `postLock[p]` the
second (`FOR UPDATE` on `posts`). A transaction that waits for a lock is an action
that is not enabled yet. `clock` is `clock_timestamp()`; only the order of instants
matters to the code, so a tick is whatever interval separates the instants that are
compared. `publishedAt` is always `expiresAt - Lifetime` and is not kept.
`Live` is the one condition (status, deletion, deadline) under which a post is
shown and counts against the quota.

**PostLifecycle.** The three operations that put a post on display are processes
`tx[t]` that step through the statements of their transaction: `LockSeller`,
`LockPost`, `CheckPolicy`, `CountActive`, then `CommitCreate`, `CommitRestore` or
`CommitRenew`; `RestoreDormant` is the early exit of a restore that needs no
quota. `tx[t].now` is the clock the transaction read, which may be old by the
time it commits. `Rollback` may end a request at any statement: every refused
check is that, and so is a reputation block or a lost connection. A transaction
that takes a single row lock and decides on that row (`MarkSold`, `Remove`, `Hide`,
`SetAccount`, `Ban`) is one action, enabled while nobody holds the row; `Lift` is
enabled regardless, because the code locks the restriction row instead.

**PostExpiry.** `BeginBatch` takes the statement's snapshot, `LockBatch` locks
what SKIP LOCKED leaves after re-reading each row, `CommitBatch` decides by a
fresh clock, writes and stores the missing notifications, `Push` follows the commit,
`AbortBatch` is a failure or the death of the instance anywhere in between.

**PostingStatus.** `StatusAt` and `StatusSql` are the two ways in which the code
says whether a restriction is scheduled, active, expired or lifted. `StatusQuery` is
the WHERE clause of the status page as the query builder writes it: a condition given
as a string is joined with AND as it stands, and the last one contains OR.

**Payments.** A `call` is a checkout, an `ipn` (a notification or the customer's
return, which runs the same code), or the query of a reconciling instance whose
answer is settled through the same `ipn`. All lock owner, then post. `create`
ends in `Reuse` (key seen before), `Join` (an open checkout of the post) or
`OpenCheckout`; `ipn` ends in one action per outcome of its `if` chain. The
unique index on pending orders of a post is the conjunct `PendingOn(p) \subseteq
stale`: orders are marked expired by `CURRENT_TIMESTAMP`, the start of the
transaction, while open ones are found by the current time, so an order may be
neither. `queue` is the order by `updatedAt`: pairs of orders, the first
touched earlier. `Decide` is the gateway: it decides an order once, perhaps after holding it as suspect, and what it has said may be
reported any number of times, late and in any order.

**ShopWindow** is what a seller may rely on: room for `Quota` listings, filled one
at a time while the account is open, emptied at any moment, closed listings never
back. `PostSystem` implements it with `window = ActiveOf`, `closed = Closed`
and `standing` = open accounts.

**Chat.** Every change of a conversation, of its messages or of an unread message
notification is made under the lock of the conversation's row, so opening
(`OpenConversation`), reading up to a message (`MarkAsRead`), deleting
(`DeleteConversation`) and reading one notification (`MarkOneAsRead`) are one action
each, enabled while nobody holds the row. A send takes up to three locks and is a
process `send[s]`: `BeginSend` (the preflight outside the transaction, whose refusal is
kept for later), `LockKey` (the advisory lock on sender and client id, the decisive look
for a replay, then the kept refusal), `SharePost` (`FOR SHARE` on the post and the second
look at it), `LockRow` (find or create the conversation, lock it, read counter and
version), `CommitSend` (message, row, notification of the recipient, snapshots), and
`FailSend` anywhere. Reading all notifications picks the conversations before its
transaction and locks them one by one: `BeginReadAll`, `LockNext`, `CommitReadAll`,
`FailReadAll`. `wire` collects the snapshots sent after commits; it is a set that
nothing leaves, so properties of it hold for any loss, repetition and order of delivery.
`post[c]` is what a send needs to know of the post: on offer, past its deadline, or gone
(sold, hidden, removed).

**MessageLog** is what the two parties may rely on: an append-only log per conversation in
which a client id stands for one message of its sender, a mark per party that only
advances, and a party who put the conversation away until something is written in it.
`Chat` implements it with `log` = the messages in the order of their numbers (which
must therefore be 1, 2, 3, ...), `seen` = the watermarks.

**Accounts.** A session is a chain of refresh tokens (`family`): login inserts the first,
each refresh revokes one and inserts its heir. Login and rotation are transactions that
take the row of the user first (`LockUser`); locking and deleting an account revoke all
tokens in the transaction that holds the row (`RevokeAllOf`). Changing the password is
not a transaction and is five steps: `BeginChange`, `CopyUser`, `ReloadUser` and
`SaveUser` (the save of an ORM entity writes the columns that differ from the row it
loads), `FindTokens`, `RevokeFound`. Two variables are observed. `epoch` is how often all sessions of
a user have been revoked by the other ways; a token keeps the epoch of the login it descends from.
A change of the password has no such instant, because its revocation is a statement of its own beside
rotations; instead `prior` of the request are the tokens issued before the save, and `Answer` adds to
`survivors` those of them that still live when the client is told that its password is changed.

**PasswordReset.** Requests, guesses and resets are transactions under the user's row
lock. The mail goes out between two of them; `Settle` is the unlocked statement that records how that
went, after the challenge may have been replaced. `mailed` and `guesses` are observed:
what really happened, whatever the nightly job (`CleanupChallenges`) has deleted.

**Sockets.** An instance runs one callback at a time; every `await` of the handshake and of
joining a room ends an action (`Verify`, `ReadPrincipal`, `Admit`, `HandleConnection`,
`Joined`; `Ask`, `ReadAgain`, `Authorize`, `JoinRoom`, `Stay`), so timers, closing
transports and locks come in between. `Lock` commits in the database, `Invalidate` is the
call after the commit. `alarm` is the timer of a record, which has a longest delay and is
armed again.

**Reviews, Desk, ReputationJob, Listing.** Locks are a set of (who, row, mode) with the
conflicts of PostgreSQL, because at the desk the modes matter: a signature
(`resolvedById`, `issuedById`) is a foreign key and takes a share of the administrator's
own row, and `sourceReportId` takes a share of the report that a warning or a restriction
cites. Deciding a report is `EnterReport` (`Turn` at the advisory lock of the target, then the row of
the report `FOR UPDATE` and the second look at it), `LockSubject`, then `Resolve` or `Dismiss`. A warning
or a restriction begins with `Moderate`, which may cite a report that concerns its user, takes the
row of the user (`ShareTarget`, `LockPostingUser`), the share of the issuer (`Sign`) and last that of
the report (`Cite`), the order in which the migrations create the foreign keys; `SwitchLock` locks and
unlocks an account without a report. `AbortDuty` is a failure, or the database ending a deadlock.
`Waits` is the waits-for relation, for rows and for turns. An edit of a review is `LockReview` and `CommitEdit`. A run of the job pages
through the candidates (`SelectPage`), locks one and looks again (`LockCandidate`), stores
and commits (`CommitNotice`), pushes (`Push`) and may fail anywhere (`RunFails`). `Listing`
has no state: it is what feed, page and purchases compute from it, each by its own formula.

### Abstractions

* Text, prices, images, categories, signatures, amounts and reference strings are
  left out. A message of the gateway that fails a check of form, signature or amount
  changes nothing and so is not a step.
* The clocks of the instances (`new Date()`) and of the database are one clock;
  their skew is not modelled.
* `PostsService.update` writes no column of the lifecycle and is not an action.
* `renewPaidWithManager` is exported for payments; in this commit only tests call
  it. It is modelled as the service offers it.
* Who may name which buyer, and who may act as administrator, are inputs.
* In `Payments` the statements between the last lock and the commit are one
  action: they touch only rows that those locks guard (orders are reached through
  the lock of their owner and post). In a reconciliation the touch of `updatedAt` and
  the gateway's answer are one action as well; the settling of the answer is not.
* `adminCreate` reads the seller's account without a lock, in the same action as
  its other checks.
* In `Chat`, text and images are left out, and with them the comparison of a replay with
  the first message: a replay and the answer 409 both change nothing. The fast path that
  answers a replay before the preflight reads the row that the look under the lock
  finds, and is not a step of its own. Each conversation has its own post, and a post that is gone
  may come back whatever took it away, which allows more than the code. Read
  notifications are not kept. Versions and counters are numbers; the code keeps them as
  `bigint` and computes with `BigInt`. Snapshots answered over REST are read in a
  REPEATABLE READ transaction and so are the state of one commit as well.
* In `Accounts` the password itself is left out: whether a client presents the right one is a
  choice. Users exist from the start; registering adds a user without a token.
* `Sockets` does not model the restart of an instance: it ends every socket of it.
* In `Reviews` averages are exact or in tenths, as the code rounds them; the comment of
  a review is left out, and a change of it is an edit like any other.
* `PaymentSystem` starts from a stocked shop, i.e. any assignment of posts just
  created that respects the quota; how posts are created is the other system's
  business. In its runs no activation request is under way (`Txns` is empty);
  sale, hiding, removal, account locking and the deadline are.

## 3. Runs

Every run is for TLC; symmetry is used only for safety and only over sets no
property orders. Deadlock is checked in `chat`. Elsewhere it is not: the clock is
bounded and requests are optional, so a state in which nobody has anything left to do
is legitimate.

| Run | Properties | What is in it |
|---|---|---|
| `renewal` | `QuotaRespected`, `RenewalLedger` | two sellers, two posts, two requests at once, one payment reference, two cycles |
| `expiry` | `NoticeTruth`, `NoDoublePush`, `SystemInv`, `ShopContract`, `AuthorisedActivation`, `DeadlineOnlyByRenewal` | two instances, a post through reminder, expiry, renewal, sale (with or without buyer), hiding, removal; a ban in force and one scheduled; account locked, unlocked, deleted |
| `expiry_live` | `OverdueExpires`, `EndOfCycleNotified` | two posts, batch of one, an instance that may die in every step |
| `lift` | `LiftSerialised` (violated) | see Findings |
| `status` | `StatusIsOwn` (violated) | see Findings |
| `payments` | `PayInv`, `OutcomeFromGateway`, `OneAnswer`, `MoneyAccounted`, `BoostsDisjoint`, `BoostOnDisplay` | two stories: rival checkouts (two callers, keys, orders, timeouts, boosts, account lock), and one order with every outcome of the gateway beside two reconciling instances |
| `settlement` | `PaymentSettles` | two orders, batch of one, lost notifications, restarts |
| `chat` | `ConversationInv`, `NeverCollides`, `ReadIsPrefix`, `NoticeIsNewest`, `OneStatePerVersion`, `NoWaitCycle`, `WrittenOnOffer`, `LogContract` | two stories: one conversation, two requests to send (from the post or not, with the one client id, one perhaps with none), two messages, four versions, the buyer reading and deleting; two conversations of the same two users, both of whom read all, and one request to send |
| `accounts` | `AccountInv`, `NoSessionOutlivesRevocation`, `OneHeir`, `OneOpenCode`, `GuessesBounded`, `MailsBounded` | three plans for two requests of one user: sessions beside changes of the password, a reset beside sessions, and codes over a span longer than the quota's window |
| `unlock` | `OnlyUnlockUnlocks` (violated) | see Findings |
| `sockets` | `NoneEligibleOnceTold`, `SocketInv`, `HandshakeSettles`, `SocketsEnd` | two sockets of one user on one instance, tokens that last longer than a timer can |
| `trust` | `TrustInv`, `ViewsAgree`, `CirclesNeedBans`, `DecisionStands`, `WarnedOnce` | six plans: two review requests over two posts; the job on two instances with a page of one; the job while an administrator holds the row of its candidate, or locks and unlocks the account; two administrators deciding two reports about one post; two administrators acting on each other and on a third; two who act on one user, one deciding the report that the other cites |

**Plans and stories.** `accounts`, `chat`, `trust`, `payments` and `settlement` choose at the start what a
behaviour is about (`plan`, `story`): which requests take part and which surroundings
move. Each choice keeps together the actors that interact and leaves out those that
only multiply the states; in `payments` a post leaves the display in one way at most, and
the story of one order ends soon after its deadline. In `settlement` posts are sold or
stay; no fair step touches a post, so fairness is that of `FairSpec`. The theorems make no such choice: they hold for plans that let
everybody take part in everything.

**Bounds.** `MaxClock` bounds the clock, and with it the number of cycles; each run's
value lets a post pass the deadline that matters to it (and in `renewal` a second
one). Two of anything that competes is the smallest number that races: two
requests for the last place of the quota, two sellers with one reference, two
instances with one post, two keys for one checkout, two orders for a batch of one,
two tabs with one token, two guesses at one code, two administrators (either kind of circle needs no third).
In the listing runs the quota is one for each seller, so that the second of two requests
is the one too many. Tables are bounded by the sets of identifiers. In `chat`
four versions hold two messages with a read, a deletion or a reopening between and
after them. In its other story two conversations are the fewest that can be locked in opposite
orders. In `accounts` three tokens are a login and two heirs or two logins and an heir; `MaxEpoch` revokes
once, after which every later token is of a new session; the window of three ticks with a
quota of two mails fits a cooldown between any two. In `sockets` a token may last two ticks
and a timer one, so that it is armed again. In `trust` one review makes a
reputation (`MinReviews`), `MaxEdits` is two, the fewest that can chain, and `MaxFailures` lets a
run fail once.

**Fairness.** `PostSystem`: every step of a request and of an instance is weakly fair, because
statements and connections time out and the scheduler fires every minute whatever
happened before. Strong fairness of `LockBatch` and `CommitBatch` per row says that
an instance is not killed at the same point for ever. SKIP LOCKED gives a batch no
turn on a row that is held each time it looks, so both liveness properties carry the
hypothesis `LeftAlone`: from some moment on requests leave the row alone.
`PaymentSystem`: a settlement that waits for a row is strongly fair, because PostgreSQL queues
the waiters, and so is the answer to the query of each order, which is asked again
every five minutes. `PaymentSettles` has the hypothesis `Steady`: from some moment
on no instance is stopped in the middle of a settlement that has something to
record (it may be stopped between settlements, and queries may be lost, again and
again). Neither callers nor the gateway nor administrators are obliged to do
anything.
`Sockets`: callbacks that are ready and timers that are due run (`Verify`, `Admit`,
`PendingTimeout`, `ExpiryTimer`, `Tick`); nothing is asked of the database, the clients or
the network, so a handshake whose query never answers must end by its timer.
`TrustSystem`: each instance's job is strongly fair: it is scheduled every five minutes,
whatever the last run ended with, and a transaction that can commit again and again does so
at last. A request at the desk ends (weak fairness of its steps, of which `AbortDuty` is always
possible), since statements time out and the database breaks circles: nobody holds the row of a
candidate for ever. `WarnedOnce` has the hypothesis that the bad reputation and the open account last.

**Each property has a mutant**: a plausible bug in a definition that stands for code
(`*Unserialised`, `*Lax`, `*Untouched`, ... beside the definition it changes), under which
TLC finds that very property violated in the same run.

## 4. Findings

`lift`: `modules/posts/POST_LIFECYCLE.md:120` requires that banning, lifting a ban and
changing the quota lock the same `user` row `FOR UPDATE`. `liftPostingRestriction`
(`modules/moderation/moderation.service.ts:218-261`) locks the restriction row only, so a
ban can be lifted while an activation of the same seller is between its statements.
`AuthorisedActivation` still holds (run `expiry`): the divergence makes an
activation see the ban or not, never pass one that bars it throughout.

`status`: `getMyPostingRestrictionStatus` (`modules/moderation/moderation.service.ts:524-561`)
gives the query builder a condition with OR and without parentheses, beside the conditions on
the user and on lifted rows. AND binds closer, so the page of a user selects every permanent
restriction and every one that has not ended, of anybody, and derives `isRestricted` and
`canCreatePost` from them. `../test/e2e/posting-restriction.spec.ts:151` says that the page
"exposes only the authenticated user's status"; it looks at a user who is restricted himself and
does not see the rows of others. `getActivePostingRestrictions`, which the posting policy
uses, writes the parentheses (line 515).

`unlock`: `updatePassword` (`modules/user/user.service.ts:46-54`) reads the user, then saves
the whole row it has read with the new password. TypeORM's `save` loads the row again and
writes back every column that differs from the copy, so a lock of the account (or its
deletion) that commits between the two reads is undone. Only `unlockWithManager` is meant to
end a lock: it refuses the owner ("Admin cannot lock or unlock own account",
`common/account-lifecycle/account-lifecycle.service.ts:93`), and
`modules/authorization/policies/user.policy.ts:26` grants it to administrators only. The
tokens stay revoked (`NoSessionOutlivesRevocation` holds), but the user may log in again.

Some things the models contain and no property forbids, because the code does not prevent them:

* A login whose password was checked before a reset or a change may store its token after
  it (`modules/auth/services/auth.service.ts:149`).
* The revocation of a change of the password is one statement without the lock of the user
  (line 130): a rotation that inserts an heir between its snapshot and its writes keeps its session.
* An order that runs out while a checkout is in its transaction is neither stale nor open, and the
  unique index refuses the checkout (`modules/payments/payments.service.ts:319`). `OneAnswer` says that
  no second order and no wrong answer comes of it; it does not forbid the refusal.
* Administrators can deadlock in the two ways `CirclesNeedBans` names. It says that there are no
  others; the database ends one of the requests, which `AbortDuty` models.

## 5. Proofs

Every safety invariant, action property and refinement that a run checks is also a theorem
about the specification, for all values of the constants (the three violated claims of section 4
aside); liveness is for TLC alone.

The assumptions are those the modules declare, by name: actors of different kinds are different
(`ProcessAssumption`, `CallerAssumption`, `PartyAssumption`, `DeskAssumption`, ...), `None` and
the like are not elements of the sets, sets of rows that are counted are finite (`PostsAssumption`),
limits are natural numbers and `Sockets` has at least one instance and user. Conversations
are numbers because the code compares their identifiers. Nothing is assumed of how many there
are of anything.

| Module | Theorem | Statement |
|---|---|---|
| `PostSystemProofs` | `LifecycleInvariant` | `Spec => []LifecycleInv` |
| | `TypeCorrect`, `QuotaSafe`, `TransactionStateSafe` | `Spec => []TypeOK`, `[]QuotaRespected`, `[]TransactionState` |
| | `StatusesAgree` | `StatusSql(row, status, now) <=> StatusAt(row, now) = status` |
| `HistoryProofs` | `SystemInvariant` | `Spec => []SystemInv` |
| | `HistoryExact`, `NoticesTrue`, `NoticesPushedOnce` | `Spec => []RenewalLedger`, `[]NoticeTruth`, `[]NoDoublePush` |
| | `ActivationsAuthorised`, `DeadlinesMoveByRenewal` | `Spec => AuthorisedActivation`, `DeadlineOnlyByRenewal` |
| | `LifecycleImplementsShop` | `Spec => ShopContract`: the listings implement `ShopWindow` |
| `PaymentProofs` | `PayInvariant` | `Spec => []PayInv` |
| | `OutcomesAreTheGateways`, `BoostsNeverOverlap` | `Spec => []OutcomeFromGateway`, `[]BoostsDisjoint` |
| | `MoneyAlwaysAccounted`, `KeysAnsweredOnce` | `Spec => []MoneyAccounted`, `[]OneAnswer` |
| | `BoostsStartOnDisplay` | `Spec => BoostOnDisplay` |
| `ChatProofs` | `ChatInvariant`, `ConversationInvariant` | `Spec => []ChatInv`, `[]ConversationInv` |
| | `ConversationsTypeCorrect`, `SendsNeverCollide`, `ReadMarksAgree` | `Spec => []TypeOK`, `[]NeverCollides`, `[]ReadIsPrefix` |
| | `MessagesWrittenOnOffer` | `Spec => WrittenOnOffer` |
| | `NoticesAreNewest`, `VersionsNameStates` | `Spec => []NoticeIsNewest`, `[]OneStatePerVersion` |
| | `NoRequestsDeadlock` | `Spec => []NoWaitCycle` |
| | `ConversationsImplementLog` | `Spec => LogContract`: the conversations implement `MessageLog` |
| `AccountProofs` | `AccountInvariant` | `Spec => []AccountInv` |
| | `SessionsEndAtRevocation`, `OneHeirOnly`, `OneCodeAtATime` | `Spec => []NoSessionOutlivesRevocation`, `[]OneHeir`, `[]OneOpenCode` |
| | `GuessesStayBounded`, `MailsStayBounded` | `Spec => []GuessesBounded`, `[]MailsBounded` |
| `SocketProofs` | `SocketInvariant` | `Spec => []SocketInv` |
| | `LockedUsersGetNoEvents` | `Spec => []NoneEligibleOnceTold` |
| `TrustProofs` | `TrustInvariant` | `Spec => []TrustInv` |
| | `DecisionsStand` | `Spec => DecisionStands` |
| | `CirclesAreBans`, `PagesAgree` | `Spec => []CirclesNeedBans`, `[]ViewsAgree` |

### The listings

`QuotaRespected` is not inductive: a request counts in one step and writes in
another, and nothing in the quota itself says that the count is still good. It is good because
(`LocksHeld`) the request holds the row lock of its seller from `LockSeller` to its
end, (`RequestsOK`) its post belongs to that seller, and therefore
(`RoomHeld`) whoever is about to write holds a seller with room, and no other
request of that seller can fill it; the clock and every other operation only take
posts off display. `RenewableHeld` says the same of the post row: what a renewal has checked
is still so when it writes, because sale and moderation need the row.
The proof first classifies what any step does to the posts (`PostEffect`, lemmas `EffectTxStep`,
`EffectLifecycle`, `EffectExpiry`) and to the requests (`KeepsLocks`, lemma `RequestsMove`), then
derives each conjunct of the invariant from these two classifications.
`StatusesAgree` needs the check of the service that a restriction does not end before it begins:
without it a row would be found as scheduled and as expired.

`SystemInv` adds to `LifecycleInv` what a request has read and relies on. `CycleHeld`: the cycle
a renewal has found over, and free or not, is still that cycle at its write, so that the ledger stays
chained with a free first row (`RenewalLedger`); that no reference is used twice is the unique
index, a guard of the write. `StandingHeld`: the seller of a request stays open,
and a restriction that was not in force at the check is so, if at all, only after the clock the
request read. With it `AuthorisedActivation` is proved with the lift of
a restriction unlocked as the code has it. `NoticesOK` says that a batch speaks of posts
that exist and that what is pushed has been stored; the row locked by the
batch then makes `NoticeTruth` inductive, since a renewal of that row starts another cycle with
another key. The refinement takes each action in turn: a commit of an activation that puts a post on
display is a `Show` (there is room by `RoomHeld`), sale, removal, hiding, batch and tick
only take posts away (`Leave`), an account change is a `Standing`, and everything else stutters.

### The payments

`PayInv` follows a transaction lock by lock. `OwnerHeld`: a checkout that has passed its owner's
row still holds it (or has found the account deleted, which is for ever and makes the post
unfit), so a key found unused is unused at the write (`KeyFresh`), and receipts and answers
agree (`KeysOK`, from which `OneAnswer`). `TargetHeld`: past the post's lock the row is
still the one that was read, hence `BoostOnDisplay`, and nobody else can add a boost of the
post, hence `BoostsDisjoint`. `CallsOK`: a report under way repeats what the gateway has
said of an order that was opened; the gateway takes nothing back, hence `OutcomeFromGateway` for
any loss, delay and repetition. `Backing` ties orders and boosts to each other;
`MoneyAccounted` is `Backing` with a cardinality in place of "at most one".
`RequestsHold` is what is needed of activations: they write a post only with its
row locked, so none can change the row under a settlement.

### The conversations

That a message about to be written meets neither its number nor its client id in the
table depends on what was read several steps before. `ChatInv` says of each lock what
it keeps true: the row (`RowLocks`: the counter and version read are still the row's, and
nobody else holds it), the client id (`KeyLocks`: not used, held once), the post
(`PostLocks`: not gone). `Numbered` says that the counter is never behind the messages,
and with it `ReadIsPrefix` is inductive: a new message is beyond every watermark. Each step is one of
three kinds: it moves one request (`MoveKeeps`), it stays within what readers and
posts may touch (`Frame`, `FrameKeeps`), or it commits a message (`CommitKeeps`).

`ConversationInv` adds what the tables say of each other. `Gapless`: every number up to the
counter is one message, so that the log of the refinement is a function of the table; a commit
appends to it (`LogGrows`), nothing else changes it (`LogStays`). `NoticeIsNewest` is inductive by
following the newest unread message of each party through a commit and a read
(`CommitWrites`, `ReadWrites`, `NoticeRight`); a conversation that is not touched keeps it (`QuietKeeps`).
`OneStatePerVersion` needs that a version never passes the row's and that whatever
changes a snapshot writes the next version (`VersionsKept`, `SnapshotStays`).
Its first form in this project failed in the proof, because the model pushed a snapshot of the wrong
conversation; `Push` was corrected.

`NoWaitCycle`: a sender that holds the row waits for nothing, one that holds only the
client id waits for the row, and a reader waits only for a conversation greater than all
it holds (`LockOrder`). Somebody in a circle is a reader; following who waits for whom
from reader to reader the conversation waited for rises strictly, and among finitely many
readers one waits for the greatest (`LargestExists`, `NobodyInACircle`). The readers at work are finite
in number in every reachable state, which is part of the invariant, not an assumption.

### The accounts

A session could outlive a revocation if a rotation had found its token before and inserted the
heir afterwards. `AccountInv` excludes it by `HoldersTrue` (a request between its lock and
its end holds the row, alone) and by the epochs: an heir inherits the epoch of the token it
replaces, which must still be live under the lock. For a change of the password `ChangesRevoke` says
that the tokens issued before the save stay on record (`TokensAge`: a token that has been issued
never becomes live again) and that the revocation has found those of them that still live, so
none of them survives the answer. `CodeHeld` is what makes the count of guesses
right: the attempts a guess has read are still those of the row when it writes.
The quota of mails counts rows, while `MailsBounded` counts mails, of which a row may be deleted:
`MailsKept` says that every mail within the window still has its row (`Window <= Retention`), so
that the mails of the window are no more than the rows counted (an injection, lemmas on `Room`
and `RowsKept`), and that a request past its check has kept room.
Steps are classified as turns of one request, then by their effect on tokens, challenges and mails.

### The sockets

`NoneEligibleOnceTold` is about every point at which a handshake or a join may be suspended.
`StageOK` says what record, presence and room a socket has at each stage, and `Sealed` that once
the instance has been told, a socket of the user is not on its way to be admitted: one whose account
was read as open before has lost its pending record, and one that reads later finds the lock, which
still stands (`told` implies `locked`, because unlocking clears it). `PresenceAgrees`
compares a counter with a cardinality; that needs finitely many sockets in use, which is in `SocketInv`.

### Reviews, desk and pages

`TrustInv` has `EditsAlone` (an edit works on the rating the review has), from which
`HistoryChains` follows; `TurnsTaken` (whoever has entered decides a report that is pending, and is
the only one at its target), from which `DecisionStands` follows; and `LocksOwned` with
`DutiesFit`: each lock is one its request holds at the statement it has reached (`Holds`: the
report it decides, the row it acts on in the mode of its kind, its own row).
From the last two, `CirclesAreBans` (lemma `WaitsFor` says what whoever waits can wait for).
If somebody in the circle waits for its own row, it is banned by a member; the members that act are
each banned by one that acts, the map to the one who bans is injective on a finite set, hence onto, so
each of them bans one (`BansClose`). If nobody does, whoever is waited for has entered, and waits
for its target, or has signed, and waits for the report it cites; the former wait for the
latter, so there is one who has signed. The one it waits for decides that report and is on its way
to the target. It concerns the user that is held, and the target's row is held by somebody at the
desk, so it is a ban of that user.
`PagesAgree` rests on the rows that count being the same in both formulas (by the type
of the status), on an average of one star or more never being rounded to zero, which the SQL takes
for no rating, and on every sort key ending in the identifier of its post.

### What is not proved

Liveness is out of the reach of the prover and only model-checked: `OverdueExpires`,
`EndOfCycleNotified`, `PaymentSettles`, `HandshakeSettles`, `SocketsEnd` and `WarnedOnce`, whose
fairness is described in section 3. So are `ENABLED` (deadlock freedom as TLC checks it in
`chat`; `NoRequestsDeadlock` proves that locks are not its cause) and induction over data, which
nothing here needs: no module is recursive.

## 6. Plan

Modelling and the proofs of safety are complete for the components listed as modelled. What would
add most next:

1. The safety half of the liveness properties: that an overdue post stays a candidate of the job until
   it is marked or renewed, that an open order stays in the reach of reconciliation, that
   the timer of a handshake is armed while it is unsettled.
2. A refinement of the payments: an abstract account of one order (opened, decided once, settled
   once) that `PaymentSystem` implements.
3. The handshake against an abstract gate that admits a user only while the account is open.

## 7. Not modelled

* The gateway's adapter (`vnpay.ts`, `querydr.ts`): signing and canonicalising strings, without state.
* Favourites, categories, profiles, images: rows of one owner behind a unique index. Object
  storage and mail are input and output.
* Authorization rules: pure functions of a request; a refusal is a request that does not begin.
* Search filters, pagination of lists that only read, formatting, logging, DTO validation.
* Sockets on several instances share nothing but the database; one instance is run, and the
  socket of another instance outlives a lock until its token ends (`SocketsEnd`).
