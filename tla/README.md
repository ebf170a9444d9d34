# A formal model of QueueBuzz

QueueBuzz is a Go backend for virtual queues: a host opens a queue, guests join
it from their phones, the host calls them one after the other. Its state lives
in two databases that share no transaction, MongoDB (documents) and Redis
(order, counters, timers, locks, caches, pub/sub), and is changed by HTTP
handlers, by background jobs, by a listener of expired Redis keys, by a
periodic sweeper and by the payment provider's webhooks, all at the same time.
This directory holds TLA+ modules of that concurrency, TLC configurations that
check them, and TLAPS proofs.

## Inventory

| Component | State | Operations | Interacts with | Module |
|---|---|---|---|---|
| Queue session (`modules/queue`) | queue document, `queue_entries`, sorted set of positions, ticket counter, `rehydrated:` sentinel, `call_next` lock | join, add entry, call next, call one guest, serve, skip, leave, pause, resume, terminate, status reads that rebuild the line | everything below | `QueueSession` |
| Guest presence (`modules/customer`) | entry status, `idle_timer:` and `grace_timer:` keys | arrived, still here, finish, leave | key expiry listener | `QueueSession` |
| Key expiry listener (`jobs/rdb_key_space.go`) | Redis pub/sub subscription | idle timer: IDLE and grace timer; grace timer: WAITING | entries, timers, streams | `QueueSession`, `Streams` |
| Queue sweeper (`service/expiry.go`) | none | find ACTIVE queues past `expires_at`; expire, delete keys, skip or delete entries, delete anonymous queues | queue, entries, plan, the TTL index on `expires_at` | `QueueSession` |
| Queue creation, quota, history (`queue/http`, `queue/service`) | create lock, join codes, slugs, monthly count, four caches | create, end, sweep, resume, delete, delete in bulk, clear, list, detail, dashboard | billing, entries | `HostQueues` |
| Billing (`modules/billing`) | subscription document, tier, billing records, plan cache, `webhook:` and `checkout:` keys | webhooks, checkout, trial, cancellation, reads that expire the grace, reminder job | provider, host, queues | `Billing` |
| Server-sent events (`internal/sse`), notifiers and jobs (`queue/jobs`) | subscribers, slots of latest values, event channels, Redis pub/sub, job channels | subscribe, publish, deliver, drain, unsubscribe, shutdown | every handler that changes the line | `Streams`, `Mailbox` |
| Accounts and tokens (`modules/auth`, `modules/host`, `services`) | host documents, magic links, refresh tokens, anonymous host's token | sign in by link or provider, refresh, log out, claim, change the slug, delete | e-mail, queues | `Accounts` |
| Joining and recovery (`modules/customer/service`) | `lock:join:` keys, sessions, `recovery_email_sent_at`, recovery tokens | join under the lock, duplicate checks, guests added by the host, update, recover, rejoin | entries, e-mail | `Accounts` |
| E-mail job (`services/email`) | bounded channel, retries | dispatch, send, retry, give up | accounts, guests | `Accounts` |
| Shutdown (`app`) | phase, wait groups | drain, close streams, cancel, wait; exit of the process, which waits for none of these | streams, jobs | `Streams` |
| Load shedding, push, storage, settings, analytics pipelines | external services, read models | | | not modelled |

What is hard in this code:

- a handler is several commands on two databases; another actor may run between
  any two of them, and the process may stop there;
- timers are Redis keys; their expiry reaches the listener as a message, some
  time later, at most once;
- locks have a lifetime shorter than the sum of the timeouts under them;
- Redis may lose its data; the line and the counter are rebuilt lazily;
- caches are filled by reads that may cross the invalidation of a change;
- webhooks come late, twice and out of order, and their key is set first;
- channels are bounded, senders and closers race, and shutdown runs in a
  goroutine that the process does not wait for;
- errors are often ignored, so that a failed read decides like an empty result.

`PROJECT.json` lists each hazard at its line with the properties that would
catch it.

## How the modules are written

Each module is one component over all of its concurrent requests. A request is
a record in `req` with an operation and the next command (`pc`); one action is
one command on MongoDB or Redis together with the local computation up to the
next one, so that every interleaving the databases can see is a behaviour. In
`HostQueues` and `Accounts` the commands of each operation are a table,
`Steps`, and an action is guarded by the command that it models; a failed
command has no effect, and `CommandFails` says what each handler makes of it.

The modules share no variables. They meet where one calls the other, and each
models its own side: `QueueSession` has the guest limit as a constant that
`Billing` decides about; the monthly counter is reset in `HostQueues` when
`Billing` processes a payment; entries change in `Accounts` as `QueueSession`
lets them (`EntryChanges`); handlers of `QueueSession` are, in `Streams`, the
calls that they make after their change.

Some races and failures the code lets pass. Where one of them makes a property
fail, the model records that it happened in a history variable, and the
property speaks of the rest: `disturbed` (`Billing`), `faults` (`Streams`),
`lapsed`, `stray`, `drift`, `stale` and the field `unchecked` (`HostQueues`),
`loose` and `unmailed` (`Accounts`). The action that raises a flag names the
race, so the flags are a list of what the code does not protect; see "Limits".

### QueueSession

One queue, its guests (`Entries`), slots for concurrent requests
(`Requests`), the listener and the sweeper.

| Code | Actions |
|---|---|
| `JoinByQueueID`, `AddEntry`, `GuestCapacityGuard`, `JoinQueue`, `CreateEntryForQueue` | `StartJoin`, `StartAddEntry`, `Count`, `Admit`, `HasCounter`, `ReadLastTicket`, `SetTicketCounter`, `NextTicket`, `InsertEntry`, `AddToQueue` |
| `GetWaitingCount`, `GetPosition`, `rehydrateQueue` | `StartStatus`, `Count`, `RehydrateSentinel`, `RehydrateFind`, `RehydrateAdd` |
| `CallEntry`, `CallNextUser` | `StartCallNext`, `CheckStrict`, `ReadPositions`, `PickWaiting`, `MarkCalled`, `StartIdleTimer`, `ReleaseLock`; `CallEntry` |
| `finishUserSession` | `FinishUserSession`, `RemoveFromQueue`, `TallyServed` |
| `MarkArrived`, `ConfirmStillHere` | `StartArrived`, `StartConfirm`, `ClearIdleTimer`, `ClearGraceTimer` |
| `PauseQueue`, `ResumeQueue`, `TerminateQueue` | the same, `StartTerminate`, `CloseQueue`, `SkipEntries`, `TerminateDeleteKeys` |
| `HandleExpiredKey` | `HandleIdleExpiry`, `StartGraceTimer`, `HandleGraceExpiry` |
| `SweepExpiredQueues`, `expireQueue` | `SweepFind`, `ExpireRead`, `ExpireMark`, `ExpireDeleteKeys`, `ExpireEntries`, `ExpireDrop` |
| time, the TTL index, Redis | `QueueTimePasses`, `QueueTtl`, `IdleTimerFires`, `GraceTimerFires`, `PositionsExpire`, `CounterExpires`, `SentinelExpires`, `LockExpires`, `RedisLoss` |
| errors after the retries of `internal/redis/retry.go` | `CommandFails`, `ListenerFails`, `SweeperFails`, `OrFailed` |

Most handlers give up after a failed command; the capacity and strict checks go
on as if there were nobody, `ensureTicketCounter` takes 0 for the last ticket,
`expireQueue` ignores every error and takes an unreadable plan for a free one
and an unreadable queue for an anonymous one.

The TTL index on `expires_at` (`indexes.go`) removes the document of a queue past
its expiry, whatever its status and whenever MongoDB's monitor comes by:
`QueueTtl`. It leaves the entries. The sweeper may have found the queue before;
`expireQueue` then reads no document, takes the queue for one without a host
(`hostless`) and deletes what it finds of it. A lookup of the last ticket sorts
strings and reads four digits (`Readable`), which is the last ticket up to 9999.

Abstractions: the score of an entry is its creation time, and creation times
are distinct; the clock read is part of the insert; reading an entry before
finishing its visit is merged with the update; a queue has manual positioning
off; strict mode is a constant, because the host's PATCH that changes it is not
modelled; every guest is a different person (the duplicate check is in
`Accounts`); the token of an anonymous host survives a loss of Redis (the code
stores it again on the next request before `expires_at`). What handlers publish
is in `Streams`, the caches of the history in `HostQueues`.

### Billing

One host, the payment provider (external: what it sells and which events it
sends is modelled from how `billing/provider/dodo.go` and the handlers use it),
the subscription document and everything derived from it.

| Code | Actions |
|---|---|
| provider (external) | `Purchase`, `Activate`, `Renew`, `PaymentFails`, `EndSubscription`, with `Emit` |
| `HandleWebhook`, `ProcessBillingEvent` | `Receive`, `InvalidatePlan`, `Route`, `Answer`, `ReceiveFails` |
| `HandlePaymentSucceeded` | `InsertRecord`, `UpsertSubscription`, `SetTier`, `ExtendQueues` |
| `HandleFailedPayment`, `HandleSubscriptionStateUpdate`, `HandleSubscriptionUpdated`, `HandleCancellation` | `StartGrace`, `UpdateState`, `UpdateMetadata`, `CancelSubscription` |
| `GetSubscription`, `GetHostPlan` | `StartSubscription`, `StartPlan`, `FindSubscription`, `ExpireGrace`, `Downgrade`, `FillCache` |
| `SyncSubscriptionDetails` | `ReadDetails`, `SyncDetails` |
| `CancelSubscriptionAtPeriodEnd` | `StartCancel`, `CancelAtProvider`, `MarkAtEnd`, `DropCache` |
| `GetCheckoutURL`, `CreateCheckoutURL` | `StartCheckout`, `LookupSubscription`, `CreateSession`, `ReleaseCheckout` |
| `RunRenewalReminders` | `FindExpiring`, `SendReminder`, `MarkReminded`, `JobFails` |
| time, errors | `GraceEnds`, `PeriodEndNears`, `CacheExpires`, `CheckoutKeyExpires`, `WebhookCommandFails`, `RequestCommandFails` |

A tier stands for its plan; a webhook's id is its place in `sent`; the amounts,
cards and invoices of an event are left out. The provider keeps a webhook in
`due` until it is answered 200 and may deliver it twice at a time.

### Streams and Mailbox

The event streams of one queue in one server process, from the request that
changes the line to the frame that a client receives. `line` is the version of
the sorted set, a count is the version that was counted. A cached status counts
only who is WAITING: when somebody in the line is not (`allWaiting`), which calls,
status changes and timers decide, its count is `Fewer`, a number that no version
of the line has. What is published at the end of a queue is left out. Counts coalesce in a
slot of the subscriber (`latest`, `signal`), events are queued (`fifo`).

| Code | Actions |
|---|---|
| handlers after their change | `StartRequest`, `DispatchEvent`, `DispatchCall`, `DispatchPosition`, `InvalidateSnapshot` |
| `PositionJob`, `HostNotifierJob`, `Caller`, sweeper, key space listener | `TakePosition`, `TakeEvent`, `Sweep`, `TimerExpires`, `CountLine`, `Notify` |
| `Broker.Publish`, `PublishLocal`, `startPubSubListener` | `Publish`, `PublishFails`, `Receive`, `LinkDrops`, `Reconnect` |
| `Subscriber.Send` | `StoreLatest`, `SignalWriter`, `SendEvent` |
| `PublicEvents`, `ServeHTTP`, `DrainLatest`, the deferred unsubscribe | `Connect`, `Subscribe`, `SendSnapshot`, `TakeSignal`, `DrainLatest`, `TakeEventFrame`, `StreamEnds`, `WriteFails`, `Unsubscribe` |
| `GetPublicStatus` with its cached snapshot | `ReadStatus`, `FillSnapshot`, `SnapshotExpires` |
| `NotificationJob` | `Notify`, `ClosePool`, `WorkerTakes`, `WorkerDone` |
| `listenForShutdown`, `Container.Shutdown` | `StopServing`, `BrokerShutdown`, `CancelContext`, `JobExits` |
| `Start`, `main`: the process exits when `Listen` has returned | `StopProcess` |

The broker's read lock is held while a message has subscribers left (`todo`);
`ReadLocked` blocks whoever needs the write lock. `Mailbox` is the abstract
specification: what a stream promises for a coalescing count, without senders,
signal, mutex or process. `StreamIsMailbox` is `Box!Spec` under the mapping
`open` = the writer has not left its loop and the process has not stopped, `box` = the slot, `shown` = what the
client has received last. What is put into a closed subscriber that is not yet
unsubscribed maps to a stutter or a `Put`; both `DrainLatest` on an empty slot
and the signal are invisible.

### HostQueues

The queues of one registered host across all of its requests.

| Code | Steps and actions |
|---|---|
| `CreateQueueGuard`, `Create` | `AcquireLock`, `CheckActive`, `CheckQuota`, `GenerateCode`, `InsertQueue`, `InsertCollides`, `IncrementCount`, then the invalidations and `ReleaseLock` |
| `TerminateQueue`, `expireQueue` | `EndQueue`, `DropViews`, `ReleaseCodes`, `CleanExpired`, `FindKeys`, `DeleteKeys`, `DropSummary` |
| `DeleteQueue`, `DeleteQueuesBulk` | `FindQueues`, `DeleteEntries`, `DeleteQueues`, `ReleaseCodes`, `ReadHost`, `DecrementCount`, the invalidations, `DropDetails` |
| `ClearHostHistory`, `CleanOrphanedEntries` | as above, with `FindOrphans`, `PurgeOrphans` |
| `GetHistoryList`, `GetHistoryDetail`, `GetDashboard` | `ReadQueues`, `ReadSummary`, `FillSummary`, `FillList`, `ReadDetail`, `FillDetail`, `FillDashboard` |
| a guest's join, seen from here | `ResolveQueue`, `InsertEntry` |
| `ResumeQueue`, `ExtendActiveQueuesExpiry`, the TTL index, `ResetMonthlyLimits` | `Reopen`, `Ttl`, `MonthEnds`, `ResetCount` |
| time, errors, the process | `PassExpiry`, `LockLapses`, `LockExpires`, `ViewExpires`, `DetailExpires`, `CommandFails`, `Crash` |

`entries` says of which queues some entry is stored; a cached view is the set
of queues it shows; a code is a model value whose Redis key and whose unique
index are both modelled.

### Accounts

Who people are. One e-mail address, one slug, one anonymous queue and one
browser of a host stand for all.

| Code | Actions |
|---|---|
| `Authenticate`, `Verify`, `VerifyMagicLink` | `CheckAuthMethod`, `StoreLink`, `MailLink`, `GetLink`, `DeleteLink` |
| `FindOrCreateHost`, `FindOrCreateHostBySocial` | `FindIdent`, `FindEmail`, `LinkIdent`, `InsertHost`, `Refind`, `Greet` |
| `RefreshTokenPair`, `IssueTokenPair`, `Logout` | `GetToken`, `DeleteToken`, `IssueToken`, `Answer` |
| `UpdateHost`, `DeleteMe`, `DeleteHost` | `SlugFree`, `SetSlug`, `ReadMe`, `Farewell`, `DropQueues`, `DropHost` |
| `HostOwnerMiddleware`, `Claim` | `AnonOwner`, `Claimer`, `GetQueue`, `ClaimQueue`, `ForgetAnonHost`, `AnonQueue`, `ReSync` |
| `JoinQueue` | `AcquireJoinLock`, `CheckDuplicate`, `InsertEntry`, `SetSession`, `ReleaseJoinLock` |
| `AddEntry` of the host | `AddEntry` |
| `UpdateEntry`, `SessionExists` | `SessionKnown`, `UpdateEntry` |
| `DispatchRecoveryEmail`, `RecoverByToken`, `RejoinByID` | `MarkRecovery`, `GenerateToken`, `MailToken`, `UnmarkRecovery`, `GetRecoveryToken`, `ClaimToken`, `Rejoin` |
| `EmailJob` | `Post`, `TakeLetter`, `LetterSent`, `LetterFails`, `Retry` |
| time, errors, the process | `LockLapses`, `KeyExpires`, `CommandFails`, `Crash` |

What the social provider answers is an input, an identity with an address that
is verified or not. A letter is remembered with what has become of it. An entry
has an e-mail address, a phone number or both; a guest changes any of them, and
only one who joined herself has a session to do it with (`joined`).

The modules named `MC...` extend these for TLC; `MCQueueSession` defines the
symmetry of guests and requests, used in runs without temporal properties.

## Runs

| Run | Instance | Shows |
|---|---|---|
| `session_life` | 2 guests, 1 request | `TypeOK`, `NoGuestForgotten`, `TicketsUnique` through joins, calls, presence, both timers, pause, terminate and reopening |
| `session_drain` | 1 guest, 2 requests, expiry | `EndedQueueDrained`, with calls, arrivals, both timers, sweeper and TTL index against the end and the reopening of the queue |
| `session_call` | 2 guests, 2 requests, strict mode | `CallNextExclusive`, `StrictOneCalled` |
| `session_contention` | 3 guests, 2 requests, limit 1, lock may expire | `CapacityOvershootBounded`, `LockTakenOnlyByOwner` |
| `session_failures` | 1 guest, 1 request, failures, one Redis loss, anonymous host, expiry | `NoUnknownInLine` |
| `session_progress` | 2 guests, 1 request, fairness | `CalledGuestMovesOn`, `IdleGuestMovesOn`, `ExpiredQueueCloses` |
| `billing` | 1 paid plan, 3 webhooks, 2 at a time, every request | `BilledOnce`, `SettledAgrees`, `RemindedOnce`, `WebhooksAnswered`, `CacheConverges` |
| `stream` | 1 client, 1 request, every channel of capacity 1 | `NoSendOnClosed`, `NoLostWakeup`, `SettledShows`, `EventsInOrder`, `ClientCatchesUp`, and the refinement `StreamIsMailbox` |
| `host_queues` | 2 queues, 3 codes, 2 requests, limit 1 | `OneLiveQueue`, `CountAgrees`, `QuotaHeld`, `NoOrphans`, `CachesAgree`, `DeletedDisappears` |
| `accounts` | 3 hosts, 2 identities, 2 links, 4 tokens, 2 entries, 2 requests | `SessionsSound`, `ClaimSound`, `HeldOnce`, `RecoverySound`, `LettersSettle` |
| `finding_ticket_race` | 2 concurrent joins | two guests with one ticket |
| `finding_guests_kept` | anonymous queue, expiry, fair sweeper | the TTL index removes the queue first, and its entries stay (`AnonymousErased`) |

`TypeOK` of its module is an invariant of each of `session_life`, `billing`,
`stream`, `host_queues` and `accounts`.

### Bounds

In the session runs two guests are what order, strict mode and duplicate
tickets need; the third in `session_contention` is the one that must be
refused. One guest is enough for `session_drain`: whether an ended queue leaves a
guest unfinished is a question about that guest. Two requests are what a race needs. `MaxEvents` bounds the messages
under way to the listener: 1 where only safety is checked, and 2, one per guest,
in `session_progress`, where a full channel would otherwise disable a timer.
`MaxTickets` bounds joins that start after the counter is reset, `MaxServed`
the served counter, `MaxLosses` wipes of Redis.

In `billing` three webhooks are a purchase with its activation and one event
after it, or a failed payment and a cancellation, in every order; `MaxTurns`
= 2 bounds what is not a webhook: requests of the host, ends of a period,
expiring keys, failing commands.

`stream`, `host_queues` and `accounts` have `Scenarios`: each behaviour draws
its requests, faults and events from one of the sets, any interleaving of at
most `MaxTurns` of them, 3 in `host_queues` and `accounts`, 2 in the streams,
where opening a stream, a sweep and the expiry of the cache take no turn and
`MaxLine` bounds the changes of the line. A turn is a whole request or one
event, not a step, so turns are requests of any length that interleave and a
fault, timeout, expiry or crash anywhere among them. The sets pair the
operations that write or read the same data; joint behaviour of operations that
share nothing adds states and no case. The channels of capacity 1 are full after
one message, and `WireCap` = 1 keeps one message under way in Redis. The single
client of `stream` is enough for what a subscriber promises: subscribers share
only the read lock, which one of them already contends for. The proofs below do
not depend on any of these bounds.

`CHECK_DEADLOCK FALSE` where it is said: a queue that has ended and whose
clients stay away, a behaviour whose turns are used up and a process that has
stopped have nothing left to do.

### Fairness

Nothing is assumed of clients, hosts, payments, the passing of periods, or
failures. What is assumed:

- `QueueSession`: weak fairness of the commands of a request that has started
  (a goroutine runs to its end), of the listener and of the sweeper (they loop
  until shutdown) and of the expiry of each timer. `session_progress` leaves
  out commands that fail and Redis losses: a message that is lost is not sent
  again and no sweep looks for CALLED or IDLE guests.
- `Billing`: weak fairness of each slot's handler, of the delivery of each
  webhook that is due (the provider retries) and of the plan cache's TTL.
- `Streams`: while the process runs, weak fairness of requests, jobs, writers and
  the listener's reconnection. Nothing is assumed of the shutdown: the process
  may exit at any moment after it has begun.
- `HostQueues`: weak fairness of handlers and of the TTLs of the caches.
- `Accounts`: weak fairness of the e-mail worker, of sending and of the retry
  after its pause.

## Limits of the code the model shows

`PROJECT.json` has the findings with the lines that contradict each other. The
two `finding_` runs show those that a trace explains best; the others are read
off an action, or off the flag that it raises. Further limits, which the
passing runs stay within or their properties leave out:

Queue session.
- The capacity check reads before the join inserts: with two requests a queue
  for one guest admits two. `CapacityOvershootBounded` is what remains.
- `TerminateQueue` skips entries only if it found some before closing; a join
  under way then inserts a WAITING guest into the closed queue
  (against `EndedQueueLeavesNobody`). `EndedQueueDrained` says that
  this is the only way: it is about behaviours in which nobody is joining while
  the queue is terminated or expired (`ClosesAlone`).
- A queue that is PAUSED at its expiry is not swept. The TTL index removes its
  document, and its guests' entries stay as they are; the same happens to an
  ACTIVE queue when the index is quicker than the sweeper
  (`finding_guests_kept`). `ExpiredQueueCloses` is about ACTIVE queues.
- A queue whose document is gone is anonymous to `expireQueue`: the entries of a
  paying host are then deleted too, without any command failing.
- A join that reads the length after the queue was closed counts no guests, and
  `Admit` refuses a guest only by the clock: a terminated queue then takes
  guests beyond its limit.
- The lock lives 3 s; when it expires under its holder, a second call-next runs
  and strict mode may have two called guests.
- Calling one guest (`CallEntry`) takes no lock, ignores strict mode and sets no
  timer: who is called so and does nothing stays CALLED. `CalledGuestMovesOn` is
  about the guests whom call-next called, also if the host then calls them by id.
- `MarkArrived` and the listener race: IDLE written between the update and
  `ClearGraceTimer` loses its grace timer and the guest stays IDLE. So
  `session_progress` leaves presence checks out.
- A timer that outlives its visit makes a served guest IDLE, and
  `ConfirmStillHere` writes WAITING whatever the status was. `FinishedIsFinal`
  states the opposite and no run checks it.
- After a loss of Redis a guest who joins before the line is rebuilt makes it
  non-empty, and the other guests are not added again; IDLE guests never are.
- A read of the last ticket that fails counts as 0, and tickets start over. Beyond
  `Q-9999` the order of strings and the four digits that are read find a ticket
  that is not the last one.
- An entry that was stored and whose position could not be added is never called,
  and nothing adds it while the line is not empty.

Billing (`disturbed`). Webhooks are not ordered: one that overtakes an earlier
one of its subscription leaves document, tier and queues as the older event
wrote them. One whose handler failed is never processed again, because its key
stays. A request that read the subscription before a webhook changed it writes
what it had read. `SyncSubscriptionDetails` stores the provider's spelling of a
status. The host has one document, whichever of its subscriptions an event is
about, so `SettledAgrees` speaks of a host who has had one subscription.

Streams (`faults`). A message published while the listener was disconnected is
lost; a count that was overtaken by a newer one is shown after it; a stream that
begins with a cached count misses the ones between (`stale`); the position job
drops this queue when other queues fill its channel. A stream that begins with a
cached count begins with the number of WAITING guests, while every broadcast
has the length of the line (`miscounted`). In each case only the next broadcast
repairs the screen, the sweeper's at the latest (`ClientCatchesUp`). The process
does not wait for its shutdown: `SettledShows` is about a process that runs, and
the tasks in the notification job's pool are lost when it exits first
(`StopProcess`).

HostQueues. The creation lock of 10 s may lapse, and the check for a live queue
and the check of the quota let the creation pass when they fail: such a queue is
`unchecked`, as is one that was resumed after its end or extended after its
expiry. The month's count drifts (`drift`) when a command that counts fails, the
month or the process ends before it, the queue it is about to count is deleted
first, a queue is deleted twice at a time, or the lock lapses before it, because
the next creation then reads a count without it. A join that crossed a deletion, and the TTL index, leave entries
without a queue (`stray`). A read that crossed a change fills the cache with
what it had read (`stale`); only the TTL of up to seven days removes it.

Accounts (`loose`). Two requests that follow one link, or refresh with one
token, at the same time both succeed; a token that could not be deleted stays
valid; two accounts that change to one slug at the same time both get it; the
same guest with e-mail and phone joins under two different locks; the duplicate
check does not count guests who have arrived; a guest whom the host adds, or who
changes her contacts, is not checked at all; one whose visit is over comes back
when a timer writes her entry by id; a claim that
crosses the deletion of the account leaves a queue of nobody; the anonymous
host's request that crosses the claim stores its token again.

## Proofs

The theorems hold for every number of guests, queues, plans, clients, slots and
tokens and every value of the other constants, under the named assumption of
each module (finite sets where one is counted, natural bounds, distinct null
values). In each module `IInv` is an inductive strengthening: `Invariance` is
`Spec => []IInv`, from one lemma per action or group of similar actions, and
the listed theorems follow from it.

`QueueSession_proofs`.
- `TypeCorrect`. `TypeOK` is not inductive: `AddToQueue` puts `req[r].e` into
  the sorted set, and only the path of the handler says that the request has a
  guest. `IInv` adds that each request is at a command of its own operation
  (`Coherent`).
- `LockOwnership`: `LockTakenOnlyByOwner`, without conditions, also when locks
  expire, commands fail and Redis is wiped. Of all commands of a request only
  `ReleaseLock` writes the lock, and it compares the owner.
- `LineKnown`: `NoUnknownInLine`, without conditions. `KnownInv` adds that what
  requests remember (`ids`, and the guest of a request at `zadd`) is stored.
- `NobodyForgotten`: `NoGuestForgotten` while commands succeed and Redis keeps
  its data (`Reliable`), in every behaviour in which the host reopens no queue
  that has ended (`NotReopened`; an open one may be paused and resumed).
  `LineInv` speaks of all live statuses, not only WAITING, because any of them
  may become WAITING; of a guest being removed, who is in `finished` before the
  position is deleted; and of a queue being closed, whose keys are deleted only
  after its status.
- `CallNextAlone`: `CallNextExclusive` while the lock neither expires nor is
  wiped (`LockHolds`), whatever commands fail: a request in call-next owns the
  lock (`CallsLocked`).
- `StrictModeHolds`: `StrictOneCalled` if moreover commands succeed and no guest
  is called individually (`CallsChecked`), and no queue that has ended is
  reopened. `StrictInv` adds that nobody is CALLED once a call-next has passed
  the check.

`Joining_proofs`: what a join, which is a sequence of commands, cannot break.
- `TicketsStayUnique`: `TicketsUnique` while commands succeed and three things do
  not happen, which the theorem has as hypotheses on the behaviour because the
  code lets them happen: a second request that numbers guests while one is
  setting the counter (`NumberingUndisturbed`; `finding_ticket_race` is it), the
  loss of the counter between the check for it and `INCR` (`CounterKept`), and a
  ticket of more than four digits when the last one is read back
  (`LastTicketReadable`). So there is no fourth way, for any number of joins,
  expiries, terminations and losses of Redis. `TicketInv` says that a counter that exists is beyond every
  ticket stored or drawn, and that what is about to be set is too.
- `CapacityIsBounded`: `CapacityOvershootBounded` for any limit and any number of
  guests and requests, while commands succeed, Redis keeps its data and nobody
  terminates the queue. The count of a join may be too low: the line is read
  empty and rebuilt without the guests who are IDLE. `RoomInv` bounds everybody
  whose visit goes on together with the joins that have counted few enough
  (`Passing`): by `LineInv` a guest who is not counted is the guest of a request
  in flight, unless the queue has ended, and a queue that is never terminated
  ends by the clock (`ExpiryInv`), which `Admit` looks at.
- `EndedQueueIsDrained`: `EndedQueueDrained` while commands succeed, in every
  behaviour in which nobody is joining while the host terminates the queue or
  the sweeper expires it (`ClosesAlone`); Redis may be wiped, the queue reopened
  and terminated twice at a time, and its document removed. `DrainInv` says that a queue that is over is
  drained or has a request or the sweeper about to skip whom is left, and that a
  termination that found nobody has nobody to skip, because who ends up live
  again after that (a late timer, a presence check) has finished already.

`Billing_proofs`.
- `PaymentsBilledOnce`: `BilledOnce`. A webhook that is processed has its key
  and is processed in one slot (`WebhooksKeyed`); what was billed has its key,
  and what is processed up to the record has none yet (`BilledByKey`).
  Deliveries, retries after a 500 and failures may come in any order.
- `PeriodsRemindedOnce`: `RemindedOnce`. `RemindersMarked` says of undisturbed
  behaviours that the job sends only what was not sent, that what was sent is
  marked once the job is idle, and that nobody who has read the document of a
  cancelled subscription is about to write it back.
- `StoredAgrees`: `SettledAgrees`. It speaks only of moments when all webhooks are
  answered; `SettleInv` speaks of every one that nothing disturbed. There is a
  history of the provider's subscription, one phase before the first event and
  after each (`History`; `Leads` says which event leads from which phase to
  which), and a position in it: the document has the phase at the position, and
  the event that is being processed is the next one until the webhook has
  written it. The status alone may be of a later phase, because GET subscription
  copies it from the provider, which is ahead of its webhooks (`DocumentAt`). A
  request that is about to end a grace period, or to take the tier for it, has the
  position on hold (`ReaderBehind`).
- `TypeCorrect` needs that slots are at a command of their operation
  (`SlotsCoherent`) and that every event, request and document names a plan
  that was sold (`EventsSold`, `RequestsSold`, `DocumentSold`).

`Streams_proofs`.
- `SendsAreSafe`: `NoSendOnClosed`. A subscriber in the broker's set is open
  (`SubsOpen`), and whoever a message is still to be sent to is in the set
  while the read lock is held (`SendersLocked`), which keeps `Unsubscribe` and
  `BrokerShutdown` out.
- `WakeupsAreKept`: `NoLostWakeup`, for any number of senders: the slot is
  filled before the signal is set, and drained after it is taken.
- `StreamImplementsMailbox`: every step of `Streams` is a step of `Mailbox` or
  leaves its variables alone, if there is a client; this is the safety part of
  `StreamIsMailbox`. It needs `FreshStreams` (a stream that is off has an
  empty slot) and `CountsPositive` (a published count is not 0).

`Events_proofs`.
- `EventsReachClientsInOrder`: `EventsInOrder`, without conditions. An event
  goes through five places: the channel of its job, the job, the wire, the
  listener, and the channel of each subscriber with what the client has got.
  `OrderInv` says that the events of a job are in order in each place and that
  no later place holds a later event; a step moves an event on by one place, or
  loses it. It speaks of behaviours in which no publication has failed, since
  the local delivery that follows a failure overtakes what is on the wire.
- `SettledStreamsShow`: `SettledShows`, with no condition beyond its own (the
  process runs, no fault happened, everything is quiet). "Quiet" is no induction hypothesis, so `Shows`
  speaks of every moment of a process that serves: the line is *announced* (a
  request is about to dispatch the position, the job has been given it, or a
  job counts or publishes the line as it is), or *told* (the published version is
  the line, and the last count on the wire, or the one the listener is about
  to send to a stream, or the one in its slot, or the one it shows, is the line,
  in this order). A publication of an old version does no harm, because what
  made it old is still announced; one that overtakes a newer is a fault.

`HostQueues_proofs`.
- `OneQueueIsLive`: `OneLiveQueue` with any number of creations, lapsing locks,
  crashes and failures. A creation past `lock` owns it until it lapses
  (`LockOwned`), and one past the check, which was not blind, has no open queue
  beside it (`NoneOpen`).
- `DeletionLeavesNoOrphans`: `NoOrphans`. A deletion that comes to the
  documents has removed the entries of all it is about to delete, or they are
  `stray` (`EntriesRemoved`).
- `CachesAreRight`: `CachesAgree`. A view that is wrong has a request before it
  that will delete it (`SummaryDropped`, `KeysDropped`): whatever a scan of the
  keys has found stays found. `CreatesOwn` and `DetailsKnown` say that a queue
  no view shows is new.
- `TypeCorrect`.

`Quota_proofs`.
- `CountIsRight` and `QuotaIsHeld`: `CountAgrees` and `QuotaHeld`, for any number
  of queues and concurrent requests and any limit. The month's count changes
  after the documents: `MonthInv` keeps book of the creation that is yet to add
  its queue and of the deletions that are yet to take theirs, which are disjoint
  (`Once`) and have been counted (`Takes`), so that the count is the number of
  queues that are due (`CountsDue`) at every moment. `Room` says that a creation
  past the check that still has its lock leaves room for its queue.

`Accounts_proofs`. The invariant has one part per resource, and each part needs
no other than the types; a lemma says of each command which variables it keeps
(`HandlerKeeps`) and of each move of a request how far it goes (`HandlerMoves`),
so that a part is touched by few commands.
- `SessionsAreSound`: `SessionsSound`. For links, one that was accepted and is
  live has a request about to delete it, or is `loose` (`LinksSpent`). For
  sessions that no race has touched (`SessionsRotate`): at most one token is
  live and one request rotates it; from the DEL to the next token none is; the
  browser, and a request that logs out with an older token, have the live one
  or its successor is under way, so a logout leaves nothing. `TokensPrivate`
  says that a token not yet answered is with its request only.
- `ClaimIsSound`: `ClaimSound`. Who is about to delete the account no longer
  has the queue, and who is about to store the anonymous token has seen the
  queue anonymous (`QueueOwned`).
- `ContactsHeldOnce`: `HeldOnce`, over all guests in the queue, also those who have
  arrived or were added by the host. A join past `lock` owns it, and what it has
  counted is still so, or the join is marked by whoever changed it
  (`GuestsApart`): `AddEntry` and `EntryChanges` take no lock. `SlugApart` likewise.
  That a guest comes back to the queue needs four turns to clash with another:
  the run at its bound does not reach that case, the theorem covers it.
- `RecoveryIsSound`: `RecoverySound`. Of an entry that is marked there is a
  letter or one request that will post it or take the mark back
  (`RecoveryMarked`).
- `TypeCorrect`. A request knows the host, link or entry that its next command
  needs (`Known`), and every token stored, sent or in the browser belongs to a
  session (`SessionsRooted`).

Only model-checked: the temporal properties (liveness and `ENABLED` are out of
the prover's reach), hence also the fairness part of `StreamIsMailbox`. Every
invariant and every action property of the passing runs is a theorem.

## Not modelled

- One-time passwords: no handler calls the service. Stateless recovery tokens
  have no state to model; see the findings.
- The exchange with Google and Apple and the OAuth state: one read and one
  delete around calls to the provider. What it answers is an input of
  `Accounts`.
- What a host changes of a queue while it runs (PATCH), manual positioning, the
  other fields of a profile or an entry, images.
- Load shedding (a counting semaphore with a deferred release) and rate limits
  (a library): one guard each.
- FCM, web push, object storage, settings and configuration: I/O with external
  services. Templates of e-mails, address validation, the blocklist.
- The aggregation pipelines of history, dashboard and analytics: they read
  only, and what they compute is MongoDB's; their caches are in `HostQueues`.
- The number of a ticket has at most nine digits in `Beginnings`.
- What the end of a queue publishes to its streams.
