# Verification of chain-event-platform

TLA+ models of the platform's own logic, the TLC runs that check them, and
theorems about them checked by TLAPS. Paths are relative to the repository;
`ING` is `packages/blockchain-event-ingestor/src/services`, `DIS` is
`packages/webhook-dispatcher/src/modules/dispatcher`, `API` is
`packages/admin-api/src/modules`.

## The system

The admin API keeps users, applications, chains, programs, events, webhooks and
subscriptions in PostgreSQL and publishes a signal on Redis when the configuration
changes. Instances of the **ingestor** poll the chains, match logs against the
subscriptions and append the events to one Redis stream per application.
Instances of the **dispatcher** read the streams and call the webhooks. Both
share the applications out among their instances with leases in Redis.

| Component | State | Operations | What makes it correct |
|---|---|---|---|
| App claims (`ING/app-claim.service.ts`, `DIS/app-claim.service.ts`) | claim and instance keys with TTLs; known and claimed applications, last count, timer | start, stop, claim cycle, renewal, release, join message, self-rebalance | a claim is backed by its key; one instance per application; every application is held again and again; shares become even |
| Admin rebalance (`API/ingestor`, `API/dispatcher`) | none: it reads and deletes claim keys | getInstances, rebalance | the instances survive it |
| Chain manager (`ING/chain-manager.service.ts`) | chains, subscriptions, pollers, its own copy of the claims | initialize, claimed/released handlers, refreshes, start/stop pollers, shutdown | an application is polled for if and only if it is claimed |
| Block poller, publisher, progress (`ING/block-poller`, `queue-publisher`, `app-progress`) | last processed block, subscriptions, progress per application and chain, streams | drain loop, catch-up, add/remove subscriptions, publish | no block between progress and stream is lost; duplicates only where a retry explains them |
| Queue consumer (`DIS/queue-consumer.service.ts`) | consumers; pending entries with owner, idle time and delivery count; dead letters | start/stop consumer, read, process, recover, dead-letter | a message leaves the pending list only with an outcome |
| Dispatcher and webhook caller (`DIS/dispatcher`, `webhook-caller`) | subscription cache, pending refreshes, logs | dispatch, invalidate, revalidate, call with retries | stale configuration is not used for long; attempts are bounded |
| Stream maintenance (`DIS/stream-maintenance`) | none: it trims streams | trim, remove idle consumers | nothing pending disappears silently |
| Members, applications (`API/members`, `API/applications`) | members with roles, invites | invite, accept, decline, promote, demote, remove, leave | an application keeps an owner; an invite is used once |
| Authentication (`API/auth`) | users, refresh-token blacklist | register, login, refresh, logout | one first user; a refresh token is used once |
| Configuration services (`API/chains`, `programs`, `subscriptions`, `events`, `webhooks`) | rows; signals | create, update, remove, toggle | a change reaches the services |
| Admin UI (`packages/admin-ui`) | a cache of queries, a pair of tokens, calls in flight | pages, hooks, interceptor | what was changed is shown; what is offered is allowed; a live session stays |
| Queries, demos | none of their own | – | – |

Interaction: instances meet only in Redis (keys, Pub/Sub, streams). Inside an
instance the claim service calls handlers of the chain manager or the queue
consumer, and awaits them inside its loops. What is hard: every service is a
single-threaded process whose activities interleave at awaits; timers start a
cycle although the last one runs; a Redis command may be executed though its
answer is lost; Pub/Sub loses messages; leases expire under a slow holder;
processes die between two commands; the database services check first and act
afterwards. `PROJECT.json` lists these hazards at their lines.

## Modules

| Module | What it is |
|---|---|
| `Lease` | Abstract specification: a lease service, what the claim keys promise whatever happens |
| `AppClaim` | `AppClaimService` of N instances, with the admin rebalance, Redis expiry and faults; its properties; the refinement mapping to `Lease` |
| `MCAppClaim` | `AppClaim` for TLC: symmetry of the model values |
| `AppClaimProofs` | Theorems about `AppClaim` |
| `Delivery` | Abstract specification: at-least-once delivery, why a message may be let go of |
| `Deliver` | The dispatcher's consume loops over a stream and its group, the subscription cache, calls and logs, trimming; the mapping to `Delivery` |
| `Ingest` | Chain manager, block pollers, publisher and progress of one chain |
| `Accounts` | Registration, applications, members and invites, statement by statement |
| `Configuration` | The operations of the admin API as data: guards, lookups, commits, cascades, signals |
| `Screens` | The admin UI as data: functions, hooks with their keys and invalidations, pages with what they mount and offer |
| `Console` | A browser with the UI, its cache and its tokens, over `Configuration`, with an ingestor that listens |
| `MCDeliver`, `MCIngest`, `MCAccounts`, `MCConsole` | The same for TLC |
| `DeliverProofs` | Theorems about `Deliver`: its types, the refinement of `Delivery`, the logs |
| `DispatchProofs` | Theorems about `Deliver`: first dispatches, the cache (extends `DeliverProofs`) |
| `DeadLetterProofs` | Theorems about `Deliver`: what was tried before a message was given up (extends `DispatchProofs`) |
| `IngestProofs`, `AccountsProofs`, `ConsoleProofs` | Theorems about the module they are named for |
| `ScreenProofs` | Theorems about `Console` that rest on what each operation, hook and page says (extends `ConsoleProofs`) |

`Ingest` takes the claims as `AppClaim` leaves them (free, or some instance's) and `Deliver` takes
the calls of its claim handlers (start and stop a consumer) likewise; `Deliver` begins where the events of
`Ingest` end, in a stream. `Console` reads the configuration the way the ingestor does and leaves what follows
from it to `Ingest`.

### AppClaim

*Grain.* A Node process runs undisturbed between two awaits. An activity that
awaits is a **task** of an instance: the first cycle and the rest of `start()`
(`"start"`), the cycles of the timer (one per `Slot`, so `|Slot|` bounds how many
overlap), the one rebalance `isRebalancing` allows (`"rebalance"`), and `stop()`.
A task's record says which command or handlers it awaits (`pc`), for which
application, which applications its loop has still to visit or has visited
(`todo`), and the claim target or the excess (`quota`). One action is the
execution of the awaited command with the code that follows up to the next await.
Reading the answer later matters for a release only: the key is gone before the
instance knows it, and somebody can take it. So a release has three steps: `Release`
(the script runs), `Released` (the answer arrives; `Detach` forgets the claim and
calls the handlers) and `OnReleased` (the handlers end). SET NX, the renewal and the reads
are one step: their answer changes only what the instance believes, and the delay between execution
and answer shortens a lease by less than an interval.

*State and code.* `holder` and `ttl` are the value and the TTL of the claim
keys, `heartbeat` the TTL of the instance keys, `inbox` the join messages on
their way, `known`, `claimed` and `lastCount` are `knownAppIds`, `claimedAppIds` and
`lastKnownInstanceCount`, `timer` is the interval timer, `processing` what the handlers started: the
consumers of the dispatcher, the subscriptions in the ingestor's pollers.
`StartsAtOnce` tells the two services apart: the dispatcher's handler starts
the consumer before its first await, the ingestor's adds subscriptions as the last thing, after it
has read the progress and caught up. JavaScript's loops over a `Set` visit what is
added behind them, so the renewal and stop loops keep what they have visited and
look at the live set. Which application comes next, and which of several equal TTLs goes first, is left open.

*Merged or left out.* Registering and subscribing are one step (`Start`), and so
are publishing the join message and setting the timer (`Publish`). The initial list
of applications is complete at the start; the dispatcher's is fetched in the
background, and the time before it arrives is covered by `SetKnownApps` with an
empty set. Sets are in no order, SCAN is atomic, the TTL of a key in the list of
a rebalance is read in one step (a pipeline). A process that exits comes back
with the same identifier and empty memory.

*Time.* A `Tick` is one claim interval. Unless `"late"` is among the disturbances,
it waits until everything that started in the interval has ended. `LeaseTtl` is in
intervals: 30 s / 5 s = 6 by default, and 2 in the runs: the smallest lease that
survives one renewal per interval, and every way to expire is reachable with it.

*Seen while modelling, not covered by a property.* `stop()` clears the timer (`ING/app-claim.service.ts:153`) and does
not wait for the cycle in flight, which can set a key after the loop over the claims (`:159`); "all claims released"
(`:169`) is then logged over a key that stays for a lease.

*Disturbances.* Nobody is bound to stop, crash, lose a message or fail; each of
these is an action that `Disturbance` allows and `MaxDisturbances` bounds: `stop` (SIGTERM),
`crash`, `lose` (a join message), `error` (a command is rejected; it may have been
executed), `disconnect` (the client gives up after three reconnects, `:58`), `apps` (the
list of applications changes), `admin` (the admin rebalance), `late` (a cycle outlasts its interval).

### Deliver

*State.* `stream`, `lastRead` and `pel` are the entries, the last-delivered id and the pending
entries list of one application's stream; `letters` its dead letters. `loop[i][s]` is a consume loop: its `pc` names the
command or call it awaits, `batch`, `cursor` and `handled` are the locals of `recoverPendingMessages`, `redo`
says that it runs. `consumers[i]` is the map of the service. `stopConsumer` only takes the loop out of the map and closes
its connection, so the loop goes on with what it awaits and an instance can have two:
loops are slots. `cache` and `refresh` are the fields of `DispatcherService`, `sweep` is what
`removeIdleConsumers` has found and not removed yet, `status`, `signal` and `logs` are the database and the
signals about it.

*Code.* `Read`, `Autoclaim`, `DeliveryCount`, `Ack`, `Bury` are the commands of `queue-consumer.service.ts` with the code
behind each; `Process` is `processMessage` up to the first await of `dispatch`; `Fetch`, `Fetched`, `CreateLog`,
`Call`, `Mark` follow a dispatch through cache, log row, webhook and log update.
The retries of one call are folded into one outcome with an `attempt`; bodies, signatures and back-off are left out.

*Time.* A tick is as long as the longest dispatch (91 s by default); an entry may be claimed by others
after `MinIdle` = 2 ticks (120 s), so a first dispatch is not overtaken unless somebody is slower than the
bound. `CacheTtl` is one tick.

*Disturbances.* stop, crash, error (a command is rejected, executed or not), disconnect, malformed (an entry without
data), old (an entry is past the retention), sweep (maintenance runs), deaf (a signal is lost). `overlap`, `slow` and
`race` exist and are in no run: with `slow` a retry policy of its own outlasts the tick and
`FirstDispatchAlone` is false; with `race` a consumer reads between XINFO and DELCONSUMER
(`DIS/stream-maintenance.service.ts:160`), its entries disappear and `MessagesSettle` is false; with `overlap` two instances
consume at once, which `AppClaim` allows only when a cycle is late, and `DeadLettersWereTried` is false.

*Seen while modelling, not covered by a property.* XAUTOCLAIM takes 20 entries at once and counts a delivery for
each (`DIS/queue-consumer.service.ts:393-401`); the loop over them ends at `maxRecoveryPerCycle` (`:415`). A limit
that is no multiple of 20 so counts attempts that were never made, and a message becomes a dead letter
after fewer attempts than `README.md:523` says. The default, 100, cuts none as long as every batch but the last is full.

### Ingest

*State.* `manager[i]` is `ChainManagerService` (known applications, claims, the chain's revision, stored
subscriptions, the poller in the map), `poller[i][p]` a `BlockPollerService`: a poller that was stopped, or replaced
in the map, goes on with what it awaits, so pollers are slots. `handler[i]` is the one
`handleAppClaimed` in progress, `request[i]` a refresh from the signal to the answer of the admin API. `progress`
and `published` are the Redis keys and the streams, as the set of events `<<application, block>>` that have been written.

*Code.* `Initialize`, `Claim` with `JoinByStart`, `JoinPoller`, `SetProgress`, `CatchUpLogs`, `CatchUpPipeline` (the branches and
awaits of `handleAppClaimed`), `HandleAppReleased`, `RefreshSubscriptions`, `RefreshChains`, `FullRefresh`; `StartTarget`,
`StartMin`, `Poll`, `ProcessLogs`, `PublishEventsWithProgress` for the poller. A pipeline
executes each command or not (`"redis"`), and a single XADD may fail in one that resolves (`"drop"`).

*What the history variables excuse.* `origin` is where the first progress of an application was written.
`passed` are the blocks the poller has gone by, or has asked for, before it had the
application in its list (`ING/chain-manager.service.ts:144`, `block-poller.service.ts:386`). `leapt` are the blocks between
the first progress of an application and the position of a poller that had started when there was none, at the head of the chain
(`block-poller.service.ts:78`). `failed` are events whose error
nobody looks at (`queue-publisher.service.ts:108`). Every other block up to the progress must be in the stream.

*Left out.* Refreshes that overlap each other; signals before the subscriber starts; the legacy mode
without claims; `hasty`, a stop in the middle of `start()`, which is in no run: the failure of a poller that was
stopped while it started deletes its successor from the map (`ING/chain-manager.service.ts:439`) and
`OnlyThePollerInTheMapRuns` is false.

*Seen while modelling, not covered by a property.* The progress of an application has no fence: the late batch of a stopped
poller sets it back or forward under its successor (`ING/app-progress.service.ts:78`); what that loses is
`ingest_leapt`. A poller that is starting reports position 0 to the handler that joins it (`ING/chain-manager.service.ts:431`). `refreshSubscriptions` adds
to pollers and starts none (`:353-359`). `handleAppReleased` without a poller leaves the application in the stored
list (`:175`). A handler that fails leaves a claim without a poller until the next refresh (`ING/app-claim.service.ts:208`).

### Accounts

A request is a process in a slot; its `pc` names the next statement it awaits, and `seen` what it has read. There is no transaction in this
code, so the statements of two requests interleave. The constraints of PostgreSQL (unique email, one
membership, cascades) are in the actions. `excused` names what was done on readings that another
request had made untrue, or was left half done; each property says which. `leaveApplication` is not there: its route is
shadowed by `:memberId` (`API/members/members.controller.ts:62-80`), whose pipe answers 400, although `README.md:751` documents it.

### Configuration, Screens, Console

*Data before actions.* `Configuration` has one definition per operation of the services, a record of what the
guards ask, which rows are looked for, which commits follow in which order, and whether a signal is published.
`Screens` has one definition per function group of `lib/api`, per hook of `lib/hooks` and per page or dialog. There is one row of
every kind (`Kind`), with a status; a creation makes another one, which appears in lists only.

*Actions.* `Console` runs them. The user navigates along links that are shown, clicks what is offered, logs out and in.
A call is a query or a mutation with a `pc`; a mutation goes through `Find` (guards, lookups), `Write` (one commit at a time),
`Publish` and its answer, which invalidates. `db` is the sequence of commits and a query reads any of those between
its sending and its arrival. The rules of React Query (matching by prefix, one fetch per key, an invalidation replaces a fetch in
flight except the first one, stale after a minute) are modelled from how the hooks rely on them and are marked external.
Tokens are numbers: a pair is issued, its access token expires, its refresh token is revoked when it is
used. `Intercept` to `Rejected` are the response interceptor and `AuthService.refreshToken`.

*Left out.* Retries of a query are one answer; the expiry of refresh tokens; the Back button; the loss of a fetch that
nobody waits for any more; the unused hooks `useChain`, `useEvent`, `useWebhookLog` (the latter two call routes that do not
exist), `useUpdateProgram`, `useCumulativeStats`.

*What the properties leave out, because the code does it.* Counters of the dashboard are not invalidated by anything. A
deletion invalidates lists: the detail page of a row that is gone stays up (`Ghost`). A cascade is not invalidated (`swept`):
after a program is deleted, its subscriptions are listed for up to a minute. An
answer that was read before a commit and arrives after its invalidation stays (`slipped`). When the signal
cannot be published the request fails after its commit (`API/chains/chains.service.ts:66`).
Webhook and application changes send no signal (`silent`). The UI offers to members the creation and revocation
of API keys (the API wants an owner), to root the deletion of a chain that has programs, and to everybody the button that leaves
an application (`Misplaced`). Parallel renewals sign the user out (`overlapped`). A renewal that answers after a logout
puts its tokens back. The UI never calls the logout endpoint.

*Where a page is at rest.* `AtRest`: no call is in flight, and what the page shows of each query has come, has not failed, and
has not slipped past an invalidation. The last part matters beyond the bounds of the run. On the members page, an
invitation starts a fetch; a member is removed and the user navigates away; the invalidation finds the fetch with nobody waiting,
and its old answer is stored. Back on the page, the member is listed for up to a minute and a change of the member's role is answered
with 404. Likewise, the events of a program are cached under the program (`use-events.ts:7-9`) and are created with it only, so
a new event is a change to the list of a new program (`Changed`), not to those of the others.

## Properties and runs

For the claims: two instances everywhere; two applications except in `claim_left_behind` (one)
and `claim_revoked` (four). Two instances are enough for every race over one key, and for a share that
changes from two to one; two applications for a claim loop that stops halfway
and an excess of one. The admin rebalance keeps `ceil(applications / holders)` for each holder,
so with two holders it finds an excess only from four applications on.

| Run | Instance of the model | Checks | Result |
|---|---|---|---|
| `claim_timely` | 1 slot; stop, crash, lose, apps, two of them | `TypeOK`, `ClaimsAreBacked`, `OverlapOnlyWhileEnding` | hold (665,141 states) |
| `claim_overlap` | 2 slots; stop, crash, error, disconnect, apps, late, one of them | `TypeOK`, `ProcessesOnlyClaims`, `LeaseSpec` | hold (290,458 states) |
| `claim_live` | 1 slot, fair; crash, error, one of them | `StaleClaimNoticed`, `ApplicationsAreHeld` | hold (37,120 states) |
| `claim_revoked` | 1 slot, fair; one admin rebalance | `LeaseSpec`, `RevocationNoticed`, `RevokedIsHeldAgain` | hold (262,961 states) |
| `deliver` | 2 instances (symmetric), 1 loop each, 2 messages, stream capped at 1; two of stop, crash, error, disconnect, sweep | `TypeOK`, `FirstDispatchAlone`, `DeliveredIsLogged`, `DeliverySpec` | hold |
| `deliver_settles` | 1 instance, 2 loops, 1 message, 2 deliveries, 1 retry, 1 change of the subscription, fair; one of stop, crash, error, malformed, old, deaf | `DeadLettersWereTried`, `StaleUseIsBounded`, `MessagesSettle` | hold (161,931 states) |
| `ingest` | 1 instance, 2 pollers, 2 applications, 3 blocks in batches of 1, 1 change, fair; one of rpc, redis, drop, lose, crash, full | `TypeOK`, `NothingSkipped`, `OnlyThePollerInTheMapRuns`, `StoppedPollersEnd`, `PollersReachTheHead` | hold (522,793 states) |
| `accounts` | 3 users, 1 application, 2 invites, 2 requests at a time, 4 in all, 1 failure | `TypeOK`, `ApplicationsHaveOwners`, `OnlyTheFirstUserIsRoot`, `InvitesAdmitOnce`, `OneInviteIsPending` | hold (192,679 states) |
| `console` | root or not, owner or member, warm or cold cache, 2 start pages; two clicks or disturbances (others, fault, minute, expire), fair | `TypeOK`, `OwnChangesShow`, `CalmRequestsSucceed`, `StoredTokenLives`, `SignedOutForAReason`, `IngestorKnows`, `PagesLoad` | hold (210,633 states) |
| `claim_even_shares` | 1 slot, fair; one join message lost | `SharesBecomeEven` | violated |
| `claim_left_behind` | ingestor, 2 slots; three late intervals | `ProcessesOnlyClaims` | violated |
| `ingest_leapt` | 1 instance, 1 application, 2 pollers, 4 blocks in batches of 1, 1 change, no disturbance | `NothingLeapt` | violated |

* `ClaimsAreBacked`: with cycles that end in time, no admin and no rejected
  command, what an instance believes it has claimed is backed by its key, or its
  release is being answered. Overlapping tasks, stops, crashes and a changing list
  do not break it. With late cycles it is false, as for every lease.
* `OverlapOnlyWhileEnding`: two instances process an application only while one of them is
  being told that it has released it. It holds for the handler that starts at
  once; the ingestor's is the subject of `claim_left_behind`.
* `ProcessesOnlyClaims`: the dispatcher, whose handler starts the consumer before its
  first await, consumes for nothing it has lost, even when cycles overlap. It is
  false of the ingestor's handler: `claim_left_behind`.
* `LeaseSpec`: whatever goes wrong, a key passes from one instance to another only
  through being free; only its holder renews or deletes it, and only by a command it has
  issued; belief begins only by winning a free key. `Lease` has the requests under way (`asking`) as a variable of its
  own: without it the abstract service could not tell a release by its
  holder from a deletion by somebody else.
* `StaleClaimNoticed`, `ApplicationsAreHeld`: the recovery from what cannot be prevented.
  `RevocationNoticed` and `RevokedIsHeldAgain` are the same two for one instance and one application, which
  by the symmetry of the specification stand for all.
* `TypeOK` says more than types where the arithmetic could go wrong: the excess in `quota` is never
  negative, and a key has a TTL exactly while it exists.

* `DeliverySpec`: the dispatcher implements at-least-once delivery: a message leaves the pending list, or the stream
  unread, only when it was accepted, had nobody to go to, is a dead letter, or was beyond the retention; whatever
  is rejected, handed over or dies in between.
* `FirstDispatchAlone`: recovery overtakes no dispatch that is not itself a recovery. `DeliveredIsLogged`: what was let
  go of as delivered has its log row. `DeadLettersWereTried`: a dead letter had its attempts, but for those a
  disturbance used up.
* `StaleUseIsBounded`: an entry that is used without asking is at most `CacheTtl` older than a change, also when
  the signal is lost or a revalidation undoes an invalidation. `MessagesSettle`: no message is pending for ever.
* `NothingSkipped`: every event up to the progress of an application is in its stream, but for `passed`, `leapt` and
  `failed`.
  `OnlyThePollerInTheMapRuns`, `StoppedPollersEnd`: a poller that is taken out of the map takes no further batch.
  `PollersReachTheHead`: an error ends a poll and never the polling.
* `ApplicationsHaveOwners`, `OnlyTheFirstUserIsRoot`, `InvitesAdmitOnce`, `OneInviteIsPending`: what the services
  promise, with the interleavings that break it as the only exceptions. Two owners who demote each other, two first
  registrations, two answers to one invite do break them (`API/members/members.service.ts:115`, `:205`, `API/auth/auth.service.ts:75`).
* `OwnChangesShow`: on a page at rest every row shows what this browser's own mutations made of it.
  `CalmRequestsSucceed`: the API allows what a page at rest (`AtRest`) offers. `StoredTokenLives`, `SignedOutForAReason`: a session ends only
  after a failure, or when calls renewed its tokens side by side. `IngestorKnows`: with no signal on its way and no handler
  before its signal, the ingestor's last answer is the current one. `PagesLoad`: every call ends.

Why the bounds suffice. *deliver*: one message that is pending and one that is appended meanwhile, with a cap of
one, make every trim race; two instances make every handover; two disturbances allow one of them in
the recovery from another. *ingest*: three blocks in batches of one are a block behind, at and ahead of a handler's catch-up;
two applications share a poller whose filter changes. The second block is silent, so batches without events occur.
*accounts*: a race needs two requests; the other two prepare the state. *console*: the first click leads to any page, the
second happens there, with at most one call in flight before it (`Patience`); two renewals at once make every race
of the interceptor (`MaxRenewals`). An access token expires on a page at rest, with or without polls.

### What the violated runs show

* `SharesBecomeEven`. `selfRebalanceIfNeeded` is there "in case Pub/Sub message
  was missed" (`ING/app-claim.service.ts:186`). It compares the number of
  instances with `lastKnownInstanceCount`. In the same cycle `getClaimTarget` stores the number
  it reads (`:377`) without rebalancing. If a new instance registers between the
  two and its join message is lost, the old instance keeps everything for good.
* `ProcessesOnlyClaims`. `handleAppClaimed` adds subscriptions after its awaits.
  If the lease is lost meanwhile, another cycle has already called
  `handleAppReleased`, which found nothing to remove.
* `NothingLeapt`. Blocks "produced during this poll cycle will be picked up by the next scheduled poll invocation"
  (`ING/block-poller.service.ts:330-332`).
  `refreshChains` replaces a poller whose first batch is on its way. The successor finds no progress and starts at the head.
  The late batch writes the first progress, behind it; the next batch of the successor sets it forward, over a
  block nobody published.

### Fairness

`FairSpec` of `AppClaim` assumes weak fairness of each task (Node runs continuations, Redis
answers or rejects every command, handlers return), of timers that are due, of join messages that
are not lost, of a running admin rebalance, and of time. Nothing makes an instance start or
stop, and no fault has to happen. `disconnect` is left out of `claim_live`: after it every
cycle ends at `countInstances`, the renewals are never reached, and the
instance keeps what it believed for ever.

`FairSpec` of `Deliver`: weak fairness of each loop and of the cache's revalidation (Node runs what is ready, Redis and
the admin API answer or reject), of time, and of `StartConsumer`, which `AppClaim` justifies: an application is
held again and again (`ApplicationsAreHeld`). `FairSpec` of `Ingest`: weak fairness of each poller, handler
and refresh, that is of timers and answers; claims, signals and new blocks are not fair. `FairSpec` of `Console`: weak fairness of
the calls in flight together; neither the user nor the signal nor any failure is fair. The client of a dispatcher that gives up
reconnecting (`DIS/queue-consumer.service.ts:214-220`) leaves a consumer in the map that never reads again: `disconnect` is
therefore not among the disturbances of `deliver_settles`.

## Proofs

Each theorem is of the form `Spec => []P` (or a box of an action, or an abstract specification), for all
constants that satisfy the named assumption of the module: any finite sets of instances, applications, slots, users, any
number of messages, blocks, deliveries, calls, any capacities, any disturbances. It rests on one inductive invariant
per subject: `Init` implies it, each action keeps it (one lemma per group of actions, which says what the group
moves), and it implies the property. Proofs are by action first and by conjunct second; the lemmas about the
operators of a model (what a loop comes to after `RecoveryDone`, what a shape guarantees) come before them.

**`AppClaimProofs`** (from `AppClaimAssumption`)

* `TypeCorrect`: `Spec => []TypeOK`. The type invariant is inductive as it stands.
  The lemmas of the loops (`RenewLoopType` and its like) say that a task only ever awaits something
  well-formed; `ShareNat` and the early return of the rebalance make the excess a natural number;
  `SetKey` and `DeleteKey` say that the two ways to write a key keep `holder` and `ttl` in step. Then
  one step per action (`WorkType`, `OtherType`).
* `TimelyClaimsAreBacked`: `Timely` (no late interval, no admin rebalance, no rejected command, no dead connection, and
  a lease longer than an interval) implies `Spec => []ClaimsAreBacked`. The property is not
  inductive: being held now says nothing about the next tick. `Backed` strengthens "held" with `Fresh`: the
  lease is whole, or a cycle is due, or a cycle is under way that has still to come to the application
  (`Visits`), or the instance is stopping. `Lifecycle` links the timer, `start()` and
  `stop()`, so that a running instance without a timer is starting or stopping; `Calm` says that nothing is being
  revoked. `OthersKeep` and `BackedKept` say what a step of one task cannot disturb in the others; then one
  lemma per group of actions. At a tick all tasks are idle and nothing is due, so `Fresh` leaves only
  "the lease is whole".
* `ProcessingIsClaimed`: with `StartsAtOnce`, `Spec => []ProcessesOnlyClaims`, whatever goes wrong.
* `NoOverlapButEnding`: `Timely` and `StartsAtOnce` imply `Spec => []OverlapOnlyWhileEnding`, from the two before.
* `ImplementsLease`: `Spec => LeaseSpec`, step by step, from the type invariant.

**`DeliverProofs`** (from `DeliverAssumption`)

* `TypeCorrect`. `DeliverInv` adds to the types what the loops and the group owe each other: `Shape` (a loop has a
  message exactly where its `pc` needs one, and has handled only what precedes its batch), `StreamOK`
  (entries are read and grow old in order; what is not in the stream was too old), and `LoopOK`: whoever is
  about to acknowledge has a reason, a log that says SUCCESS or nobody to deliver to, and whoever has written the dead letter has
  written it.
* `ImplementsDelivery`: `Unraced` (no `race`) implies `Spec => DeliverySpec`. It needs `SweepOK` besides: a consumer that was found
  without pending entries gets none until it is deleted, which is what the race breaks.
* `DeliveriesAreLogged`: `Unraced` implies `Spec => []DeliveredIsLogged`.

**`DispatchProofs`**

* `FirstDispatchesAlone`: `Prompt` implies `Spec => []FirstDispatchAlone`. `Prompt` is `MinIdle >= 2` and no dispatch that
  outlasts its tick; 91 s and 120 s make it so by default, a retry policy of an application's own can break it. The
  invariant `FirstOK` says that the entry of a first dispatch has been idle for no longer than the dispatch
  takes (`spent`), hence cannot be claimed, and that no batch of a recovery has it already.
* `StaleUseBounded`: `Spec => []StaleUseIsBounded`, with `CacheOK`: an answer that is wrong by now was right until the last tick,
  and an entry until it was stored.

**`DeadLetterProofs`**

* `DeadLettersTriedIfUncut`: without `overlap`, `Spec /\ []Uncut => []DeadLettersWereTried`. `Uncut` says that no recovery ends at
  `maxRecoveryPerCycle` with claimed messages left. The property compares a dead letter with its dispatches, but what sends it there is
  the count Redis keeps, so `TriesInv` accounts for every delivery (`CountFits`): it was a dispatch, or a disturbance, or the one
  running loop owes it (`Owes`: it is in the batch, or about to be looked at). A loop that is stopped while
  its XAUTOCLAIM or XREADGROUP is on the way (`Late`) has been counted as a disturbance before the delivery it
  will cost, so `Spare` leaves those out. Both hypotheses are needed. With `overlap` two loops can hold one message in their batches
  at once, which counts twice before anybody dispatches it; a recovery that is cut drops deliveries without any disturbance.
* `DeadLettersTried`: `MaxMessage <= MaxRecovery` implies `Uncut`, so that the property then holds in every history.

**`IngestProofs`** (from `IngestAssumption`)

* `TypeCorrect` and `StoppedEnd` (`Spec => StoppedPollersEnd`), with `PollerFits` and `HandlerFits`, which say what of a
  record means something at which `pc`.
* `OnePoller`: `Unhasty` (no poller is stopped in the middle of `start()`) implies `Spec => []OnlyThePollerInTheMapRuns`. The
  invariant adds that a process that is down has no poller in its map and awaits nothing.
* `NothingIsSkipped`: `Spec => []NothingSkipped`, without a hypothesis. `CoverInv` says what is covered where: up to the
  progress of every application (`WrittenOK`); up to the position of every poller, for the applications in its list, and beyond
  it what it asks for without an application that joined, or has in the batch on its way (`PollersCover`); and behind the
  catch-up of every handler (`HandlersCover`). The batch of a stopped poller and its successor are then no
  different from two pollers. What the first progress of an application leaps over is what `leapt` receives
  (`FirstCovered`); everything else only grows (`Grows`).

**`AccountsProofs`** (from `AccountsAssumption`)

* `TypeCorrect`, `AlwaysOwned`, `OneRoot`, `AdmittedOnce`, `OnePending`: `TypeOK` and the four properties of the module, from one
  invariant. `RequestsOK` ties what a request has seen to the rows: what it found is still so unless the request is
  `stale`, an owner it is to take is not the last, an invite it answers is pending. `RootsOK` speaks of those who are root or
  about to be.

**`ConsoleProofs`** (from `ConsoleAssumption`)

* `TypeCorrect`, which also says that no query somebody waits for is fetched twice. `OneFetch` rests on
  `KeysApart`, that the keys of the queries a page mounts are distinct, which is shown page by page, and on `PageOK`, that nobody
  waits on the login page.
* `TokenLives` and `SignedOutWithReason`: `TokenInv` adds that a pair a renewal has just got is known to nobody else (`NewPairsOK`) and
  that, unless renewals overlapped, there is one at most, and what it presents is good (`OneByOne`).
* `IngestorIsTold`: `Spec => []IngestorKnows`, with `Midway`, a handler between its commit and its signal.

**`ScreenProofs`** (from `ConsoleAssumption`)

* `OwnChangesAreShown`: `Spec => []OwnChangesShow`. The property speaks of what a page shows, and what that was
  read from may have been fetched under another page, so `ShowInv` follows an answer from the read on. It accounts for
  every commit since: an entry of the cache (`EntriesFit`) and a fetch in flight (`CallsFit`) are up to date, or a cascade, a
  change by others (`swept`) or a row that is gone excuses them, or some mutation has still to come to its invalidation, which will reach them (`Tells`), or they
  are marked as late or slipped, and what is mounted and invalid is being fetched (`MountedFetched`). That the invalidation
  does reach every list and detail that shows what was written is a fact about the hooks: `MutationsAreThorough`, hook by hook,
  over `Configuration` (what the operation commits) and `Screens` (which keys the hook invalidates).
* `CalmRequestsAreGranted`: `Spec => []CalmRequestsSucceed`. `RestShowsNow` makes of the theorem before: a page at rest shows
  rows as they are. `OffersAreGranted`, page by page, says that what a page offers for such rows asks for no more than the
  user and the rows have, so the request may be granted when it is sent. `CalmInv` then follows it: until it is in
  its handler what it needs is there, and in the handler what it has still to write is possible (`CalmOK`); it is the only mutation
  (`Alone`); a renewal leaves it with a token that is accepted (`RenewedOK`); while nothing is swept, the rows other rows hang on
  stay and nobody's role changes (`Standing`), and a row that differs from what some commit left has been changed by one a page
  must show (`HistoryOK`). `MutationsAreCareful` says of every hook that it changes only rows its operation has looked for,
  adds rows, changes nobody's role, and ends a row that others hang on only with a cascade.

The hypotheses exclude disturbances that no run allows either (`race`, `slow`, `hasty`, `overlap`), each for the reason given
with its model: the property is then false of the code.

Model-checked only:

* liveness (fairness and ENABLED are out of the prover's reach): `ApplicationsAreHeld`, `StaleClaimNoticed`, `RevocationNoticed`,
  `RevokedIsHeldAgain`, `MessagesSettle`, `PollersReachTheHead`, `PagesLoad`.

Every invariant, action property and refinement that a passing run checks is also a theorem. The runs remain the evidence that the
theorems say something: each property is reached and can be broken by a change of the definitions it depends on.

## What is left

The models are complete as far as this project takes them, and so is the proof of their safety. Left for a larger effort: the
liveness properties, on paper or with another prover; the disturbances that make a property false of the code (`race`, `slow`,
`hasty`, `overlap`), which become theorems without their hypothesis when the code is repaired; the hazards in `PROJECT.json` without a
property.

## Not modelled

* Payload: ABI decoding and the subscription index (`event-parser`, `subscription-index`), filter conditions, bodies, headers and
  signatures of webhook calls, figures of dashboards, charts, forms. No property here tells one payload from another.
* Validation of request bodies and configuration files, modules and decorators of NestJS, DTOs and repositories that
  pass values through: the operations around them are in `Configuration`.
* `toggleStatus`, `ProgramsService.update`, `syncEvents`, the API-key guard and the logout endpoint: no client in the repository
  calls them.
* The dispatcher's list of applications: it is refreshed on `APPLICATION_*` signals, which no service publishes
  (`DIS/queue-consumer.service.ts:119`).
* Retry of a failed client error: `webhook-caller.service.ts:119` retries 4xx answers although
  `packages/webhook-dispatcher/README.md:238` says it does not; the model has one outcome per call and does not tell statuses apart.
* The demo contract and the demo webhook.
