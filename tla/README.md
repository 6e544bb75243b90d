# Formal models of the notification server

TLA+ models of this repository's three Redis patterns: SSE notifications over
Pub/Sub, a distributed lock around coupon issuing, and three caching strategies
for products; and of the client page that displays the notifications. TLC checks
small instances; TLAPS proofs hold for every value of the constants. Paths below are
relative to the repository root; `src/` is the NestJS server, `client/` the React client.

## 1. Inventory

### 1.1 Components, state, operations

| Component | Code | State | Operations |
|---|---|---|---|
| SSE manager | `src/sse/sse-manager.service.ts` | `streams`: user → Set of RxJS Subjects, per process | subscribe, unsubscribe, emit, emitToAll, hasConnection |
| Channel registration | `notification-event.service.ts` | `userChannelRefs`: user → count, per process; the subscriber connection and its channels | subscribeUserChannel, unsubscribeUserChannel |
| Event handling | same file | none of its own | handleRedisMessage, with an unawaited status write |
| Notification requests | `notifications.controller.ts`, use cases, repository | table `notification` (PENDING, DELIVERED, READ) | stream (SSE), create, findAll, markAsRead, replay of missed rows |
| Stream hook | `client/src/hooks/useNotificationStream.ts` | an `EventSource` per page and user | connect, receive, close |
| SETNX lock | `redis/lock/setnx-lock.service.ts` | a Redis key with a TTL | acquire (retry loop), release (Lua) |
| Redlock lock | `redis/lock/redlock-lock.service.ts` | a Redis key with a TTL, `activeLocks` | acquire, release through the library |
| Coupons | `coupons/` | tables `coupon` (stock) and `issued_coupon` | seed, issue, issued-count |
| Client page | `client/src/App.tsx`, `store/`, `hooks/queries`, `hooks/mutations`, `components/` | the chosen user, `liveEvents`, react-query's cached lists | choose a user, receive an event, fetch a list, mark as read, post |
| Product reads | `get-product-by-id`, `get-products-cache-aside` | `product:{id}`, `products:list` in Redis | read, fill |
| Product seeding | `seed-products` | table `product` | insert many |
| Product writes | `update-product-write-through`, `-behind` | the above, table `product`, hash `wb:pending` | update |
| Flusher | `write-behind-flusher.service.ts` | a timer and `isPaused` per process | flush every 5 s, pause, resume |
| Not modelled | cache metrics SSE, `product.service`, issued-count, exception filter, bootstrap, containers | | see section 7 |

### 1.2 Interaction

* A stream request adds a Subject, awaits SUBSCRIBE when its user has no
  reference, registers the close listener, and returns `concat(replay, live)`.
* A create request inserts a row and publishes on one channel. Every instance
  subscribed to the channel emits to its own Subjects and starts the DELIVERED
  write. Replay reads and writes the same rows; PATCH read does too.
* The page opens one `EventSource` for the chosen user. Every event, and every answer
  to its PATCH requests, invalidates the cached lists, and the one displayed is
  fetched again by `GET /notifications`.
* An issue request takes the coupon's lock, reads, decides, writes an absolute
  stock value, inserts, and releases in `finally`. The lock is a lease of 5 s
  that nobody renews. `coupons.module.ts` binds `LockService` to Redlock; the
  use case knows the abstract class only.
* Reads fill the cache; write-through writes table then cache; write-behind
  writes the queue then the cache; a flush copies the queue to the table,
  removes ids from the queue, and invalidates the cache. All are sequences of
  separate statements on shared Redis and PostgreSQL.

### 1.3 What is hard

A JavaScript handler runs uninterrupted up to its next `await`, and anything may
run in between: an action of the models is one such stretch, or one statement
executed by Redis or the database. On top of that come processes that die and
restart, statements that reject with or without having been executed, several
instances, leases and cache entries that expire, clients that leave, subscriber
connections that ioredis reopens, fetches overtaken by what they should have
read, a user changed while answers are under way. The list in
`PROJECT.json` ("hazards") gives each at its line with the properties for it.

### 1.4 What makes each component correct

* Registration: no count without a connection to return it; no subscription
  without use; every open stream hears its channel.
* Delivery: what the server takes on to deliver arrives while the connection
  lasts; nothing reaches another user; missed events precede live ones; a
  status never goes back and means what it says.
* Locks: one holder at a time, nobody's key deleted by another, every acquire
  answered, every abandoned key freed by its TTL.
* Coupons: never more issued than seeded; no lost update of the stock; answers
  that tell the truth; no lock left behind; every request ends.
* Client page: an event received, or a PATCH answered, ends up in the list
  displayed, and the list is the chosen user's.
* Products: a queued write is not lost and does reach the table; an entry of
  the cache is a complete row, and the entries come to agree with the table.

## 2. Modules

```
UserChannel  <-- NotificationDelivery (UC == INSTANCE UserChannel, its actions extended)
LeaseLock    <-- SetnxLock, RedlockLock   (refined by both)
             <-- IssueCoupon              (LL == INSTANCE LeaseLock, built on it)
WriteBehind  <-- ProductCache             (refined)
PageServer   <-- NotificationDelivery     (PS(t) == INSTANCE PageServer, refined for every tab t)
             <-- Dashboard                (PS == INSTANCE PageServer, built on it)
<M>Proofs EXTENDS <M>; MC<M> EXTENDS <M>
```

Each module carries a few operators named `Mut...`: slips of the operator after
them, which the properties of the module detect when they take its place.

### 2.1 UserChannel

`streams[i][u]` and `refs[i][u]` are the two Maps of instance `i`; `pc[c]` is how
far the handler of connection `c` has come; `cmds[i]` are the commands pipelined
on the subscriber connection; `subs[i]` what Redis delivers to it. `gone` marks
clients that left before the close listener existed. `overlap` is history: two
first connections of a user were in their await together.

| Action | Code |
|---|---|
| `StreamFirst` | `stream` up to the `await` of SUBSCRIBE, the count read being 0 |
| `StreamAnother` | `stream` to its end, without an await on Redis |
| `RedisExecutes` | the oldest command is executed, its answer under way |
| `StreamContinue` | the continuation: `refs.set(userId, current + 1)` with the old `current`, the close listener |
| `SubscribeRejects` | SUBSCRIBE rejects: 500, the Subject stays |
| `CloseUnheard` | the client leaves during the await |
| `StreamClose` | the close listener: `unsubscribe`, `unsubscribeUserChannel` |
| `Restart` | a process dies and comes back with empty Maps |

### 2.2 NotificationDelivery

Extends every action of `UserChannel` with what it does to requests and tabs,
and adds rows, publication, messages, emits, replay and the browser. `rows` is
the table, a row's id its position. `stage[c]` follows the observable: querying,
found, marked, live. `wire[c]` is what has been written to the socket and not
received. `lastId[t]` is the Last-Event-ID of tab `t`, `seen[t]` what it got.
`owed` is history: the pairs of a tab and a notification that the server has
taken on to deliver, because it was published while the tab was connected and
past its replay, or because the replay found it; a tab that loses its
connection is owed nothing.

`Create`/`Publish`/`PublishFails` are `CreateNotificationUseCase`, with a crash
possible in between. `HandleRedisMessage` is the whole handler; `UpdateStatus` is
the write it did not await. `FindMissed`, `MarkMissed`, `Replay` are the
database's two statements and the turn in which `execute` resolves, the events are
written and `concat` goes on to the hot Subject. A hot Subject without a
subscriber drops events: `Receiving`. `Disconnect` with `leaves` is a page that is
closed and starts over; without, a connection that breaks, after which
`EventSource` reconnects with its Last-Event-ID. `MarkAsRead` is one step: its
read and its write set the same value whatever happened in between.

`SubscriberReopens` is the subscriber connection lost and opened again by ioredis,
which resubscribes to its channels on its own: what was under way to the instance
is gone, and so is what `owed` counted on it; registration is as before.
`ReplayFails` is a database call of `execute` that rejects: the observable errors,
Nest ends the response, and the tab comes back with the same Last-Event-ID. Both
it and `Replay` share `Settle`, which ends the request of a connection that was
closed meanwhile. A status write that rejects is handled nowhere and ends the
process: that is `Restart`.

### 2.3 LeaseLock

The promise of `LockService` for one key: `Grant` only when the key is free,
`Release` of one's own token only, `Expire` at any time, `Strand` when Redis took the
key and the caller does not know, `Refuse`, `Abandon` for holders that die. A lease
is a lease: a holder may outlive it, and no caller is told.

### 2.4 SetnxLock

The retry loop in discrete time. `left`, `wake`, `delay` are the deadline, the sleep and
its length; `Tick` advances time by a unit, and Redis and the event loop may
take any time. `SetRejects` covers a SET that rejects, executed or not.
`Released` runs the Lua script.

### 2.5 RedlockLock

The service's code with the library as the service sees it, on one Redis: up to
`retryCount + 1` tries of the acquire script (`AcquireVoted`, `AcquireAgainst`), a
clean-up release when none got its vote (`CleanUp`, then `null`), the same number of
tries for the release script, an error when none succeeds (`ReleaseAgainst`: the
Lock object then stays in `activeLocks`). `freed` is a key deleted by a script whose
answer was lost.

### 2.6 IssueCoupon

`execute` statement by statement over `LeaseLock`, so that what is shown holds with
either implementation: `Find` (with the two refusals), `Save`, `Create`, `Release`. Each
statement may reject unexecuted (`StatementFails`) or executed (the 500 branch of
`Save` and `Create`); `Crash` runs no `finally`. `saved` is history, the requests whose
UPDATE was executed; `lapsed` is history, a lease has expired under a holder that had
yet to read or write the stock. The model has one coupon: others have other keys
and rows. Statements of a request whose process has died are taken to execute
before its death or not at all.

### 2.7 ProductCache

The table starts empty; `Seed` inserts rows in one transaction and leaves
`products:list` alone, as `SeedProductsUseCase` does. A column holds the number of
the write that wrote it last, 0 for what it was seeded with. `queue` is `wb:pending`,
one patch per product. `op[o]` is a request between two statements, with the row it
remembers; a list is filled from a whole table read before (`ListMiss`, `SelectList`,
`FillList`). `flush[f]` holds the local variables of a flush, several at once because
`setInterval` does not wait and instances share the queue; the slots are alike, so
a flush takes the first free one. The ids of the snapshot (`todo`) are tried one after the
other in a fixed order, as `Object.keys` gives them. `repo.update` is two statements in
both strategies: of a flush, `FlushUpdate`, which without such a row changes nothing and is no
error, and `FlushReselect`, which makes the id a success (`ok`) if there is a row by then;
`at` is the id between the two. `FlushRowFails` is either statement rejecting, the UPDATE
executed or not. A flush's snapshot (`pending`) is kept without the ids that failed, which
it does not look at again. `Bodies` are the PATCH requests of an instance: they may name no
row and no column, since `@Body() dto: UpdateProductData` is an interface and nothing validates it.
`last` and `raced` are history: the latest patch of a product, and the products whose
latest patch came while a flush held them or whose row was seeded while a flush was
between its UPDATE and its SELECT of it.

### 2.8 WriteBehind

The promise of the write-behind strategy, without flushes, statements or caches: `Accept`
queues a patch; `Take` opens a batch over what is queued; `Apply` writes a patch of a product
in a batch, the latest one unless the product is in `raced`, and may let go of the product
(a batch whose UPDATE is executed without its knowing); `LetGo` drops batches, and from the
queue what they applied. `AddRows` inserts rows, some of them `late`, under a batch that has
looked for them already. In `raced` are the products queued again, or added late, under a
batch. The condition to implement is `LetGo`'s: of a product not in `raced`, whatever leaves
the queue is in the row. `Kept` is what a client may rely on, and follows from it
(`BehindKeeps`, proved in the module). In `ProductCache` the products held are those in the
snapshots of the flushes in their loop that have not failed there (`Held`): a flush that dies
lets go of them, applied or not.

### 2.9 PageServer

What the page of a user can tell of the server: `rows`, the table; `connected`, whether its
`EventSource` is; `wire`, the ids of the events on their way to it. Rows are inserted
PENDING (`Insert`) and made DELIVERED or READ at any time, whatever they are (`SetStatus`);
what is sent on the connection are rows of the table published for its user or for all
(`Send`), any number of times or never; an event may come twice (`Hear`); a connection
that ends loses what is on its way (`Close`). `Turn` is the change of the user, which the
connection does not outlive.

`NotificationDelivery` implements it for every tab (`ServesPages`, `PagesAreServed`): the
observables, channels and replays of all instances become the single `wire` of the
tab's present connection (`WireOf`), which is connected from the moment its observable is
subscribed to. The users of its tabs do not change: a page that turns to another user is
another tab there.

### 2.10 Dashboard

The page: `user` is the store, `connected` and `wire` its `EventSource`, `live` the ids of
`liveEvents`, `query[u]` what react-query keeps under the key of `u`'s list: data, error,
and a fetch that has been asked, asked again (`retry: 1`), or answered with a list not
yet arrived. `patch[n]` is a PATCH under way. `read` is history, what the page was
answered is READ and still is. `early`, in a query, is history too: what it was told
while its first fetch was under way and could not be begun again.

| Action | Code |
|---|---|
| `SelectUser` | `setUserId`: the effect closes the `EventSource` and opens another, `useQuery` turns to the other key |
| `Open`, `Break` | `onopen`, `onerror`; neither fetches anything |
| `Receive` | `handleNotification` and App's callback, which invalidates |
| `FindAll`, `Fill`, `FetchFails` | `GET /notifications`, its answer, its failure |
| `BackOnline`, `Collect` | react-query fetching again online, and dropping a list not displayed |
| `ClickRead`, `MarkAsRead`, `ReadAnswered`, `PatchFails` | the button, its PATCH, `onSuccess` of `useMarkAsRead` |
| `Post`, `Emit`, `UpdateStatus`, `ReadElsewhere` | the server's own steps: a POST of any client, events, DELIVERED writes, a PATCH of another page |

react-query (5.100.6) is outside the repository and modelled from the options the code
gives it: `invalidateQueries` cancels and restarts the fetch of a displayed list that
has data, joins a first fetch, and only marks the lists not displayed, which are then
fetched when they are (`staleTime` 0). The server is `PageServer`, whose actions these
extend: an event may come any number of times after its row is inserted, or never, and
DELIVERED writes, or another page's READ, may land at any time.

## 3. Runs

All bounds are constants of the `.cfg` files: sets of model values, `MaxId` and
`MaxRows` (notifications created), `MaxTries`, `MaxCount` (stock), `MaxWrites` (PATCH
requests). Lock and coupon requests run once each.

### 3.1 Properties that hold

| Run | Instance | States | Shows |
|---|---|---|---|
| channel | 1 instance, 1 user, 3 streams | 22 k | `RefsBounded`, `NoChannelLeak`, `ExactUnlessOverlap`; `StreamOpens`, `ChannelReleased` |
| delivery | 2 instances, 1 tab, 2 notifications of its user | 464 k | `OwedInFlight` across instances, `ReplayFirst`; `OwedDelivered`, `ReplayEnds` |
| delivery_users | 2 tabs of a user, 1 of another, 2 connections, 1 notification, to the two tabs' user or to all | 1064 k | `OwedInFlight`, `Addressed`; `ServesPages`: refinement of `PageServer` for each tab |
| dashboard | 2 users, 1 notification of any body | 356 k | `EventsShown`, `ReadsShown`, `OwnList`; `HeardIsListed` |
| setnx | 3 requests | 12 k | `ImplementsLease`: refinement of `LeaseLock`; `ImplementsLeaseFairly`: its fairness too |
| redlock | 3 requests, 3 tries | 7 k | the same |
| issue | 3 requests, stock 2 | 151 k | `StockCounted`, `NoOversell`, `AnswersTrue`, `LockNotLeft`; `RequestsEnd` |
| product | an id that is seeded and one that is not, patched without columns only, 1 column, 1 request at a time, 2 flushes, 2 writes | 282 k | `AppliedOrQueued`; `ImplementsWriteBehind`: refinement of `WriteBehind`; `QueueDrains`, `CacheSettles` |

`TypeOK` is an invariant of one run of every module except `LeaseLock`, `WriteBehind`
and `PageServer`, which are refined and not run. In `ProductCache` it says more than types:
table, cache and list hold complete rows only, a patch in none of them.

Why these bounds: three streams are the least with which a stale count, a third
stream's count and a close can interleave; two notifications let one be replayed
while the other is live; two tabs, users or instances give each pairwise
interaction, and two connections for three tabs make one be used again; three
requests for two coupons sell out with a refusal left; two flushes and two
writes give every overlap of a flush with a flush or with a request, and one flush
with a seed. The id without a row is patched without columns (`SomeBodies`) because its
only part is to fail in every flush; that an UPDATE finds no row and the SELECT finds one,
or none, happens to the other id, before and while it is seeded. In the
delivery run the one connection slot is used again after every disconnection and
restart, and the second instance posts, restarts and takes over the tab. One
notification in the dashboard run is enough to be overtaken by a fetch, a PATCH,
its DELIVERED write and two changes of the user; that notifications do not
disturb each other is not left to the bound, its three invariants being proved for
any number. Restarts, disconnections, rejections, reopened connections and expiries
are not bounded in number. `CHECK_DEADLOCK FALSE` is set where the one-shot
requests of the coupon and Redlock models may all be over. Symmetry (connections,
instances, the tabs of one user) is used in delivery_users only, which checks no
liveness.

`ExactUnlessOverlap` is worded with a condition because channel_two_tabs shows what
happens without it. `NoOversell` and `StockCounted` exclude the history in which a
lease has expired between the read of the stock and its write.

### 3.2 Statements of the documents that the code does not keep

| Run | Statement | What happens |
|---|---|---|
| channel_two_tabs | README:88, unsubscribe only with the last connection | both first connections read 0 and write 1; the first close unsubscribes |
| delivery_read_final | README:99, PENDING → DELIVERED → READ | the unawaited DELIVERED write lands after READ |
| delivery_lost | README:95-96, nothing missed is lost; README:100, DELIVERED tells what was received | marked DELIVERED when handed to the Subject; lost on the wire when the connection ends; the replay selects PENDING rows only |
| product_removed | README:63, only what succeeded leaves the queue | HDEL removes a patch queued after HGETALL |

### 3.3 Others, without a run of their own

The models contain these behaviours; the properties above are worded so as not to
promise the contrary.

* README:88: a client that leaves while its handler awaits SUBSCRIBE
  (`CloseUnheard`) leaves Subject, count and subscription until the restart.
* README:100 says DELIVERED means that the emit succeeded. A broadcast is marked by
  instances without connections, a user's message also when the Subject has no
  subscriber yet, a replayed row before it is streamed.
* create-notification.dto.ts:13 says that `userId` cannot be used together with
  `broadcast`. The use case accepts both; the row is the user's, the event
  everybody's (`Create`).
* README:38 gives acquire 3 s in all. The loop looks at the deadline between
  sleeps and does not shorten one: up to 250 ms more with the code's delays.
* README:24, no over-issue: a lease that expires between read and write lets two
  requests sell one coupon. distributed-lock-design.md:102 names the missing
  watchdog as a limit of SETNX; Redlock's lease is not renewed here either.
* README:61, changes pile up: HSET replaces the earlier patch of the product, the
  columns only the earlier one names are lost.
* README:57, table and cache together: a reader may fill the cache with the row it
  read before a write-through, after the write-through has set its own. The entry
  stays wrong until it expires, which is what `CacheSettles` relies on; the same
  holds of `products:list` after `POST /products/seed`.
* README:95-96, a second way: what is published while a replay awaits the database is
  emitted to a Subject that `concat` (notifications.controller.ts:91) has not subscribed
  to yet. It is dropped and marked DELIVERED, and not found by a later replay either.
  This violates `NothingLost` too; the run reports the other trace.
* README:95-96, a third way: rows are published in another order than their ids
  when creates overlap, or when a publish failed. A tab that got the greater id
  asks for what is above it; the smaller one stays PENDING and is never replayed.
* README:95-96, a fourth way: the status is the row's and not the tab's. What one tab of a
  user was sent, live or by its replay, is DELIVERED, and the replay of another tab that
  reconnects does not find it.
* README:63, a second way: a flush's UPDATE (product.repository.impl.ts:33) matches no row
  and nobody looks at how many it matched; `POST /products/seed` commits that id; the
  SELECT of line 34 finds it. The id is a success, and HDEL removes a patch that was never
  written. `raced` keeps these products out of `AppliedOrQueued`.
* notifications.controller.ts:91: a row that a replay has found while it was PENDING
  and not yet published is published afterwards and written to the same connection
  twice, once as missed and once live.
* App.tsx:19: the `onSuccess` that App gives to `useCreateNotification` stands in the
  place of the hook's own, which would invalidate the lists. The page sees its own
  POST only when the event comes, hence never when its `EventSource` is not connected.
* The lists are `findAll` by `userId`: a broadcast, stored under another id, is among
  the page's live events and in no user's list (`Own` in the properties).
* Nothing is fetched when the `EventSource` reconnects, and nobody tells the page of a
  DELIVERED write: the list shows PENDING, or rows missing that were sent to no
  connection, until the next event or PATCH. `liveEvents` keeps the former user's
  events when the user is changed.

## 4. Fairness

* UserChannel: Redis answers the commands of a living connection; the event loop
  runs continuations. Clients and failures owe nothing.
* NotificationDelivery: the message handler runs for what Redis has sent
  (`HandleRedisMessage`), the database answers the replay's two statements
  (`ReplayStep`), and a connected tab receives what is on its socket (`TabReceive`).
  `UpdateStatus`, publication and the registration's steps are not assumed fair here:
  no liveness property of this module needs them.
* Dashboard: a fetch is answered or fails (`Fetching`), and the event loop runs the
  callback of an event (`Receive`). Connections, the user, the server's emits and
  PATCH requests owe nothing. `PageServer` may send an event for ever; that from some point
  on none is sent, and none received that is still to come again, is assumed, because
  the notifications of the model are finitely many: each is published once, reaches a
  connection once at most for that, and is replayed only as long as it is PENDING, which
  no row becomes again.
* SetnxLock: time passes (`Tick`) and every step of the acquire loop that stays
  possible is taken. A holder need never release.
* RedlockLock: every try ends, with a vote or against; leases expire.
* IssueCoupon: `LockService` answers every acquire, which is what the two runs of
  `ImplementsLeaseFairly` establish; the database answers every statement, be it with
  an error; leases expire. No fairness on `Crash` or on the success of a
  statement.
* ProductCache: the timer fires, the statements of requests and flushes end, and
  entries with an EX expire (weak); a row's UPDATE, and its SELECT, that are tried in flush
  after flush do succeed at some time (strong, one each), the assumption behind "retry in
  the next flush"; flushes do not go on dying forever. `QueueDrains` excuses a paused flusher.

## 5. Proofs

Checked by TLAPS, for every value of the constants that satisfies the modules'
assumptions: `FiniteConns`; `UserOfTabs`, `ValidBodies`, `MaxIdIsNat`, `NoConnIsNone`,
`NoRequestIsNone`; `BoundIsNat`, `NoUserIsNone`, `BodiesValid`, `NoDataIsNoList`;
`FreeIsNoRequest`, `FiniteRequests`, `CountIsNat`, `NoCouponIsNoCount`; `Times`; `SomeTry`;
`RowsAreProducts`, `BodiesArePatches`, `MaxWritesIsNat`, `NoneIsNoProduct`, `NoneIsNoFlush`.
A connection or request set is any set, finite where a cardinality is taken.

* `UserChannelProofs`: `TypeCorrect`, `RefsAlwaysBounded`, `NoChannelLeaks`, `CountExact`. None
  of the properties is inductive alone. Layers, each proved with the ones before: `TypeOK`;
  `Placement` (a connection has one Subject) with `CmdsMatch` (each SUBSCRIBE under
  way belongs to one suspended handler), because a continuation counts a
  connection that must not yet be open; `RefsBounded`; `Released` (a
  subscription without a connection to serve has an UNSUBSCRIBE queued behind it),
  which with an empty queue is `NoChannelLeak`. `Exact` strengthens `ExactUnlessOverlap`:
  without an overlap at most one connection is opening and then none is open, its
  SUBSCRIBE stands behind every UNSUBSCRIBE of the user in the queue (`Asked`), and
  what Redis has answered stays subscribed. Lemmas say what each action changes
  (`StreamFirstChange` ...), so that the layers reason about changes and not about
  nested EXCEPTs.
* `NotificationDeliveryProofs`: `RegistrationsHold`, that the theorems above hold of the
  composition: its actions are built on `UserChannel`'s, so that `UserChannelProofs` can be
  cited through an instance; `TypeCorrect`; `MissedComeFirst`; `OnlyAddressed`;
  `NothingOwedIsLost`; `FailuresAreFound`; `PagesAreServed`. The layers after `TypeOK`:
  `Held`, where a connection is (`Placed`: a request has its Subject at its instance and user;
  `LinkOwn`: a tab's connection is of its user; `Waiting`: each SUBSCRIBE under way belongs to
  one suspended handler; `Staged`: an observable belongs to a request whose handler is past
  its await, and after a close to no Subject); `WireLive`, nothing is on
  the wire of a connection that has not come to its live stage, which makes
  `ReplayFirst` inductive: replayed events are written once, to an empty wire; `Owned`,
  every row found, on the wire or received was published for the tab's user or as a
  broadcast, which needs that ids in `inbox` and `missed` are of rows that exist;
  `Linkage`, a connection has one tab, and while it has it its Subject is in the Map of
  the instance that handles the tab's messages; `Flying`, what is owed is on the way to the
  tab's connection and addressed to it, which is `OwedInFlight`. `Flying` needs that an
  instance with an open connection hears the user's channel unless a reference was
  lost, which is `RegistrationsHold`. `FailuresAreFound` is about a row that is not owed yet:
  PENDING, of no publication, message or status write under way (`LeftOver`), and awaited by
  the request of a tab (`Awaits`). `AwaitsKept` goes through the actions: none but a replay
  of the user, the tab's own end, or PATCH read changes that; `Linkage` says that a replay which
  fails ends the connection of no other tab. `PagesAreServed` takes each action for what it does
  to one tab: to most tabs it is a stutter; `Held` and `Linkage` say that an emit or a
  replay reaches the connection of a tab with what is its user's, `WireLive` that a
  connection which opens has nothing on it yet.
* `DashboardProofs`: `TypeCorrect`, `EventsAreShown`, `ReadsAreShown`, `ListIsOwn`. The
  invariant `AllKept` states the three properties of every user's list and every stage
  of its fetch at once, for the lists not displayed as well, since choosing a user
  displays what was fetched before; `early` is what it has to leave out, because a first
  fetch is joined and not begun again.
* `IssueCouponProofs`: `TypeCorrect`, `StockAlwaysCounted`, `NeverOversells`, from one
  inductive invariant: `InTry` (a step is under way exactly when the request is in),
  `Protected` (while no lease has lapsed, the request between read and write owns the
  key), `Fresh` (what it read is the stock), `Once` (it has not saved before),
  `NoneSaved`, `StockCounted`. `NoOversell` follows because issued requests have saved
  and the stock is not negative. `AnswersAreTrue` and `LockIsNotLeft` need none of the
  condition on leases: `Unanswered` says what a request has done before its answer.
* `ProductCacheProofs`: `TypeCorrect`, `ProductImplementsWriteBehind`, `PatchesAreKept`. `TypeOK`
  is inductive with the types of what a request or a flush remembers at each of its
  statements (`Typed`: a row it will merge into is a complete one, a product a flush works on
  is in its snapshot). The refinement needs `Known`: `last` is what is queued, if anything
  (`Latest`); of a product not raced, what any flush has in its snapshot is the
  latest patch (`Snapshots`), and what it counts as a success, or has updated with the SELECT
  to come and the row in the table (`Updated`), is in the row, whatever other flushes and
  write-through have done to the row since (`Successes`). A seed between the two statements
  is what would break `Successes`, and makes the product raced. `PatchesAreKept` is then
  the abstract `BehindKeeps`, carried over by the refinement: no further invariant of the code.
* `SetnxLockProofs`, `RedlockLockProofs`: `TypeCorrect`, and `SetnxImplementsLease`,
  `RedlockImplementsLease`: initial states map to initial states and every step to a
  step of `LeaseLock` or a stutter. `owner` is the key; `at` is computed from `pc`.

With `RedlockImplementsLease` and `NeverOversells` the coupon result holds for the
implementation the module binds: `IssueCoupon` assumes of the lock only what
`LeaseLock` allows. Its one further assumption, that acquire is answered, is
`ImplementsLeaseFairly` and stays with TLC.

## 6. Only model-checked

Liveness and fairness (`StreamOpens`, `ChannelReleased`, `OwedDelivered`, `ReplayEnds`,
`HeardIsListed`, `RequestsEnd`, `QueueDrains`, `CacheSettles`, `ImplementsLeaseFairly`) and
everything that would need ENABLED are outside the prover's reach. Every invariant and
every refinement without fairness that a passing run checks is proved. `FailedIsFound` is
proved and not run: TLC confirms it on the instance of run delivery, at a cost that run
does not have room for.

## 7. Not modelled

* A Redis that loses its data; the publisher's and the cache's connections being
  reopened other than as a command that rejects.
* Ping events (they carry no id), titles and bodies, TypeORM's mapping, dates;
  the status filter of `GET /notifications`, which the page does not use.
* Several Redis servers, quorum and clock drift of Redlock: the code configures one.
* `ProductService`, which `products.module.ts` provides and nothing injects; deletion of
  products, which no route reaches; metrics events; unparsable cache entries (treated
  by the code as a miss); `getIssuedCount`, a count of rows.
* The layout of the page and its two text fields; bootstrap, configuration,
  containers and proxy.

## 8. Plan

Done, in this order: UserChannel with its proofs, NotificationDelivery, the two locks
with their refinement proofs, IssueCoupon with its proofs, ProductCache, Dashboard
with its proofs; then reopened subscriber connections and failing replays in
NotificationDelivery, seeding and the settling of the cache in ProductCache, the
proofs of NotificationDelivery, `ExactUnlessOverlap` and `OwedInFlight`; the abstract
write-behind queue and the proofs of ProductCache; the theorems of UserChannel cited for
the composition; the server of the page, on which Dashboard is built and which
NotificationDelivery implements.

Next:
1. the order of write-behind and write-through patches of the same column;
2. a bound on the waiting time of `SetnxLockService.acquire` in the absence of a slow Redis.
