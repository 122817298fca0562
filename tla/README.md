# A verification development of mutual-friend-recommendation

The repository is a Go backend for friendships: a gRPC server in front of a
DynamoDB table and a Redis cache, which publishes every change to RabbitMQ,
where a consumer keeps an Elasticsearch index. There are no unit tests in it,
only drivers under `cmd/` that exercise the parts by hand. This directory
states what its parts promise, as TLA+ modules that TLC checks on small
instances and, for the core, theorems that TLAPS proves for every instance.

All paths below are relative to `src/`.

## 1. The system

| part | code | state it keeps | operations |
|---|---|---|---|
| friend service | `internal/service/friend_service.go` | none of its own: rows in DynamoDB, entries in Redis | AddFriend, RemoveFriend, GetFriends, GetFriendCount, AreFriends, GetMutualFriends |
| repositories | `internal/repository/{friend,user}_repository.go` | the table: partition `USER#u` with the row `PROFILE` and one row `FRIEND#v` per friend | two-row transactions; GetItem and Query without ConsistentRead; CreateUser, GetUser, UpdateUser, DeleteUser, ListUsers |
| cache service | `internal/cache/service.go`, `pkg/cache/types.go` | Redis keys with a time to live; metrics | Get, Set, Delete, InvalidatePattern (KEYS, then DEL), GetOrSet, Flush, GetMetrics |
| Redis client | `pkg/redis/client.go` | connection behind a RWMutex | one method per command, Reconnect, Close |
| RabbitMQ client | `pkg/rabbitmq/client.go` | connection, channel, `closed`, declared exchanges and queues, behind a RWMutex | Publish (with publisher confirms), Consume, Declare*, BindQueue, Reconnect, Close |
| event publisher | `pkg/events/publisher.go`, `pkg/events/types.go`, `internal/service/event_service.go` | none | publish with retries, PublishBatch, Close |
| event consumer | `internal/search/event_consumer.go` | unacknowledged deliveries, attempts | processMessages, retry, acknowledge or drop |
| search index | `pkg/elasticsearch/client.go`, `internal/search/user_indexer.go` | one document per user | IndexDocument, UpdateDocument, BulkIndex, IndexUser, UpdateUser, ReindexAllUsers |
| search service | `internal/search/search_service.go` | none | SearchUsers, GetUserSuggestions: query building, page tokens |
| search analytics | `internal/search/search_{analytics,optimizer}.go` | bounded lists and counters, without any lock | RecordSearchEvent, RecordQueryMetrics, reports |
| gRPC server | `internal/api/*.go`, `cmd/server/main.go` | the running requests | one handler per call, validation, clamped limits, graceful stop |
| static parts | `pkg/elasticsearch/mappings.go`, `pkg/config`, `internal/domain`, `api/proto` | none | data types and settings |
| drivers | `cmd/*` but `cmd/server` | none | manual demonstrations, benchmarks |

How they interact. A gRPC request runs in a goroutine of its own and calls the
friend service, which calls the repositories and the cache directly. Nothing
but DynamoDB's transactions orders two requests: the cache is written with
plain SET and DEL. After a commit, a writer deletes the cache entries of both
users (ten commands that may fail one by one), starts a goroutine that
publishes two events, and answers. The publishing goroutines share one AMQP
channel; the consumer reads one queue and updates one document per user.

What is hard about it: readers fill the cache with what they read before a
writer committed; the deletions of a commit happen one by one, may fail, and
die with the process; checks precede the transactions they protect; reads may
come from a copy that lags; two goroutines that publish opposite changes are
not ordered; publisher confirms are awaited through listeners that are
registered after the message was sent; the consumer retries, drops and
redelivers messages whose effect is not idempotent; two `Reconnect` methods
take a lock they hold. PROJECT.json lists these under `hazards`, each at its
line, with the properties that cover it, or the reason why none does.

What makes each part correct:

- friend service and repositories: friendships are mutual, racing requests
  for one friendship have one winner, a request that was answered "ok" took
  effect exactly once (`FriendshipsMutual`, `ImplementsGraph`);
- what it caches: an entry that contradicts the store is about to be deleted,
  or one of the four known gaps made it (`StaleIsOwed`), and what is owed is
  deleted without waiting for its expiry (`StaleIsSwept`);
- cache service and Redis client: an invalidation leaves nothing behind that was
  there before it (`InvalidateClears`), the counters add up (`MetricsAddUp`),
  Close waits for commands (`CloseWaits`), calls return (`CallsReturn`);
- RabbitMQ client: a publication that reports success was acknowledged
  (`SuccessNeedsAck`; by its own confirmation: `SuccessIsItsOwn`), a closed
  client is quiet (`ClosedIsQuiet`), goroutines never all wait for one another
  (`SomebodyGoesOn`), no caller waits for ever (`CallsReturnUnlessStuck`);
- publisher: an event that was handed over is published, reported as failed or
  lost with the process (`ImplementsChannel`, `EventsAreSettled`), in as many
  copies as attempts allow (`CopiesFitAnswers`), to the queues that want it
  (`NothingUnrouted`), and a batch tells the truth (`BatchTellsTheTruth`);
- consumer: an acknowledged creation stays in the index (`AckedIsIndexed`),
  an event is refused only when its attempts are used up, when an error reads
  like that of a garbled event, or at a shutdown (`RefusedWithReason`), every
  event is settled (`EventsAreSettled`), and the friend counts follow the events
  (`CountsFollowEvents`);
- index and search: a walk through the pages shows what is there as far as the
  index holds still (`WalksAreTrue`) and ends (`WalksEnd`), a reindex covers
  its users (`ReindexCovers`) and takes nobody out of the plain search
  (`NoHoleWhileReindexing`);
- analytics: top queries rank (`TopIsRanked`), averages and rates are nearly
  true (`PatternsAreNearlyTrue`), percentiles cover (`PercentilesCover`);
- gRPC server: what a stream has sent was true (`SentWasTrue`), no token means
  that there is no more (`NoTokenMeansAll`), the event service is closed after
  the last handler (`StopWaits`), and a signal ends the server unless a client
  stops reading or a publisher is stuck (`StopEnds`).

## 2. Modules

| module | what it is | code |
|---|---|---|
| `FriendGraph` | abstract specification: an undirected graph whose edges are added and removed atomically between a request's call and its reply | what callers of AddFriend and RemoveFriend rely on |
| `FriendService` | friend service, repositories and cache with concurrent requests and faults; implements `FriendGraph` | `friend_service.go`, `friend_repository.go`, `user_repository.go`, `cache/service.go` |
| `MCFriendService` | the argument pairs of the runs | |
| `FriendServiceProofs` | its invariants, and that it implements `FriendGraph`, proved | |
| `RabbitClient` | the RabbitMQ client, its RWMutex, and the AMQP library and broker as it uses them | `pkg/rabbitmq/client.go` |
| `MCRabbitClient` | `RabbitClient` for the model checker | |
| `RabbitClientProofs` | its safety invariants, proved | |
| `SearchIndexer` | the consumer of the search queue, its retries, and what each event does to the index | `event_consumer.go`, `user_indexer.go`, `elasticsearch/client.go` |
| `MCSearchIndexer` | one event of each kind for the model checker | |
| `SearchIndexerProofs` | its safety invariants, proved | |
| `EventChannel` | abstract specification: what may become of an event that was handed over for publication | what the friend service relies on |
| `EventPublisher` | the goroutines and batches that publish, the retries, the queues, and the process around them; implements `EventChannel` | `publisher.go`, `types.go`, `event_service.go`, `cmd/server/main.go` |
| `MCEventPublisher`, `EventPublisherProofs` | for the model checker; its safety properties and the refinement, proved | |
| `CacheService` | the cache service on the Redis client and go-redis: lock, attempts, late commands, counters | `cache/service.go`, `cache/factory.go`, `pkg/redis/client.go` |
| `MCCacheService`, `CacheServiceProofs` | for the model checker; its invariants, proved | |
| `SearchAnalytics` | what both recorders keep of searches, and the reports | `search_analytics.go`, `search_optimizer.go` |
| `MCSearchAnalytics`, `SearchAnalyticsProofs` | for the model checker; its invariants, proved | |
| `UserSearch` | the writers of the index, the reindex in batches, and a client that pages through a search meanwhile | `user_indexer.go`, `search_service.go`, `elasticsearch/client.go`, `friend_handlers.go` |
| `MCUserSearch`, `UserSearchProofs` | three users for the model checker; its safety properties, proved | |
| `FriendServer` | the handlers over the friend service's calls, their streams, and main | `friend_handlers.go`, `grpc_server.go`, `cmd/server/main.go` |
| `MCFriendServer`, `FriendServerProofs` | a reader and a client who disturbs it; its invariants, proved | |

How they fit together. `FriendService` starts a goroutine where
`EventPublisher` begins a task; `EventPublisher` uses of `RabbitClient` what
that module shows: a listener hears every answer, one answer can free a
foreign caller, a library that is stuck lets nobody register. What it delivers
are the events of `SearchIndexer`, which writes the documents that `UserSearch`
searches (`UserCreated`). `FriendService` uses four operations of
`CacheService` and takes each as one command; `FriendServer` takes the calls of
`FriendService` as single steps over what they leave in the cache. The modules
are joined at these interfaces by hand: one state space for all of them would
be out of reach.

### FriendService: state and code

| variable | stands for |
|---|---|
| `table` | the DynamoDB table: per user, whether the PROFILE row exists and the set of friends with a FRIEND row |
| `replica` | an older copy of each partition, which any read without ConsistentRead may return (fault "lag"); equal to `table` otherwise |
| `cache` | Redis: the value under each key, or `None` |
| `pc`, `call`, `buf` | per request: where it is in its function, its arguments, the value it holds |
| `pos`, `found` | per writer: the next of the ten deletion steps, and the keys its KEYS command returned |
| `clean`, `excused` | history variables, read by no action: readers whose reading is still current, and keys a known gap may have left stale |

A request is a sequence of actions, one for each command it sends to DynamoDB
or Redis; between two of them any other request may run. `Begin` is the call
from the gRPC handler. `ValidateFirst` and `ValidateSecond` are validateUsers
(one GetItem each, and for GetFriends and GetFriendCount the single GetUser);
RemoveFriend and AreFriends do not validate. `Check` is the AreFriends query of
a writer, `Commit` its TransactWriteItems with the conditions on both rows.
`DeleteKey`, `ScanPattern` and `DeleteFound` are the steps of
invalidateUserCache: for each of the two users two named keys and three
patterns, a pattern being KEYS and then DEL of what KEYS returned. `Publish`
starts the publishing goroutine. A reader does `Lookup` (GET), `Read` (Query or
GetItem), for GetMutualFriends also `ReadSecond`, and `Fill` (SET with a TTL).

`Faults` says what can go wrong: "cache" (a Redis command fails, or the
request's context was cancelled: GETs become misses, DELs and SETs are logged
and skipped), "store" (a DynamoDB command fails; a transaction may also commit
and have its answer lost), "lag" (stale reads), "crash" (the server process
dies and every request with it). `Expire` is Redis's time to live or eviction
and may happen at any time. `CreateUser` and `DeleteUser` come from outside
the friend service.

Data is abstracted to what the properties tell apart. A user id is a number,
because the code compares two ids with `<` to build the key of a pair. A
friend list is the set of ids in it and whether the query returned a key to go
on from; the limit of the query is a constant set `Limits`. Timestamps,
usernames and JSON are left out: every cached value is one this service wrote,
so unmarshalling does not fail. A mutual-friends record carries the owner whose
row it was copied from; only the set of friends is kept. Ids without `:` and
glob characters are assumed, so that a pattern matches exactly the keys of its
user. A query's 1 MB page is assumed not to be reached.

### RabbitClient: state and code

| variable | stands for |
|---|---|
| `readers`, `announced`, `writer` | the client's `sync.RWMutex`: who reads, the writer that waits for the readers to leave (and keeps new ones out), who writes |
| `closed`, `declared` | `Client.closed`; what was declared of each kind (`Client.exchanges`, `Client.queues`) |
| `link` | the connection: none yet, up, down, or half: the connection is up and the broker has closed the channel |
| `sent`, `verdict` | messages published on the channel, and the broker's answers in order of delivery tags |
| `heard`, `delivering`, `listeners` | the library: how many answers it has read, the listener to which it hands the last one next, and what stands in each listener's channel |
| `pc`, `op`, `own`, `tag` | per goroutine: where it is, what it was called for, its listener, the tag of its message |
| `calls` | how often Publish was called (for the bound) |

Every call is `Begin`, taking the lock (`RLock`, or `Announce` and `Lock`), a
first test of the flags (`CheckPublish`, `CheckRpc`, `CheckClose`,
`CheckConnected`, `CheckReconnect`), what it asks of the library, and `Finish`,
the deferred unlock. `Publish` is `Send` (the message is written), `Listen`
(NotifyPublish, after the message has left) and one of `Confirmed` and
`GiveUp` (five seconds, or the context). `Reconnect` becomes a call of
`connect` and goes on to `Announce`, which needs the mutex to be free.

A broker refuses a declaration or a binding (fault "refuse") by closing the
channel. The connection stays up, so IsConnected and Reconnect find nothing wrong
(`client.go:285`, `Connected`) while everything that is asked of the channel
fails.

The library (amqp091-go v1.10, the version in `go.mod`) is external and
modelled from its use: it reads the connection in one goroutine; for every
confirmation it sends to each registered listener in turn, holding the lock
that NotifyPublish takes; a listener's channel holds one confirmation and a
full one blocks the reader, so that no reply of the broker is read either;
nobody unregisters a listener; when the connection ends, listeners are closed
and yield a confirmation without Ack. Heartbeats are left out: a blocked
library would at last find the connection dead, but what is blocked stays so.

### SearchIndexer: state and code

| variable | stands for |
|---|---|
| `events` | what the broker has routed to search-index-queue, in order |
| `outcome` | how the settled ones ended; the queue is what follows them in `events` |
| `docs` | the index `users`: per user the event whose names the document shows, its friend_count, and the fields nobody reads that were added to it |
| `pc`, `hand`, `pos` | where the goroutine is, the event it works on, the next of the requests of a friend event |
| `tries` | per event the failed attempts since it was last taken: the loop variable of processMessageWithRetry, kept for the properties when the event is settled |
| `misread` | of the events, those whose last failure was taken for that of an unreadable event |
| `cancelled`, `lost` | its context is done; its AMQP channel is closed |
| `stops`, `restarts` | how often it was asked to stop (for a property), and started again (for the bound) |

`Take`, `Stopped` and `Settle` are processMessages; `Failed`, `Retry` and
`AbandonRetry` the loop of processMessageWithRetry; `Ignore`, `Unreadable`,
`IndexNewUser`, `UpdateUser` and `UpdateCount` are processMessage and what it
calls, one action for each request to Elasticsearch. There is one consumer and
it settles a delivery before it takes the next, so events are settled in the
order of publication, and an event that returns to the queue (RabbitMQ puts it
back in its place) comes first again. The prefetch is unlimited, but what is
prefetched and not begun is as good as queued.

IndexDocument replaces a document. UpdateDocument sends `{"doc": body}`,
which merges the fields of the body into the document and fails when there is
none. The callers have put "doc" or "script" into the body themselves, so the
merge adds a field of that name (`stray`) and changes neither names nor counts.
A request may fail after it was carried out; one whose context is done fails.
The errors of requests are retryable, the default of isRetryableError, unless
their text holds "json" or "unmarshal" (`event_consumer.go:177-180`). The text of
an error holds what it wraps, the answer of Elasticsearch and ids included, so
that a request for a readable event can fail with such a text (fault "text") and
is then not repeated. A body that cannot be read never is. When the channel
closes, the consumer receives
zero deliveries for ever, ignores each, and cannot acknowledge it: it changes
nothing, which is no action here. `Restart` is the end of the process (in
`cmd/test-consumer`, two seconds after the signal, whatever the consumer is
doing) and its next start. The services of the repository publish friend
events only; user events come from `cmd/test-consumer`.

### EventPublisher: state and code

| variable | stands for |
|---|---|
| `tasks`, `answer`, `cancelled` | per task what it is (the goroutine of AddFriend or RemoveFriend, or a call of PublishBatch), what a batch returned, whether its context is done |
| `stage`, `tries` | per event, where publishEventWithRetry is with it, and its failed attempts |
| `copies`, `reached` | how often the exchange took it, and the queues that every copy went to |
| `replies`, `link`, `jammed` | the broker's answers not read yet, the connection, the library stuck on an abandoned listener |
| `bound`, `visited` | the queues bound at the broker, which outlive the process; those that this process has set up |
| `phase`, `starts` | of the process: starting, serving, draining (GracefulStop), closed, ended |
| `misheard` | history: who returned on another message's answer |

A task has two events. The goroutine of a change publishes the second direction
after the first (`SecondDirection`) with a context that never ends; PublishBatch
starts a goroutine for each and collects all results (`BatchReturns`). An
attempt is `Send`, `Listen`, `Answered` or `GiveUp`, or `CannotSend`; `Retry`
waits. `SetUpQueue` takes the queues in any order, as the range over a map
does, and may fail or die half way; queues, once bound, stay. `Exit` is the end
of main or the death of the process: every goroutine is cut.

### CacheService: state and code

| variable | stands for |
|---|---|
| `store` | Redis: per key the value and the ticks it has left, or `None` |
| `wire` | commands on their way, those that were given up included |
| `call` | per goroutine the call (goal), the command it is at (op), the attempt, the result |
| `closed` | `Client.closed`; who holds or awaits the RWMutex follows from `call` |
| `metrics` | `CacheMetrics`: the four counters |
| `rewritten`, `tally` | history: the keys set during each InvalidatePattern, and how many operations ended how |
| `begun`, `ticks` | bounds |

`Enter` takes the read lock and sends the command, `Serve` is Redis processing
a command and its reply, `TriesAgain` go-redis sending it once more (MaxRetries
of the options), `GivesUp` the last failure; what was given up may arrive later.
`Proceed` is the second command of GetOrSet and of InvalidatePattern. The KEYS
of InvalidatePattern goes to the connection without the lock
(`cache/service.go:306`), and so may be under way while the client is closed.
Exists and GetTTL are "Look": they change nothing.

### SearchAnalytics: state and code

One action for each recorder, `RecordSearchEvent` and `RecordQueryMetrics`,
each from beginning to end: neither has a lock, and the only caller in the
repository (`cmd/search-benchmark/main.go:131`) records from one goroutine, so
that one is assumed. `count`, `average`, `good`, `hours`
are QueryPattern; `searches`, `freq`, `top` UserBehavior; `total`, `mean`,
`failures` PerformanceStats; `asked`, `spent`, `popular`, `slow`, `flops` the
optimizer's SearchMetrics; `history` what really happened. Durations are whole
ticks, as in Go; a rate that the code keeps as a fraction of its count is kept
as its exact numerator. The code's rate is a float64 that every search rounds.
What that loses is below 2n rounding errors of 2^-53 after n searches, less than
the distance between 4/5 and any other fraction of n below ten million searches;
only a rate of exactly 4/5 can fall on either side, and does (31 successes, 8
failures and one success are listed as failing). `FailingQueries` is therefore
the set of the lists that may come out, and what is said of them holds for each.
`UpdateTop` is the loop of updateTopQueries as it stands: it inserts a query
before the first that is less frequent, even when the query is in the list
further down or the list is full, so that a list may name a query twice and be
longer than ten.

### UserSearch: state and code

| variable | stands for |
|---|---|
| `docs` | per user the document: none, that of a user.created event (names only), a full one, one with mutual friends, one with neither friends nor activity |
| `exists`, `maker` | the index, and CreateIndex between its two requests |
| `ranking` | whom the client's search finds, in which order; empty while no client walks |
| `job` | ReindexAllUsers: whom it was given, who is left, who is excused |
| `walk` | the client: page size and offset |
| `changes`, `shown` | history of the walk |

A page is a slice of the ranking; a token the offset of the next, given when
the page is full, sent with its last result. Offsets in tokens are any number;
Elasticsearch refuses negative ones and those beyond its window.

A search has text, filters (counts, places, interests), a sort order and a least
score. None of them is modelled: at its start the ranking is any order of any of
the users whose status and privacy settings every search asks for (`Orders`). A
write takes out at once those who are no longer among these (`Left`), and
`RankAnew` lets the next answer find others in another order at any time: a
write of one document changes counts that filters test and statistics that
scores use, and hits are sorted without a tie-breaker over three shards and
their replicas (`search_service.go:301`, `mappings.go:40-41`). Only of the search
without text and filters the model says whom it finds (`Plain`): a full document
scores 0.3 * 0.5 * 1.3 = 0.195, mutual friends score at least 0.118, and with
neither friends nor activity the score is below min_score ("faint"). `Suggested`
says whom each kind of suggestion may name; none of them has a least score.

### FriendServer: state and code

| variable | stands for |
|---|---|
| `friends`, `listed`, `counted`, `past` | one user's friends, the cached page and count, and the lists there have been |
| `pc`, `req`, `page`, `total`, `code` | per client the handler: where it is, the request, what it has to send, the status it ended with |
| `sent`, `read`, `gone` | the stream: responses sent and read, and whether the client has cancelled |
| `phase`, `events` | main and the event service: open, closed, or jammed by a publisher that is stuck |

`Call` validates and clamps the limit. GetFriends is two calls of the service,
with a cache entry each (`GetFriends`, `CountFriends`), and a `Send` for each
friend while the client's window has room; the cached page is served whatever
limit it was read with. `toGRPCError` looks at texts: the service's own say "not
found" or nothing that it looks for, those of the store, which are wrapped, may
hold any of its five texts. A change whose transaction is carried out and whose
answer is lost is one of its own (`ChangeUnanswered`). `Signal`, `Stop`,
`Stopped` and `CloseEvents` are the end of main; `CloseEvents` takes the lock of
the RabbitMQ client and is not to be had when a goroutine that publishes is stuck
with it (`Jam`).

## 3. Runs

| run | bounds | question |
|---|---|---|
| `friend_faults` | 2 users, 2 concurrent requests for one friendship from both sides, page limit 2, lagging copies, failing commands, lost answers, crashes | types; rows stay paired; every stale entry is owed a deletion; exactly one racing writer wins |
| `friend_liveness` | 2 users, 2 requests, failing cache commands, users created and deleted, entries that need not expire, page limit 1 | every request is answered; a stale entry is deleted by the sweeps, or one of the known gaps excuses it |
| `friend_overtaken` | 2 users, a writer and a reader | violated: a reader that a commit overtook leaves a stale entry when all is settled (finding) |
| `rabbit_calls` | 2 goroutines, 2 publications, refused messages, refused declarations, a broken connection | Close waits for publishers; success needs an acknowledgement; somebody can always go on, and every call returns, unless the library is stuck on an abandoned listener or somebody waits for his own lock |
| `rabbit_confirm` | 2 goroutines, 2 publications, refused messages | violated: success on the confirmation of another message (finding) |
| `index_events` | 3 events of seven kinds, 3 attempts, 1 restart, every fault | an acknowledged creation stays indexed and is not overtaken by an older one; only a stop and an error that reads like that of a garbled event cut the retries short; every event is settled unless the consumer stopped or lost its channel |
| `index_counts` | the same, no fault | violated: friend_count does not follow the events (finding) |
| `publisher_events` | 1 task of two events, a change or a batch, 1 retry, 2 starts, every fault | copies fit attempts and answers; batches tell the truth; no copy misses a queue; an event is owed until settled, reported or lost; all is settled unless the library is stuck |
| `cache_calls` | 2 goroutines, 2 keys, 2 calls, 1 repeated attempt, 1 late command, 1 tick | invalidation clears; counters add up; Close waits; calls return but for a Reconnect |
| `search_analytics` | 2 users, 3 queries, 6 records, lists of 2 | top queries rank; averages, rates and percentiles are right up to their rounding |
| `user_search` | 3 users, batches of 2, page sizes 0 and 2, window 4, first tokens none and -1 | walks are true, in what way depending on what changed meanwhile, and end; a reindex covers, and takes nobody out of the plain search |
| `server_calls` | 2 clients, 2 friends, a window of 1 response, 1 change, failing cache commands, cancelled calls, a stuck publisher | what was sent was once true; no token means all; shutdown waits for handlers, and ends when clients read on and no publisher is stuck |

Why the bounds are enough. Two users give one friendship and both directions of
it. Two concurrent requests are every pair of racing operations (add/add,
add/remove, remove/remove, writer/reader); a request is returned to "idle" and
starts again, so the sequences are unbounded, and an entry left by one request
meets the next ones. The two requests are alike (symmetry). For the RabbitMQ
client two goroutines give every pair of calls that hold the lock together or
wait for each other; two publications put two confirmations before two
listeners; of the operations that have a twin with the same steps
(DeclareExchange and DeclareQueue, Consume and BindQueue) one is in the run and
both are in the proofs. For the indexer three events put two creations of one
user and any third event into every order, three attempts are the code's own
number, and one restart redelivers an event at any point of its work. A task of
the publisher has two events under way at once when it is a batch, which is
what one answer for two listeners needs; one retry tells the first attempt from
the last; the second start finds queues half bound. In the cache two goroutines
give a reader and a writer of the lock, a late command and a call that it could
disturb, and an invalidation with a fill in between; a second key is one that a
pattern names and no call does. Six searches fill a list of two beyond its
length and let a query overtake another in it; users and queries are symmetric.
In `user_search` three users make pages of two, full and not, and a batch that is
not full; a size of 0 asks for an empty page; a walk of two pages meets any number
of writes. In `server_calls` a page of two responses and a window of one let a
client stop reading in the middle, and the other client fills the cached page with
a smaller limit than the reader's.

Publications, calls, records and changes are counted by `Max...` bounds in the
guards; where a system stops when they are used up, the run does not check for
deadlock. Nothing is cut off by a state constraint: every run explores all
reachable states of its instance. The safety properties that are proved
(section 4) hold without these bounds.

Fairness (`FairSpec`) in `FriendService` is weak fairness of each request's next
step. A goroutine keeps running, and each command returns, with an answer or an
error, because the clients have time limits. No fairness of `Begin`, of expiry or
of any fault is assumed, so that `StaleIsSwept` rests on the deletions alone. A
choice between success and failure inside a step is left open.

In `RabbitClient` the fairness is weak for each goroutine's next step and for
the library's handing out of confirmations, and strong for entering the lock's
queue (`RLock`, `Announce`): Go's RWMutex lets waiting readers in when a writer
leaves and keeps new readers behind a waiting writer, so that neither starves.
The broker owes no answer and the library need not read one: `GiveUp` must do.

In `SearchIndexer` the consumer's goroutine keeps running (weak fairness of
`Consume`); Elasticsearch answers within the client's time limits, with an
error if need be. In `EventPublisher` each publishing goroutine and each batch
goes on; the broker owes no answer and the process need not end. In
`CacheService` a goroutine does what it can do, and a wait for a reply ends
because go-redis has read and write timeouts; Redis need not answer, nothing
need expire. In `UserSearch` the client goes on asking, and nothing else need
happen. In `FriendServer` handlers go on, and main does unless a publisher is
stuck with the lock that `CloseEvents` needs; nobody makes a client read or
leave, so `StopEnds` asks of the clients that a stream is not stalled for ever,
and ends with "down" or with the stuck publisher. Nothing is assumed of publications, restarts and faults anywhere.

Each property has a mutant: a variant of one mapped definition with a
plausible bug, for which TLC finds the property violated in the same run. The
mutants stand before the definitions they vary, marked as such.

## 4. Proofs

`FriendServiceProofs` proves, for every finite set of users, any set of
concurrent requests, any page limits, any operations and arguments and any
faults:

- `TypeCorrect`: `Spec => []TypeOK`;
- `FriendshipsStayMutual`: `Spec => []FriendshipsMutual`;
- `StaleEntriesAreOwed`: `Spec => []StaleIsOwed`;
- `SequentialCacheIsFresh`: `Spec => []SettledCacheIsFresh`, when there is one
  request at a time and no fault;
- `ServiceImplementsGraph`: `Spec => ImplementsGraph`.

Assumptions: user ids are naturals and finite in number, limits are positive,
the argument pairs are pairs of users, and faults are the four named ones
(the ASSUMEs of `FriendService`, which TLC evaluates on every run).
`SettledCacheIsFresh` is proved for one request at a time only; with two it
fails, which the run `friend_overtaken` shows.

The argument. `TypeOK` is inductive together with `StageOK` (which operation
can be at which stage, and that the two users of AddFriend and
GetMutualFriends differ once validated). `FriendshipsMutual` needs both:
a transaction writes the two rows of two different users, each under its
condition. `StaleIsOwed` is not inductive as it stands: a step of a reader can
make an entry stale. The strengthening `CleanOK` says that what a reader in
`clean` holds still agrees with the store; a commit removes from `clean` every
reader whose value it may have changed (`CommitOvertakes`), so a fill either
stores a truthful answer or marks its key. A commit makes stale only entries
whose answer is read from the rows of its two users, and `SweepReachesSources`
shows that its ten deletion steps reach each of those keys; from there
`SweepStep` follows a key until it is deleted or its deletion fails. `IInv` is
the conjunction, `InductiveInvariant` the theorem `Spec => []IInv`.

`SequentialCacheIsFresh` adds that, with one request at a time and no fault,
nothing is ever excused (`UndisturbedOK`), so `SettledCacheIsFresh` holds: what
the run `friend_overtaken` refutes is due to concurrency alone.

The refinement, `ServiceImplementsGraph`: `Spec => ImplementsGraph`. Under the
invariant (and `RestOK`: a request at rest asks for
nothing, and without "lag" the copies are the table), `Begin` and `Return` of a
writer are Call and Reply, a transaction whose conditions hold is Accept
(`CommitIsAcceptOrLose`), or Lose when its answer is lost; each way to fail
before it is a Refuse that the graph allows (`ChecksAreRefusals`,
`IllegalWhenNotPermitted`); a crash is Restart; users coming and going are
Register and Unregister; and everything else, the whole cache included, changes
nothing that the graph can see.

`RabbitClientProofs` proves, for any number of goroutines and publications, any
of the operations and any faults, `TypeCorrect` (`[]TypeOK`),
`ClosedStaysQuiet` (`[]ClosedIsQuiet`), `SuccessIsAcknowledged`
(`[]SuccessNeedsAck`) and `NobodyWaitsInVain` (`[]SomebodyGoesOn`). The
invariant `IInv` adds to them `LockOK` (a writer is alone, and each stage
inside a call holds the lock its operation took), `StageOK`, `ConnectsAlone`
(only a goroutine without company reaches Dial, the others wait for themselves:
without it Dial could forget an acknowledgement that a success rests on) and
`AcksOK` (a listener holds an acknowledgement only when the broker gave one).
`SomebodyGoesOn` is the part of `CallsReturnUnlessStuck` that is about states,
and so can be proved: goroutines never all wait for one another. `HoldersOK` says that whoever holds the lock or
has announced that he wants it is at a stage inside a call, so that one of
these, or anybody when the lock is free, has a step (`HoldersGoOn`); only an
abandoned listener and the Reconnect that wants its own lock are excepted.
`CanGoOn` writes out what the steps of each stage wait for, since ENABLED is
out of the prover's reach. Assumptions: `Ops` are among the nine operations,
`MaxCalls` is a natural and `None` is no goroutine.

`SearchIndexerProofs` proves, for any users, events, number of attempts and of
restarts and any faults, `TypeCorrect` (`[]TypeOK`), `AckedStaysIndexed`
(`[]AckedIsIndexed`) and `RefusedForAReason` (`[]RefusedWithReason`). What they
need beyond themselves is what the consumer knows of the event it holds: `WorkOK`
(while it works on one or waits, an attempt is left) and `HandOK` (an event about
to be acknowledged has left its document in the index; a readable one about to be
refused has used up its attempts or is in `misread`). A document is replaced only
by that of the event in hand, which follows every settled one, so that a
redelivered event cannot bring an older state back. Assumptions: `Events` are events, the bounds are
naturals and there is at least one attempt, and `None` is no document.

`EventPublisherProofs` proves, for any number of tasks, starts and retries, any
kinds of tasks and any faults, `TypeCorrect` (`[]TypeOK`), `CopiesAndAnswersFit`
(`[]CopiesFitAnswers`), `BatchCorrect` (`[]BatchTellsTheTruth`),
`RoutingCorrect` (`[]NothingUnrouted`) and `PublisherImplementsChannel` (`Spec
=> ImplementsChannel`). The invariant adds `StageOK` (an event in work has an
attempt left, one that was never begun has no copies), `HeardOK` (every
acknowledgement on its way is of a message that was taken, and who has heard
one has a copy or is marked), `SetUpOK` (a process that runs has bound all
queues, and they stay bound) and `UnroutedOK`. The refinement maps `Begin` to
Accept, a message that is taken to PublishOne, the end of an event to Settle or
Report, and `Exit` to End; the rest are stutters.

`CacheServiceProofs` proves, for any finite set of goroutines, any keys, values
and bounds, `TypeCorrect`, `CloseIsExclusive` (`[]CloseWaits`),
`InvalidationCorrect` (`[]InvalidateClears`) and `CountersCorrect`
(`[]MetricsAddUp`). `LocalOK` relates each call to the keys set during it
(`rewritten`) and is kept by the steps of all the others: from its KEYS on an
invalidation knows every key that is there and has not been set during it
(`PatternOK`). The counters
and the operations that ended differ while a goroutine is between the end of its
operation and its `increment...`; `Balanced` says that the number of goroutines
there, by what they are about to count, makes up the difference, and
`OneMoves` that a step changes each of these numbers by its own goroutine only.

`SearchAnalyticsProofs` proves, for any users, queries, response times and list
lengths, `TypeCorrect`, `TopStaysRanked` (`[]TopIsRanked`), `PatternsCorrect`
(`[]PatternsAreNearlyTrue`), and what no run repeats: `SlowCorrect`, that the
slow queries kept are the latest, and `WarningCorrect`, that the warning of
slow queries is right until one has been dropped and never wrong. The lists are
ranked by frequency (`Ranked`) and a list that is not full is complete; the
arithmetic of the running average is `Drifts`. `PercentilesCorrect`
(`[]PercentilesCover`) rests on `AllListed`: the list that collectResponseTimes
makes has an entry for every search, no more and no fewer. The module therefore
gives the list as the set of its entries, <<query, which one>>, and says with
cardinalities where a time begins and ends in the sorted list (`Below`, `UpTo`):
these ranges do not overlap and leave no gap (`BelowAndUpTo`), the index is
inside the list (`IndexFits`), so that it falls in the range of exactly one time
(`PercentileIs`).

`UserSearchProofs` proves, for any finite set of users, any sizes of pages,
batches and the window, any tokens and any lists to reindex, `TypeCorrect`
(`[]TypeOK`: the ranking never names a user twice, nor one whom no search may
find), `ReindexCorrect` (`[]ReindexCovers`) and the two action properties,
`WalksCorrect` (`WalksAreTrue`) and `ReindexLeavesNoHole`
(`NoHoleWhileReindexing`). `JobOK`: whom the job was given is done, left or
excused. `WalkOK` says what a walk in the middle knows of a ranking that others
change: while nothing has changed, it has shown the ranking up to its offset;
when users only left, it has shown nobody twice and none of those is still
ahead; when users only came, everybody who was there when it began has been
shown or is ahead. The heart is that a ranking which keeps the order of those
who stay cannot bring a user back behind the offset when users only come, nor
forward past it when they only leave (`NoneSooner`, by the least place at which
it would happen; `KindsSay`, `NoteWalks`). The order of hits is stated as such
(`Precedes`, `Left`), not by an algorithm that makes it.

`FriendServerProofs` proves, for any clients, requests, limits, windows and
faults, `TypeCorrect` (`[]TypeOK`), `SentIsTrue` (`[]SentWasTrue`),
`NoTokenIsTheEnd` (`[]NoTokenMeansAll`) and `StopIsGraceful` (`[]StopWaits`).
What a query returns is the increasing list of the friends (`Rows`;
`RowsFacts` shows that there is one, with each friend once). The invariant
`TInv` says that a cached page is the first friends of a list that the user has
had, complete if it has no token, and a cached count the length of such a list
(`CacheTrue`); that a handler holds such a page and count (`HeldTrue`) and has
sent its first rows, with the total on the first and the token on the last
(`SentTrue`); and that a stream which ended well has sent them all
(`WholeTrue`). A page may be cut at another request's limit, and list and total
may be of different moments: only the lists the user has had (`past`) relate
them. For the shutdown, once GracefulStop has returned no handler runs and none
begins (`Quiet`).

Assumptions of these four: goroutines (`CacheService`), users (`UserSearch`) and
friends (`FriendServer`) are finite in number, because what is counted is
finite; limits, windows, batch sizes and bounds are naturals, and the marks
`None` and `NoToken` differ from what they stand beside. All are ASSUMEs of the
modules.

With that every safety property of a passing run, the invariants, the action
properties and the two refinements, is a theorem.

Only model-checked: liveness (`RequestsFinish`, `StaleIsSwept`,
`CallsReturnUnlessStuck`, `EventsAreSettled` of the indexer and of the
publisher, `CallsReturn`, `WalksEnd`, `StopEnds`), which TLAPS does not support
under fairness.

## 5. Findings

- `SettledCacheIsFresh` fails with a concurrent reader (run
  `friend_overtaken`): the fill of a reader and the deletions of a writer are
  not ordered. The stale answer stays for its time to live, 5 minutes (a count)
  to 2 hours (a friendship). `StaleIsOwed` and its proof show that, of commands
  that take effect before they return or not at all, this gap (a read of a lagging
  copy included), a failed deletion, a lost commit answer and a crash are the only
  ones. A SET or a transaction that
  was given up and arrives later would be another: `FriendService` has none (late
  commands are in `CacheService`).
- `SuccessIsItsOwn` fails (run `rabbit_confirm`): a listener hears the
  confirmations of all messages and Publish does not compare the tag.
- `CountsFollowEvents` fails (run `index_counts`): the update script is wrapped
  in a "doc" and becomes a field of the document; friend_count stays 0.

What the passing properties had to make exceptions for:

- `CallsReturnUnlessStuck` and `SomebodyGoesOn` except a library stuck on a
  listener that nobody reads any more (`Wedged`; `pkg/rabbitmq/client.go:208`
  registers one for each message and removes none: a later Publish hangs in
  NotifyPublish, before its five seconds begin, and Close and Reconnect behind it)
  and a Reconnect that waits for the lock it holds (`WaitsForItself`;
  `client.go:302`). `CallsReturn` excepts the Redis client's Reconnect for the same
  reason (`pkg/redis/client.go:338, 74`).
- `RefusedWithReason` excepts a shutdown: it makes the request of the event in
  hand fail and ends the wait before the next attempt with an error like any other
  (`event_consumer.go:131`), so the event is refused for good. And it excepts an
  error of a request whose text holds "json" or "unmarshal":
  `event_consumer.go:177-180` takes it for that of an event that cannot be read and
  refuses a readable one after one attempt.
- `EventsAreSettled` of the indexer excepts a lost channel, after which nothing
  subscribes again.
- `CopiesFitAnswers`: an event may be published once for each attempt, since an
  attempt whose confirmation is late is repeated; the consumer does not notice.
- `NoTokenMeansAll` is all there is: a full last page carries a token, because
  DynamoDB returns a key to go on from whenever the limit is reached
  (`friend_service.go:149`), where `friend_service.proto:107` promises "Empty
  if no more results"; the token is a placeholder that no request can use, so
  the next page is the first again; a cached page ignores the limit.
- `SentWasTrue`: list and total may stem from different moments, and a total
  of 0 may be a count that failed.
- `StopEnds` asks clients to read: a stream has no deadline, and one client that
  stops reading keeps the process alive. And it excepts a publisher that is
  stuck in the library (`Wedged` above): it holds the read lock for whose end
  Close waits, so that main hangs at `main.go:82` although every client reads.
- `WalksAreTrue` says nothing of a walk during which users move in the ranking,
  which any write and any copy of a shard that answers may make them do.
- `TopIsRanked` does not say that a list names a query once, nor that it has at
  most ten: neither holds (`search_analytics.go:318-334`).
- `PatternsAreNearlyTrue`: the first search of a query counts as a success, and a
  rate of exactly 4/5 may or may not be listed as failing.
- `MetricsAddUp`: a Get that fails counts as a miss and as an error.
- `NoHoleWhileReindexing` is about the search without text and filters and the
  suggestions other than those by mutual friends. Reindexing sets every social
  metric back to its default (`user_indexer.go:170-176`): a search that filters
  on friends or mutual friends, or whose text scores low, and the suggestions by
  mutual friends lose users whom they named, until the metrics are written again.

Seen while reading, not the subject of a property: `cmd/server/main.go:54` and
`:58` call NewFriendService and NewGRPCServer with an argument less than they
take, so the server does not build as it stands; the services are modelled as
`cmd/test-friend-cache` puts them together. Documents made by user.created
events have neither status nor privacy settings, so no search finds those users
(`event_consumer.go:282`, `search_service.go:176-188`). SearchUsers leaves out
"current-user-id", a placeholder. Location suggestions ask for "Seoul" and the
indexer writes "Unknown". A limit of 0 gives no results and no token. The
optimizer's ErrorRate is always 0 (`search_optimizer.go:290-299`). A hit without
social_metrics is a nil dereference (`search_service.go:556`), an id shorter
than eight characters a panic (`friend_handlers.go:130, 248`). A store that
fails in GetUser is reported as NotFound (`friend_service.go:116, 184`), an
existing friendship as Internal. GetMetrics writes the hit rate under the read
lock and returns the live structure (`cache/service.go:173`).

## 6. Plan

Done: `FriendGraph` and `FriendService`, `RabbitClient`, `SearchIndexer`,
`EventChannel` and `EventPublisher`, `CacheService`, `SearchAnalytics`,
`UserSearch`, `FriendServer`, and the proofs of section 4.

Left, in order of use: one pipeline of a publisher and an indexer with a single
state, to compare documents with friendships once the queues are empty (as long
as `CountsFollowEvents` fails there is nothing to compare); the commands
of the Redis client without callers.

Not modelled, and why:

- query text, scoring, highlights and the index mappings: data without state;
- parsing of configuration and Redis URLs, table creation and key formats:
  run once, sequentially;
- SetNX, Increment, MGet, MSet and Pipeline of the Redis client: no caller;
- ResetMetrics of the cache service: no caller;
- UpdateUser and ListUsers of the user repository: what they read and write
  matters to no other part;
- latencies, result counts, and the text of recommendations;
- GetUserSuggestions' handler: the shape of SearchUsers' without tokens;
- the drivers under `cmd/`: benchmarks and demonstrations.
