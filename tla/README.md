# A verification development for the SakuraEvl backend

The system is a small social network: a Go HTTP server
(`src/app/backend`, package `cmd/api`) over one MariaDB database, with
server-sent events (SSE) for notifications and thread replies, deployed with
docker compose by terraform. This directory holds TLA+ modules translated from
that code, TLC configurations that check them on small instances, and proofs
checked by TLAPS. Paths below are relative to `src/app/backend` unless they
start with `src/`.

## 1. Inventory

| Component | Code | State it keeps | Operations | Meets |
|---|---|---|---|---|
| Event hub | `internal/realtime/hub.go` | mutex, map key -> set of buffered channels | Subscribe, unsubscribe, Publish | stream handlers, createNotification, CreateReply |
| Stream handlers | `internal/handler/stream.go` | one goroutine and one channel per client | subscribe, receive, write, end | hub, `threadRootID`, net/http |
| Posts, replies, reposts, likes | `internal/handler/{post,reply,repost,like}.go` | tables `posts`, `reposts`, `likes` | CreatePost, DeletePost, CreateReply, Repost, UnRepost, Like, Unlike | notifications, Threads hub |
| Post loaders | `internal/handler/{batch,handler,post,reply}.go` | locals of a request | lists through `fetchPosts`; single posts through `fetchPost`; GetThread | the same tables |
| Notifications, follows, footprints | `internal/handler/{notification,user,footprint}.go` | tables `notifications`, `follows`, `footprints` | Follow, Unfollow, GetProfile, createNotification, paged lists, mark read | Notifications hub |
| Accounts and sessions | `internal/handler/auth.go`, `internal/middleware/auth.go` | tables `users`, `sessions`; the browser's cookie | Register, Login, Logout, Required, Optional | every authenticated route |
| Rate limiting | `internal/middleware/ratelimit.go` | map address -> bucket, lastSeen; a sweeper goroutine | getVisitor, Allow, cleanupVisitors | routes of `cmd/api/main.go` |
| Schema migration | `migrate.sh`, `migrations/*.sql`, `compose.reg.yml` | the schema, `schema_migrations` | create ledger, check, apply, record, exit | api container (`depends_on`), terraform |
| Recommended feed | `migrations/003`, `004`, `post.go` | table `recommended_posts`, a database event | refresh each minute; GetTimeline | loaders |
| Search, trending, user lists | `internal/handler/{search,trending,user}.go` | `users.display_name` | read only, UpdateProfile | loaders |
| Database connection | `internal/db/db.go` | one open connection, who waits for it | New with its pings, acquire, release, Close | every handler |
| Start and shutdown | `cmd/api/main.go`, `compose.reg.yml` | server, signal context, listener | start, ListenAndServe, Shutdown, return, restart | all requests |
| Seed data | `seed/main.go` | the rows it drew, its stage | ten stages of batches | the same tables, beside the api |
| CORS, health, models, telemetry, proxy | several | none that the others read | - | - |

### What is hard

* **No transactions.** Every handler is a sequence of statements in autocommit
  mode. Requests interleave between any two: a parent is deleted between the
  check that it exists and the INSERT of a reply; `Repost` and `UnRepost` of one
  account cross; lists combine SELECTs of different moments.
* **Errors that are not looked at.** `Like`, `Repost`, `Unfollow`, `Logout`,
  `recordFootprint` and `createNotification` go on, or answer 200, when their
  statement failed. A statement can also take effect and be reported failed.
* **The mutex of the hub.** A publisher walks all channels of a key with the
  mutex held; a channel is closed by the handler that leaves; a send on a closed
  channel would panic and a send that blocks would stop every publisher.
* **The lock the limiter lets go.** `getVisitor` returns a bucket and releases
  the mutex; the sweeper can forget the address before `Allow`.
* **Half-applied migrations.** DDL commits by itself, so a runner that dies
  leaves a part of a file, or a file without its row in the ledger.
* **Unbounded climbs and recursion.** Threads and reposts are followed row by
  row while rows come and go; a repost may name a post that does not exist yet.
* **Paging by offset** over lists that grow at their head, shrink, or have rows
  that tie in their order.
* **A view and a stream of the same thread.** A client opens the stream, then
  loads the thread with one SELECT per post; what the load misses the stream
  must bring.
* **A table refreshed beside its readers.** The recommended feed lists one table
  and counts another, and the first lags by a minute.
* **One database connection** shared by all handlers: whoever asks for a second
  one while his rows are open waits for himself, and nobody else gets on.
* **Ends and starts of the process.** A signal can come while the database is
  being pinged; `main` can return while requests are still served; what docker
  does next depends on the exit status.
* **A seed that is not one transaction**, run beside the api and perhaps twice.

`PROJECT.json` lists these as hazards, line by line, with the properties that
would fail if the code got them wrong.

### What makes each component correct

* Hub: no send on a closed channel; the map holds exactly the attached channels;
  a client gets events of its key, in order, once, and misses one only while its
  channel is full; publishers never wait for clients; streams clean up.
* Posts: parents are earlier posts; only authors remove rows; notifications
  reach the author; events follow what was stored; a stream named by any post of
  a thread gets the thread's replies; answers are true.
* Loaders: the batch loader shows what the loader of one post shows; counts are
  right up to what was written meanwhile; every request is answered.
* Notifications: nothing without its cause; paging misses nothing; the unread
  count covers the rows beside it.
* Sessions: served only as the account whose credentials were given, not after
  24 hours, not after a logout.
* Limiter: at most burst plus rate in every window, refusals deserved.
* Threads: a thread that is shown hangs together; shown and streamed together
  are the thread.
* Feeds: whoever turns the pages sees every entry; the recommended feed catches
  up with the latest one.
* Process and connection: nobody waits for himself or for a stream; told to stop
  it ends; not told to stop it comes to serve.
* Seed: a run beside taken names builds nothing; each of its replies is notified
  once; its loops end.
* Migration: the ledger tells the truth, every completed run gives the schema of
  a fresh one, a failed run can be repeated, and an api that compose starts after
  it has the schema of its release.

## 2. Modules

Each module is parameterised by CONSTANTS with named assumptions. `MC*` modules
add the definitions TLC needs (symmetry, seeds); `*Proofs` modules hold theorems.
Operators commented `mutant:` are plausible bugs of the definition below them;
no behaviour of the system uses them. They are kept so that it can be tested
that each property notices the bug (`PROJECT.json`, "mutants").

| Module | Models | Uses | Proofs |
|---|---|---|---|
| `LossyBroadcast` | what a client of a hub is promised | | |
| `Hub` | `hub.go`, `stream.go` | refines `LossyBroadcast` | `HubProofs` |
| `Posts` | the writing handlers, `threadRootID`, `createNotification` | | `PostsProofs` |
| `Threads` | a client of a thread: ThreadStream, then GetThread | `LossyBroadcast` as its hub | `ThreadsProofs` |
| `Loader` | the batch loader, `fetchPost` | | `LoaderProofs` |
| `Feeds` | what the lists contain, page by page; the refresh event | | `FeedsProofs` |
| `Notifications` | follows, footprints, notifications and their pages | | `NotificationsProofs` |
| `Sessions` | accounts, sessions, cookies | | `ApiProofs` |
| `RateLimiter` | one limiter | | `ApiProofs` |
| `Server` | start, shutdown, restart, the one connection | | `ApiProofs` |
| `Migrate` | the migration runner and deployment | | `DatabaseProofs` |
| `Seed` | the program that fills the database | | `DatabaseProofs` |

### LossyBroadcast, Hub, HubProofs

`Hub` models `hub.go` and `stream.go` at the grain of the mutex. `mu` is
`Hub.mu`; `subs` is the map; `buf` and `closed` are the channels, one per stream.
A Publish is `PublishCall` (waits for the mutex), `PublishLock`, one `Send` per
channel in any order (the range over a map), `PublishReturn`. A handler is
`Subscribe`, `StreamStart` or `StreamUnsupported` (the writer cannot flush),
`Receive` and `Written`, `Disconnect` (the client's, at any moment), `StreamEnd`,
`Unsubscribe` and `CloseChannel`. Receiving needs no mutex and interleaves with a
walk. The body of Subscribe is one step because nobody can see inside it; the
body of unsubscribe is two, so that closing outside the lock would show.

`LossyBroadcast` says what a client is promised: events of the key it watches,
since it joined, in order, each at most once, some perhaps not. `Hub` implements
it under the mapping `Abstract` (an event is handed over when the handler takes
it from its channel; leaving is the removal from the map). `Threads` builds on
the abstract module, not on `Hub`.

### Posts, PostsProofs

The handlers that write posts, replies, reposts and likes, one statement per
step, with `threadRootID`, `createNotification` and the subscription of a thread
stream. `pc[w]` names the next statement of worker `w`; `op`, `target`, `owner`,
`newId`, `root`, `depth` are the locals of its handler. Each statement has three
outcomes: done, failed, and done but reported failed (the connection or the
request's context broke). Guards such as "a second repost is an insert again"
come from the keys of the tables: `reposts` and `likes` are sets because of
their composite keys, `posts` is a function of AUTO_INCREMENT ids that are never
used again. The hubs are the sequences `announced` and `threadEvents` of what
was published on them; delivery is the matter of `Hub`. `written` remembers each
row as inserted, so that properties can speak of rows deleted since.

### Threads, ThreadsProofs

A client opens `GET /posts/{id}/stream` of any post of a thread (`OpenStream`,
`ClimbStream`, `SubscribeThread`), and when the headers have come loads
`GET /posts/{id}/thread` (`FetchThreadPost`, one `FetchAncestor` per post upwards,
then the recursion of `fetchReplyTree`). The recursion is kept as the list `todo`
of the calls not made yet, in depth-first order; one call is one SELECT. Writers
run CreateReply up to its Publish, and posts are deleted. `threadRootID` takes a
SELECT that fails for the end of its climb: `ClimbStream` has that outcome too, and
`astray` remembers that it left the stream with a key below the root. (A failing
statement of a writer is in `Posts`.) `parent` remembers every post ever written; `there` is the table. `kept` and `seen` are histories of the
rows present throughout, and at some time of, the load.

### Loader, LoaderProofs

The reading side. A list is a SELECT per step: the page, one level of
`fetchPostRecords` per step, the likes, one level of `countRepliesBatch` per step,
reply targets, viewer flags, total. The loop bodies are relations on the locals
(`load`), computed from the tables as they are at that step. `GetPost` is
`fetchPost`'s recursion over originals, one row per step. Other requests write in
between (`InsertPost`, `DeletePost`, `InsertLike`, `DeleteLike`). `kept` and
`seen` remember which rows were there throughout and at some time. A page is the set
of listed posts that have an offset's worth of newer ones; their order is the
SELECT's and nothing below depends on it. Users, contents
and the reposts counts (the likes counts with another table) are left out. The
initial states are *all* tables the writers can produce, including reposts of
posts that were deleted or do not exist yet.

### Feeds, FeedsProofs

What each list is made of (`Entries`), in which order (`Before`), and how a client
turns its pages: `SelectPage`, `LoadPosts` or `LoadUsers`, `CountTotal`, for the
three feeds, search of posts and users, trending and the users followed. A SELECT
whose ORDER BY leaves ties may return any of `Answers`. The clock decides what is
recent; `Refresh` is the database event of 004, which replaces rows and leaves
those of deleted posts to the foreign key's cascade. The writers are those of the
other modules reduced to their effect on the lists. `client.missing` is a
history: the entries of the start that have not been shown, emptied when an entry
went away, changed places or had no order of its own.

### Notifications, NotificationsProofs

`Follow`, `Unfollow`, `GetProfile` with `recordFootprint`, `createNotification`
and `MarkNotificationsRead`, with the same three outcomes of a statement, and one
client that pages through its notifications (all, or of one type) or its
visitors. Rows of `notifications` are never deleted, so their position is their
id. A page is the set of the entries that have an offset's worth of others `Ahead` of
them in the order of the list (a visitor is ordered by the latest visit). The client
asks for page after page until `total` says there is no further. Each SELECT of a list
can fail: that of the page is answered 500 (`ListRefused`), while the errors of the two
counts are ignored and `unread_count` and `total` answered as 0 (`ListUnread`,
`ListTotal`).
`Meetings` limits who follows and visits whom in an instance.

### Sessions, ApiProofs

Browsers send credentials or the cookie they hold; a worker runs the request's
statements; the answer's cookie reaches the browser in `Deliver`, in any order
among overlapping requests. `Tick` is the clock of the server, the database
and the browser alike: `expires_at` is computed by the server and compared with
the database's NOW(), so the model assumes that both agree on time and zone.
Passwords are compared as values (the hash is a function of them without
collisions) and tokens are always new.

### RateLimiter, ApiProofs

One limiter; `main.go` makes three, which share nothing. Time is counted in
ticks of the smallest refill. `getVisitor` and `Allow` are separate steps because
the mutex is released between them. `getIP` cuts what follows the last colon of
the header or address, as the code does. `MaxDelay` bounds how long a request can
lie between the two steps, and the assumption `IdleLimit >= Capacity + MaxDelay`
is what makes forgetting harmless: three minutes against the three seconds in
which a bucket fills (1 per second with burst 3, 2 per second with burst 5).

### Server, ApiProofs

`main` from the tracer to its return, with the pings of `db.New`, the goroutine
that waits for the signal, and the two deferred calls; `Restart` is docker's
`on-failure`, `ComposeUp` an operator's. A request is a number of statements; each
waits for the connection (`Ask`, `Acquire`), executes, perhaps leaves its rows
open (`Opened`) and gives the connection back (`Executed`, `Exhausted`).
`Acquire` gives it to any of those who wait. A stream makes its statements and then
stays. Clients go away at any moment, and the database may.

### Seed, DatabaseProofs

`seed/main.go` batch by batch. A stage is a loop over batches, each of which is
one INSERT; the requests of others fall in between, the program may be stopped
anywhere (`Fails`) and run again (`Run`). The loops that draw until they have
enough distinct rows are `InsertPairs`: a draw that was drawn before changes
nothing and is left out. `After` is the order of the stages and `With` what an INSERT
does to a table. Which rows are drawn, and how many replies a post gets, is any
choice. Texts, times and the posts of notifications are left out.

### Migrate, DatabaseProofs

`migrate.sh` one statement at a time. A statement of a file makes an object and is
kept (`IF NOT EXISTS`), an error (`CREATE INDEX`) or a remake (`REPLACE`,
`CREATE OR REPLACE`, `ALTER`) when the object is there; it fails when an object
it needs is missing. `schema[o]` is the file that made `o` last, which tells the
refresh event of 003 from that of 004. `Fresh` is what the files leave on an empty
database; it is written object by object (`Once`) and does not use the `Effect` of
the runner's statements. `Interrupt` ends the runner between any two
statements; `set -e` ends it at the first error.

`api` is started in three ways. `Deploy` is terraform's `compose down`, then `up`, with
the same files or more: the runner runs again, and `Finish` starts api
(`service_completed_successfully`). `Up` is `compose up` alone, on the same files
(`init-ssl.sh:47` and then `deploy.tf:124`, or an operator): the runner runs beside
whatever is running. `SwitchVariant` is `scripts/switch-variant.sh`, at any moment:
`compose up -d --no-deps api` passes over `depends_on`. `bypassed` remembers that api was
started so while it was not running, until the runner completes or the next deployment
takes it down.

## 3. What TLC checks

Every pass run explores its instance completely. Runs marked "ends" switch
deadlock checking off because the instance really stops: a request has been
answered, or a bound on time, rows or writes is reached. The other runs check it.

| Run | Instance | Shows |
|---|---|---|
| `hub` | 2 keys, 2 streams, 2 publishers, buffers of 2, 3 events | NoSendOnClosed, MapIsExact, LossNeedsFullBuffer, ImplementsBroadcast, PublishReturns, GoneStreamsEnd |
| `posts` | a thread of 2 posts, every operation, 2 accounts with a worker each, 3 requests, 1 failure | ThreadsAcyclic, NotifiesTheAuthor, AnnouncedAsStored, ThreadReachesStreams, RepostsPaired, OnlyAuthorsDelete, AnswersAreTrue |
| `threads` | 1 client, 2 writers, 4 posts, 1 deletion, 1 failing SELECT, depth limit 2 | ThreadShown, NothingMissed |
| `loader` | every table of up to 3 posts, pages of 2, depth limit 2, 1 write, 1 failing SELECT | BatchAgrees, RepliesBracketed, RefusedForDeletion, ListsAnswered, SinglesAnswered (ends) |
| `feeds` | 7 lists, pages of 1, 2 posts at first and 1 more, 2 writes, 2 ticks, 2 users | PagesComplete, FeedSettles (ends) |
| `notifications` | 3 users, 3 rows of each table, pages of 1, 1 failure | PagingSkipsNothing, UnreadCoversPage (ends) |
| `sessions` | 2 browsers, 2 requests at a time, 2 names, addresses and passwords, 2 tokens, 1 failure, time 0..1, lifetime 1 | ServedAsSelf, CookieIsBacked, LogoutEndsSession (ends) |
| `ratelimiter` | addresses of up to two fields out of 2, 2 requests at a time, burst 2, 6 ticks | BurstBound, RefusedOnlyOverBurst (ends) |
| `server` | 2 requests, 1 stream, up to 2 statements each, 2 pings, 1 outage; any number of signals, failures and restarts | PoolExclusive, RequestsAnswered, SignalEnds, ServesAgain |
| `seed` | 3 users, 1 post, batches of 2, 3 likes of 3 possible, replies 2 deep, 2 runs, 1 request of others | RerunStops, RepliesNotified, SeedEnds (ends) |
| `migrate` | every release, 3 interruptions anywhere | RecordedIsApplied, Converges, ApiSeesSchema, Recovers |

Each module but `LossyBroadcast` also states a `TypeOK` (`ServerTypeOK`,
`LimiterTypeOK`, `MigrateTypeOK`), which is a theorem of it.

Why the bounds are enough.

* `hub`: its hazards need one channel to be removed while another of the same or
  another key is served, and a buffer that fills: two streams, two keys, and one event
  more than a buffer holds. The third event is lost if the handler has taken none of
  the first two, and must be kept if it has taken one; a hub that counts what it has
  sent instead of what is waiting would lose it there. A buffer that fills again and
  then loses takes more events; that, as any number of each, is left to the proof.
* `posts`, `sessions`, `notifications`: two requests that cross, a third that
  follows, and one failing statement. What an idle worker of `posts` remembers of its
  last request is left out of the fingerprint (`WithoutOldRequests`): the next request
  overwrites it before it is read. Paging needs an entry that moves over a
  page's end while the client is between pages.
* `threads`: a thread that branches and is as deep as the limit, a deletion in its
  middle, and two replies on the way while the client climbs and descends; the failing
  SELECT may fall into either.
* `loader`: on one page a repost, what it reposts and a reply below that; a cycle of
  reposts needs two posts; chains of three posts reach a depth limit of two.
* `feeds`: the first page must be answered before a write that shifts the second;
  the refresh must fall before, between and after; a like must grow older than a
  day, which is two ticks, and than an hour, which is one.
* `ratelimiter`: an address that is forgotten, comes back and meets the bound
  within the same window: six ticks, two tokens a bucket and a sweep every two.
* `server`: its behaviours are not bounded in length; two statements are the least
  with which a request can wait for itself, and three clients the least with which
  one can be passed over.
* `seed`: a batch that is not full, a stage of two batches, all pairs drawn so that
  the last draw has one choice, a second run on what the first left.
* `migrate`: bounded by its interruptions only; its safety is proved for any number.
  Runs beside api and switches of its image are as many as there may be.

### Fairness

* `hub`: a runnable goroutine runs: weak fairness of what a publisher and a handler
  do. That is enough in an instance with finitely many calls, in which nobody can
  be overtaken for ever; the runtime promises more (a `sync.Mutex` starves nobody,
  a select picks at random). Nothing is assumed of the clients: they need not
  connect, read or leave, and a write returns for certain only once the client is
  gone.
* `loader`: the request runs on. What is assumed is that a SELECT succeeds again
  and again, not that one fails, and nothing of the writers.
* `feeds`: the scheduler of the database runs the event; nothing of clients and
  writers.
* `server`: goroutines run, the database ends every statement, docker restarts
  what failed: weak fairness. `database/sql` hands the connection to a waiter drawn
  at random (strong fairness of `Acquire`), and the port can be had if it is tried
  again and again (strong fairness of `Listen`). Nothing is assumed of clients,
  operators and the database's being there; ServesAgain names the last in its
  premise.
* `seed`: the program runs on; others and interruptions are not fair.
* `migrate`: the script runs on, and someone deploys again after a failure.
  Interruptions are not fair, and bounded.

### Where the code does not do what is written

`posts_streams_delete` ends in a counterexample to SameThreadSameKey. In a thread 3
under 2 under 1, post 2 is deleted; a stream is then opened on post 3, which is still
there. `threadRootID` ends at 2, whose row is gone, and so does the stream's key. A reply
to post 1 is published under key 1 and does not reach it, although `docs/api.md:36-37`
says that every level of a thread receives its replies. (The property asks nothing of a
stream of a post that is gone itself; the document promises nothing for it.) ThreadReachesStreams, checked in
`posts`, is the same promise for threads in which nothing was deleted and which are
not deeper than the climb.

Other properties hold only under a condition that they name, and the models show
why:

* RepostsPaired: no failure, and one request of an account at a time. Otherwise
  UnRepost's two DELETEs can fall between Repost's two INSERTs. It counts several
  repost rows of one post as paired: a second POST inserts one more into `posts`,
  which has no key it could be a duplicate of (`repost.go:27`), and a repost row can
  be deleted as a post, which leaves the row of `reposts`.
* LogoutEndsSession: no statement fails. Logout answers 200 when its DELETE failed.
* SinglesAnswered: no cycle of reposts. `Repost` does not look for the post it
  names, so two reposts can name each other, and `fetchPost`, unlike the batch
  loader, follows them until the request is given up.
* ApiSeesSchema: not of an api started by `scripts/switch-variant.sh:66`
  (`docs/perf-compare.md:74-80`, `117-120`). `--no-deps` starts it also when the last
  run of the migration failed or none was made, on whatever schema there is, and a later
  run may then work beside it. The property speaks of it again once a run completes.
* PagingSkipsNothing: no count fails. The errors of `notification.go:98-101` and
  `footprint.go:63-66` are ignored, `total` is answered as 0, and the client takes the
  page for the last. Rows whose actor cannot be loaded are left out of a page
  without notice. A footprint that was not stored is notified all the same.
* UnreadCoversPage: the count does not fail. The error of `notification.go:91-94` is
  ignored too, and `unread_count` 0 is answered beside unread rows.
* PagesComplete: no tie in the order of the list, nothing in front of the client
  deleted, no failed count (which is answered as 0 and ends the paging).
* NothingMissed: no SELECT of the load failed; GetThread answers 200 without what a
  failed SELECT would have shown. And none ended the climb of the stream below the root:
  `threadRootID` returns the post it has come to (`handler.go:193`), the client is
  subscribed to that key, is not told, and gets no reply. Nor does it promise anything
  below a post that was deleted.
* Recovers: 002 is three plain CREATE INDEX. Once cut short after the first, every
  later run fails on it and api is not started (`compose.reg.yml:28-30`).
* RepliesNotified is about the seed's own replies. The INSERT ... SELECT at its end
  reads all replies, so those made through the api are notified twice, also those
  of an earlier run.
* SignalEnds says that the process ends, not that requests are answered before:
  `main` returns as soon as `ListenAndServe` does, which is when Shutdown was called.

## 4. What is proved

TLAPS checks these for every value of the constants that satisfies the named
assumptions (any number of keys, streams, workers, posts, clients, any buffer size,
any bound).

`HubProofs`, from `HubAssumption`:

* `TypeCorrect`, `SendsOnlyOnOpenChannels` (NoSendOnClosed), `MapStaysExact`
  (MapIsExact).
* NoSendOnClosed is not inductive: that the channels still to be visited are
  open needs that they are in the map (`WalkInv`), that the map holds attached
  streams only (`MapIsExact`), that closed streams are done (`ChannelInv`), and
  that nobody else is inside the mutex (`MutexInv`). `IInv` is their conjunction.
  Two lemmas say what the two updates of the map return; `NextIInv` has a step
  per action.

* `HubIsABroadcast`: `Spec => ImplementsBroadcast`, the refinement of
  LossyBroadcast, for any number of clients, keys and events.
* A Receive is a Deliver of the abstract hub only if what the channel holds is
  newer than all that was taken, of the right key and not older than the
  subscription. That is `OrderInv`. It is kept by a Send because the event being
  sent is newer than all that the channel was given (`Fresh`, for the channels not
  visited yet) and is the last of the log under the key of the walk (`SentInv`).
  `RInv` adds both to `IInv`. Publishing refines the step that takes the mutex,
  leaving the removal from the map; every other step is a stutter.
* `LossIsOverflow` (LossNeedsFullBuffer), an action property. It asks of each step that
  makes a stream miss an event (`Missed`: due to it, and neither in its channel nor taken)
  that its channel is full at that moment, of older events that are due to it. One lemma
  per kind of step shows that none loses anything (`LossOK`) but a Send that finds
  no room: taking an event moves it from the channel to the client, an event becomes due
  in the step that makes it pending, and nothing is due to a stream that subscribes. The
  Send drops an event newer than all that the channel holds, which are due to the
  stream, by `RInv`; that the channel holds no more than `SubBuffer` is `Bounded`.

`PostsProofs`, from `PostsAssumption` and `SeedAssumption`:

* `TypeCorrect`, `ParentsAreEarlier` (ThreadsAcyclic), `NotesReachTheAuthor`
  (NotifiesTheAuthor), `DeletionsAreByAuthors` (OnlyAuthorsDelete).
* The argument is that what a handler has read stays true of the rows *as
  written*, though not of the table: rows never change and ids are not used again
  (`RowsInv`), so a worker's `owner` is the author of its target even after the
  target was deleted (`WorkerInv`), and a stored notification agrees with the rows
  it is about (`NotesInv`). The steps are grouped in lemmas by what they touch:
  locals only, an INSERT into posts, other tables, notifications.
* `AnswersHold` (AnswersAreTrue), under `OneRequestPerUser`. `DoneInv` says, statement
  by statement, what a request none of whose statements failed has done so far. It
  rests on nobody touching the rows of another user (`OthersRows`), which holds for
  `posts` because every DELETE names the author. With two requests of one user the
  statement is false: a Like answers 200 after a crossing Unlike.
* `RepostsStayPaired` (RepostsPaired, which names the same condition itself): the two
  tables agree about each user and post except for a worker between its two statements
  (`PairInv`).
* `StoredIsAnnounced` (AnnouncedAsStored): the notifications of a user that are stored
  are those announced and those of workers about to announce, and perhaps more when a
  statement failed (`CountInv`). To count, the busy workers must be finitely many,
  which they are because a request makes at most one worker busy.
* `RepliesReachStreams` (ThreadReachesStreams), for threads of any depth and shape. The
  top of a thread is a recursive function of the rows. That its equation has a solution
  is shown by giving one, the least sets of ids closed under parents (`AncestorsAre`);
  that ancestors are earlier, that a thread has one top and that later rows change
  neither (`AncestorsEarlier`, `RootIs`, `ThreadsKeep`) by induction over ids, which
  `IdInduction` derives from the library's fact that the natural numbers are
  well-founded. `ThreadInv` then says that a climb is still in the thread it started
  in, with as many ancestors left as the limit needs, and that events carry the top of
  their reply's thread. It is stated for the tables untouched; a deletion or failure
  is never undone (`TouchedStays`), so it need not survive one.

`DatabaseProofs`, about `Migrate`, from `MigrateAssumption`, for any number of
interruptions at any of the files:

* `MigrateTypeCorrect`, `LedgerIsTrue` (RecordedIsApplied), `ApiHasItsSchema`
  (ApiSeesSchema).
* An object is as new as the last file that made it (`Made`): a statement that finds an
  object and keeps it proves nothing about its own file, so RecordedIsApplied asks of the
  others that the object is of their file or a later one. No statement takes an object
  away or makes it older (`EffectOnlyAdds`), because a file is applied only when all
  files before it are recorded and it is not; that is part of `LedgerInv`, with the
  prefix of the file that is applied while the runner is in it.
* `ApiInv`: the runner passes recorded files only, and an api that `compose up` started
  has its files between a completed run and the next deployment, also while the runner
  runs again beside it. `FilesFact`, which the definitions of the files give, says that
  every statement makes an object.
* `RunsConverge` (Converges). The ledger names the first r files, and the schema is
  what a fresh run of them leaves with the first k statements of the next made over it
  (`Place`, `Half`). k may be ahead of the runner, which then makes again what an
  earlier run has made; that changes nothing because the objects of a file differ from
  each other (`ObjectsDiffer`) and each is already as the whole file leaves it
  (`OneStatement`). The argument needs that only one file is ever half applied, which
  is what stopping at the first error gives.

and about `Seed`, from `SeedAssumption`, for any numbers, batch size and writes of others:

* `TypeCorrect`, `RerunsStop` (RerunStops), `RepliesAreNotified` (RepliesNotified).
* RerunStops is about a run that started beside a name of the seed, at a stage after
  the users; what makes it so is earlier: such a run has a taken name still to come
  (`NamesInv`), and names are never given back. RepliesNotified adds up over runs: a
  first run has notified none of its replies until it notifies all (`ToldInv`), and
  later runs do not come that far. `SeedType` says what the program's variables refer
  to. One lemma per step, and one for the steps of others.

`ApiProofs`, about `Server`, from `ServerAssumption`:

* `ServerTypeCorrect`; `ConnectionIsExclusive` (PoolExclusive), which is inductive given
  the types; `OnlyTheSignalStops`: the process ends without an error, upon which
  docker leaves it stopped, only when told to. That needs `Told`: the listener of a
  serving `main` is closed by Shutdown only, and Shutdown follows the signal.

and about `RateLimiter`, from `RateLimiterAssumption`, for any addresses, burst, rate
and number of requests:

* `LimiterTypeCorrect`, `BurstIsBound` (BurstBound), `RefusalIsDeserved`
  (RefusedOnlyOverBurst).
* BurstBound speaks of windows between requests that passed; `Allowance` is its
  strengthening to windows that reach to now: what was spent since any request, and
  the tokens left, are covered by the burst and the time since. For an address the
  sweep has forgotten it is the time alone that must cover them, so that the full
  bucket of its next request gives nothing away. That is where
  `IdleLimit >= Capacity + MaxDelay` is used: a bucket is used at most MaxDelay after
  its address was last seen (`UsedSoon`), and the sweep does not come while a request
  holds the bucket (`PendingKnown`). `UsedUp` is the bound from the other side: a
  bucket lacks only what some window has spent. It makes refusals deserved.

and about `Sessions`, from `SessionsAssumption`, for any number of browsers, requests
at a time, accounts, tokens and failing statements:

* `TypeCorrect`, `CookiesBacked` (CookieIsBacked), `OwnSession` (ServedAsSelf),
  `LogoutEnds` (LogoutEndsSession).
* A cookie is set only after its INSERT was seen to succeed, but it travels: between
  the INSERT and the browser there is an answer under way, and a Logout of it may
  have run. So `HeldBy` is stated of cookies and of answers alike (`RequestOK`,
  `CookiesOK`): the token was given to that browser, and it is backed by a session or
  logged out. `SessionsOK` says that a session is for the account of the credentials
  its token was made for, which needs of a request about to insert one that it has
  found that account (`RequestOK`). `LoggedOutOK` is the history of failures that
  LogoutEndsSession speaks of. `Grows` is what every step does to the tables: rows and
  tokens are added, and a session goes only with its Logout; from that alone the
  requests that do not move stay right (`RequestStays`).

`ThreadsProofs`, from `ThreadsAssumption`, for any number of clients, writers and posts,
any depth limit and any deletions and failures:

* `TypeCorrect`, `ThreadIsWhole` (ThreadShown), `RepliesReachTheReader` (NothingMissed).
* All of it is about lines: a post and the posts above it (`Line`). Parents are earlier
  rows, so `Line` is the function its equation defines (`LineIs`), lines are nested,
  finite and one post longer per reply (`LineFacts`, `Lengths`), have one root
  (`OneRoot`), and no later row changes them (`LinesKeep`); by induction over ids.
* A climb is on the line it started from, and its depth makes up for what it has left of
  it (`Climbed`); so when it ends and the line is whole and no longer than the limit it
  is at the root (`Topmost`). That is stated of writers, of clients that no failed SELECT
  has led astray (`KeyInv`) and, for good, of the events sent and the keys watched: writer and client agree on the key because a thread
  has one root. Every reply was published or is about to be (`RepliesInv`).
* GetThread reads many times while rows come and go. `KeptInv` says what `kept` is worth:
  rows are kept from the oldest on, and those published before the client subscribed are
  kept unless deleted. `ChainInv` and `TreeInv` say that what was gathered hangs together.
  `CoverInv` is completeness while it is not finished: a post below that is within the
  limit, and whose line stayed, is shown or under a call still to be made (`Covers`). A
  SELECT hands this on from a call to its children (`NextOnLine`: one child of a post
  on a line is on the line), and with no call left only what is shown remains. A failed
  SELECT gives it up, which is why the property excepts it.

`LoaderProofs`, from `LoaderAssumption`, for tables, pages and threads of any size and
shape, any depth limit and any number of writes and failures:

* `TypeCorrect`, `RefusalsAreForDeletions` (RefusedForDeletion), `RepliesAreBracketed`
  (RepliesBracketed), `BatchIsRight` (BatchAgrees).
* Both ways of counting replies are reduced to one set, the posts that a chain of
  replies of length d leads to from a post (`Below`). There is one chain from a post to
  a reply (`OneWay`), so the recursion of `countReplies`, which adds up over the
  children, counts a set: `CountIs`, by induction over the depth, with `SumOfDisjoint`
  for one level. The level-by-level walk of `countRepliesBatch` is `CountInv`: what it
  has visited lies below its root by the rows ever seen, and all that lies there by the
  rows that stayed has been visited, down to the level reached. A level that finds
  nothing ends the walk rightly because nothing is below nothing (`NothingBelow`).
* `PageInv` says that a post of the page is loaded, still to be loaded, or deleted since
  the request began; RefusedForDeletion is its end.
* `LevelsInv` says how far the walk over reposts has come: what a chain of reposts
  reaches from the page within the levels counted is loaded or gone. When it ends, either
  nothing is left to load or the limit was reached (`OriginalsLoaded`,
  `LevelsLoaded`). BatchAgrees compares two recursions of `build`, one over the records
  loaded and one over the table. `BuildIs` gives both their equation; `ComparedNext`
  takes one step of each: they agree, or the first is stuck, is a prefix of the second and
  longer than the limit, because a chain that stops short of it contradicts `LevelsInv`.
  The theorem needs no premise on cycles, which `Ends` in BatchAgrees gives.
* Induction over the natural numbers is `Induct`, stated of sets and derived from the
  library's fact that they are well-founded; it is used for chains, depths, cardinalities
  and the steps of `build`.

`NotificationsProofs`, from `NotificationsAssumption`, for any page size:

* `TypeCorrect`, `PagesMissNothing` (PagingSkipsNothing), `CountCoversPage`
  (UnreadCoversPage).
* Entries only ever get ahead of others. So an entry that has not come has at least as
  many ahead of it as were on the pages that came (`PagesInv`), and none can be left
  when `total` is reached: x itself is one more entry than are ahead of it. The
  exceptions are a visitor who comes again and moves to the head, and a count that
  fails; the property names both. `UnreadInv` carries the number of unread rows from the page's SELECT to the
  count's, over any inserts.

`FeedsProofs`, from `FeedsAssumption`, for any users, posts, sizes of a page and of
trending, and windows:

* `TypeCorrect`, `PagesAreComplete` (PagesComplete).
* Without ties an entry's place in what a SELECT answers is one more than the number of
  entries before it (`AnswerIs`), so a page holds those that have between one and the
  other multiple of its size before them (`PageIs`). An entry not shown yet
  therefore has at least as many before it as were on the pages that came (`PagedInv`):
  a write that keeps the entry's place, which is what `Track` asks of it, only puts more
  in front (`TrackKeeps`). At the end `total` says that no further entry was there, and the
  entry itself would be one (`CountTotalKeeps`). That needs a total no smaller than the
  list, which for the recommended feed is not by construction: its SELECT is over the
  derived table, its total over `posts`. `RefreshInv` says that the table lists only
  posts the total counts. Trending misses an entry only where its LIMIT cuts the list
  (`WholeInv`).

What is only model-checked is liveness (PublishReturns, GoneStreamsEnd, Recovers,
ListsAnswered, SinglesAnswered, RequestsAnswered, SignalEnds, ServesAgain,
FeedSettles, SeedEnds), which the prover cannot do under fairness. Every invariant
and every action property of the runs that pass is a theorem.

## 5. What is not modelled

* Contents, wording and timestamps, but for those that `Feeds` orders by
  (elsewhere an order of ids stands for `created_at DESC, id DESC`); CORS, JSON,
  the models and the health check: they keep no state and decide nothing.
* Telemetry beyond that `main` begins with it, whether or not it can be set up, and
  waits for its shutdown: what is exported has no effect on the service.
* Certificates, the proxy, and terraform but for the order of its commands.
* Which image api runs. `switch-variant.sh` also goes back to images older than the
  files; the model has how it starts api, and a release is the files on the server.
* Files that are copied to the server without a `compose down` (a transfer that fails
  half way), and `up` of a single service other than those.
* `compose.reg.direct.yml`, a variant with a database of its own and no migrate service:
  like the local `docker-compose.yml` it has the files run once by the initdb hook of
  an empty volume.
* GetFollowers and GetLikes, which are GetFollowing with another SELECT.
* database/sql retries a statement only on a connection known to be stale before
  it was sent; that is a statement done once. A statement the database never ends
  keeps the connection for good, because none has a timeout of its own; `Server`
  assumes that there is none.
* The rounding of `time/rate`'s tokens; ticks are multiples of what a token takes.

## 6. Order of work

The modules were written with the most important behaviour first: the hub and the
posts handlers with their proofs, then limiter, migration, sessions, loaders and
notifications, then what composes or surrounds them: `Threads` on the abstract hub,
`Server` around all requests, `Feeds` over the tables, `Seed` beside them.

What would add most from here:

1. `Posts` with the notification hub composed, as `Threads` does for replies: that
   `unread_count` and the stream together cover every notification.
2. A statement without an end, and a request with a deadline, in `Server`.
